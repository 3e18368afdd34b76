-------------------------- MODULE McpManagerProofs --------------------------
(***************************************************************************)
(* Proofs about the MCP manager.                                           *)
(*                                                                         *)
(* All that matters of a server is said by Server(n): what the maps point  *)
(* at, what is known as long as no chain of the server was overtaken, and  *)
(* what its crash window has been charged.  A step changes one server, or  *)
(* does the same to all.                                                   *)
(***************************************************************************)
EXTENDS McpManager, FiniteSetTheorems, SequenceTheorems, TLAPS

(* The chains and the connections of server n.                             *)
Of(n)    == {a \in DOMAIN attempts : attempts[a].srv = n}
Links(n) == {c \in DOMAIN conns : conns[c].srv = n}

(* The reconnect attempts of n that are not over, and those of them that   *)
(* work with a connection.                                                 *)
Revivals(n) == {a \in Of(n) : attempts[a].kind = "reconnect" /\ Live(a)}
Linked(n)   == {a \in Revivals(n) : attempts[a].stage \in {"listing", "cleanup"}}

(* Initial attempts that are not over.                                     *)
Starts(n) == {a \in Of(n) : attempts[a].kind = "initial" /\ Live(a)}

(* Somebody awaits the close of the transport of n.                        *)
Closing(n) == n \in closing \/ "all" \in closing

(* Where the maps of n point.                                              *)
Pointers(n) ==
  /\ conn[n] # 0 => conn[n] \in Links(n) /\ ~conns[conn[n]].late
  /\ pending[n] # 0 =>
       /\ pending[n] \in Starts(n) /\ attempts[pending[n]].stage = "connecting"
       /\ loading[n] = pending[n]
  /\ loading[n] # 0 =>
       /\ loading[n] \in Starts(n)
       /\ attempts[loading[n]].stage = "connecting" => pending[n] = loading[n]
  /\ reconnecting[n] # 0 => reconnecting[n] \in Revivals(n)

(* The chains of n: an initial attempt is never retried, and a chain knows *)
(* a connection of its own server.                                         *)
Chains(n) ==
  \A a \in Of(n) :
    /\ attempts[a].kind = "initial" => attempts[a].stage \notin {"sleeping", "cleanup"}
    /\ attempts[a].kind = "initial" /\ attempts[a].stage = "connecting" => attempts[a].conn = 0
    /\ attempts[a].conn # 0 => attempts[a].conn \in Links(n)
    /\ attempts[a].stage \in {"listing", "cleanup"} => attempts[a].conn # 0
    /\ attempts[a].stage = "cleanup" => conns[attempts[a].conn].st = "closed"
    /\ attempts[a].stage = "sleeping" => attempts[a].tries < Tries

(* A closed transport that the manager still holds is about to be          *)
(* forgotten.                                                              *)
Doomed(n) ==
  conn[n] # 0 /\ conns[conn[n]].st = "closed" =>
    \/ Closing(n)
    \/ \E a \in Revivals(n) : attempts[a].stage = "cleanup" /\ attempts[a].conn = conn[n]

(* The attempts that a waiting connectServers call has for n: one, and the *)
(* only one that may be pending.                                           *)
Tasks(n) == call.tasks \cap Of(n)

Waiting(n) ==
  /\ \A a, b \in Tasks(n) : a = b
  /\ \A a \in Tasks(n) : attempts[a].kind = "initial" /\ pending[n] \in {0, a}

(* A reconnect attempt that was not overtaken is the one that is           *)
(* registered, works alone, and knows the connection.                      *)
Alone(n) ==
  \A a \in Revivals(n) :
    /\ reconnecting[n] = a /\ pending[n] = 0 /\ loading[n] = 0
    /\ a \in Linked(n) => conn[n] = attempts[a].conn
    /\ a \notin Linked(n) => conn[n] = 0

(* So does an initial attempt whose connection or tools are awaited.       *)
Starting(n) ==
  /\ pending[n] # 0 =>
       conn[n] = 0 /\ (pending[n] \in Tasks(n) \/ tools[n] \in {NoTools, Deferred})
  /\ loading[n] # 0 => conn[n] = attempts[loading[n]].conn

(* An open transport that is not held was established too late.            *)
Owned(n) ==
  \A c \in Links(n) : conns[c].st = "open" /\ conn[n] # c => conns[c].late

(* Whoever waits for n has the connection that is held, unless it is being *)
(* replaced; and tools of another connection will be replaced.             *)
Agreeing(n) ==
  /\ \A a \in Tasks(n) : conn[n] \in {0, attempts[a].conn} \/ Linked(n) # {}
  /\ conn[n] # 0 =>
       tools[n] \in {NoTools, Deferred, conn[n]} \/ Tasks(n) # {} \/ Linked(n) # {}

(* What was removed does not come back.                                    *)
Gone(n) ==
  n \in removed =>
    /\ Starts(n) = {} /\ Tasks(n) = {}
    /\ "all" \in closing \/ n \notin configured
    /\ Closing(n) \/ (conn[n] = 0 /\ tools[n] = NoTools /\ Revivals(n) = {})

(* What holds until a chain of n is overtaken.                             *)
Calm(n) == Alone(n) /\ Starting(n) /\ Owned(n) /\ Agreeing(n) /\ Gone(n)

Server(n) ==
  /\ Pointers(n) /\ Chains(n) /\ Doomed(n) /\ Waiting(n)
  /\ n \notin overtaken => Calm(n)

(* The attempts that are charged to the window of n, and their tries.      *)
Charged(n) == {a \in Of(n) : attempts[a].charged}
Spawns(n)  == {p \in Charged(n) \X (1..Tries) : p[2] <= attempts[p[1]].tries}

Window(n) ==
  /\ Cardinality(Charged(n)) <= burst[n] /\ Cardinality(Charged(n)) <= BurstLimit
  /\ spawned[n] = Cardinality(Spawns(n))

(* What the calls know of.                                                 *)
Calls ==
  /\ call.tasks \subseteq DOMAIN attempts
  /\ ~call.on => call.tasks = {}
  /\ \A c \in refreshing : c \in DOMAIN conns /\ ~conns[c].late

ServerInv == TypeOK /\ Calls /\ \A n \in Servers : Server(n)
IInv == ServerInv /\ \A n \in Servers : Window(n)

-----------------------------------------------------------------------------
(* Sequences, attempts and connections.                                    *)

(* A function on 1..n is a sequence of length n.                           *)
LEMMA FunctionIsSeq ==
  ASSUME NEW S, NEW n \in Nat, NEW f \in [1..n -> S]
  PROVE  f \in Seq(S) /\ Len(f) = n /\ DOMAIN f = 1..n
BY SeqDef, LenProperties

(* What TypeOK says of the two sequences, entry by entry.                  *)
LEMMA Looked ==
  ASSUME TypeOK
  PROVE  /\ Len(attempts) \in Nat /\ DOMAIN attempts = 1..Len(attempts)
         /\ Len(conns) \in Nat /\ DOMAIN conns = 1..Len(conns)
         /\ 0 \notin DOMAIN attempts /\ 0 \notin DOMAIN conns
         /\ \A a \in DOMAIN attempts : attempts[a] \in Attempt
         /\ \A c \in DOMAIN conns : conns[c] \in Connection
         /\ \A a \in DOMAIN attempts : attempts[a].srv \in Servers
<1>1. attempts \in Seq(Attempt) /\ conns \in Seq(Connection)
  BY DEF TypeOK
<1>2. \A a \in DOMAIN attempts : attempts[a] \in Attempt
  BY <1>1, ElementOfSeq
<1>3. \A a \in DOMAIN attempts : attempts[a].srv \in Servers
  BY <1>2 DEF Attempt
<1> QED
  BY <1>1, <1>2, <1>3, LenProperties, ElementOfSeq

(* And of the maps.                                                        *)
LEMMA Mapped ==
  ASSUME TypeOK
  PROVE  /\ conn \in [Servers -> 0..MaxConns] /\ tools \in [Servers -> 0..(MaxConns + 1)]
         /\ pending \in [Servers -> 0..MaxAttempts] /\ loading \in [Servers -> 0..MaxAttempts]
         /\ reconnecting \in [Servers -> 0..MaxAttempts]
         /\ MaxConns \in Nat /\ MaxAttempts \in Nat
BY McpAssumption DEF TypeOK, Ids, Deferred

(* A step that maps every attempt to an attempt leaves a sequence.         *)
LEMMA AttemptsMapped ==
  ASSUME TypeOK, NEW f \in [DOMAIN attempts -> Attempt]
  PROVE  f \in Seq(Attempt) /\ Len(f) = Len(attempts) /\ DOMAIN f = DOMAIN attempts
BY Looked, FunctionIsSeq

(* A step that maps every connection to a connection leaves a sequence.    *)
LEMMA ConnsMapped ==
  ASSUME TypeOK, NEW f \in [DOMAIN conns -> Connection]
  PROVE  f \in Seq(Connection) /\ Len(f) = Len(conns) /\ DOMAIN f = DOMAIN conns
BY Looked, FunctionIsSeq

(* What a step does to the attempts: they stay, up to the window they are  *)
(* charged to; one moves on; or there is a new one.                        *)
Same(b) ==
  /\ attempts'[b].srv = attempts[b].srv /\ attempts'[b].kind = attempts[b].kind
  /\ attempts'[b].stage = attempts[b].stage /\ attempts'[b].conn = attempts[b].conn
  /\ attempts'[b].tries = attempts[b].tries

Stay ==
  /\ attempts' \in Seq(Attempt) /\ DOMAIN attempts' = DOMAIN attempts
  /\ \A b \in DOMAIN attempts : Same(b)

Moves(a, stage, c) ==
  /\ attempts' \in Seq(Attempt) /\ DOMAIN attempts' = DOMAIN attempts
  /\ \A b \in DOMAIN attempts : b # a => Same(b)
  /\ attempts'[a].srv = attempts[a].srv /\ attempts'[a].kind = attempts[a].kind
  /\ attempts'[a].stage = stage /\ attempts'[a].conn = c
  /\ stage = "sleeping" => attempts'[a].tries < Tries

Joins(k, n, kind) ==
  /\ attempts' \in Seq(Attempt)
  /\ k \notin DOMAIN attempts /\ DOMAIN attempts' = DOMAIN attempts \cup {k}
  /\ \A b \in DOMAIN attempts : Same(b)
  /\ attempts'[k].srv = n /\ attempts'[k].kind = kind
  /\ attempts'[k].stage = "connecting" /\ attempts'[k].conn = 0

(* What it does to the connections: some are closed, or lost; or there is  *)
(* a new one.                                                              *)
Fade(gone, lost) ==
  /\ conns' \in Seq(Connection) /\ DOMAIN conns' = DOMAIN conns
  /\ \A c \in DOMAIN conns :
       /\ conns'[c].srv = conns[c].srv /\ conns'[c].late = conns[c].late
       /\ conns'[c].st = IF c \in gone THEN "closed" ELSE IF c \in lost THEN "dead" ELSE conns[c].st
       /\ c \notin gone \cup lost => conns'[c] = conns[c]
  /\ \A c \in lost : conns[c].st = "open"

Opens(c, n, st, late) ==
  /\ conns' \in Seq(Connection)
  /\ c \notin DOMAIN conns /\ DOMAIN conns' = DOMAIN conns \cup {c}
  /\ \A k \in DOMAIN conns : conns'[k] = conns[k]
  /\ conns'[c].srv = n /\ conns'[c].st = st /\ conns'[c].late = late

(* The steps that leave a sequence alone.                                  *)
LEMMA Stayed ==
  ASSUME TypeOK
  PROVE  /\ UNCHANGED attempts => Stay
         /\ UNCHANGED conns => Fade({}, {})
<1>1. attempts \in Seq(Attempt) /\ conns \in Seq(Connection)
  BY DEF TypeOK
<1> QED
  BY <1>1 DEF Stay, Same, Fade

(* The running attempts are not charged any more.                          *)
LEMMA UnchargedStay ==
  ASSUME TypeOK, NEW ns, attempts' = Uncharged(ns)
  PROVE  /\ Stay
         /\ \A b \in DOMAIN attempts : attempts'[b].charged = (attempts[b].srv \notin ns /\ attempts[b].charged)
<1>1. Uncharged(ns) \in [DOMAIN attempts -> Attempt]
  BY Looked DEF Uncharged, Attempt
<1>2. \A b \in DOMAIN attempts :
        /\ Same(b)
        /\ attempts'[b].charged = (attempts[b].srv \notin ns /\ attempts[b].charged)
  BY Looked DEF Uncharged, Attempt, Same
<1> QED
  BY <1>1, <1>2, AttemptsMapped DEF Stay

-----------------------------------------------------------------------------
(* A server that a step does not touch.                                    *)

Untouched(m) ==
  /\ Of(m)' = Of(m) /\ \A a \in Of(m) : Same(a)
  /\ Links(m)' = Links(m) /\ \A c \in Links(m) : conns'[c] = conns[c]
  /\ conn'[m] = conn[m] /\ pending'[m] = pending[m] /\ loading'[m] = loading[m]
  /\ reconnecting'[m] = reconnecting[m] /\ tools'[m] = tools[m]
  /\ Tasks(m)' = Tasks(m)
  /\ m \in configured' => m \in configured
  /\ m \in removed' => m \in removed
  /\ m \in overtaken => m \in overtaken'
  /\ m \in closing' <=> m \in closing
  /\ "all" \in closing' <=> "all" \in closing

(* What holds of it goes on to hold.                                       *)
LEMMA UntouchedServer ==
  ASSUME NEW m \in Servers, Server(m), Untouched(m)
  PROVE  Server(m)'
<1>1. Revivals(m)' = Revivals(m) /\ Linked(m)' = Linked(m) /\ Starts(m)' = Starts(m)
  BY DEF Untouched, Revivals, Linked, Starts, Live, Same, Of
<1>2. Pointers(m)'
  BY <1>1 DEF Server, Untouched, Pointers, Starts, Same
<1>3. Chains(m)'
  BY <1>1 DEF Server, Untouched, Chains, Same
<1>4. Doomed(m)'
  BY <1>1 DEF Server, Untouched, Doomed, Pointers, Closing, Revivals, Same
<1>5. Waiting(m)'
  BY <1>1 DEF Server, Untouched, Waiting, Tasks, Same
<1>6. ASSUME m \notin overtaken' PROVE Calm(m)'
  <2>1. Calm(m)
    BY <1>6 DEF Server, Untouched
  <2>2. Alone(m)'
    BY <1>1, <2>1 DEF Calm, Alone, Untouched, Linked, Revivals, Same
  <2>3. Starting(m)'
    BY <1>1, <2>1 DEF Calm, Starting, Untouched, Server, Pointers, Starts, Same
  <2>4. Owned(m)'
    BY <1>1, <2>1 DEF Calm, Owned, Untouched
  <2>5. Agreeing(m)'
    BY <1>1, <2>1 DEF Calm, Agreeing, Untouched, Tasks, Same
  <2>6. Gone(m)'
    BY <1>1, <2>1 DEF Calm, Gone, Untouched, Closing
  <2> QED
    BY <2>2, <2>3, <2>4, <2>5, <2>6 DEF Calm
<1> QED
  BY <1>2, <1>3, <1>4, <1>5, <1>6 DEF Server

(* A step that concerns server n leaves the others alone.                  *)
Concerns(n) ==
  /\ DOMAIN attempts \subseteq DOMAIN attempts'
  /\ \A a \in DOMAIN attempts : attempts'[a].srv = attempts[a].srv
  /\ \A a \in DOMAIN attempts' : attempts'[a].srv # n => a \in DOMAIN attempts /\ Same(a)
  /\ DOMAIN conns \subseteq DOMAIN conns'
  /\ \A c \in DOMAIN conns : conns'[c].srv = conns[c].srv
  /\ \A c \in DOMAIN conns' : conns'[c].srv # n => c \in DOMAIN conns /\ conns'[c] = conns[c]
  /\ call' = call
  /\ \A m \in Servers \ {n} :
       /\ conn'[m] = conn[m] /\ pending'[m] = pending[m] /\ loading'[m] = loading[m]
       /\ reconnecting'[m] = reconnecting[m] /\ tools'[m] = tools[m]
       /\ m \in configured' => m \in configured
       /\ m \in removed' => m \in removed
       /\ m \in overtaken => m \in overtaken'
       /\ m \in closing' <=> m \in closing
       /\ "all" \in closing' <=> "all" \in closing

(* If it keeps what holds of n, it keeps what holds of every server.       *)
LEMMA OneConcerned ==
  ASSUME NEW n \in Servers, ServerInv, Concerns(n), Server(n)'
  PROVE  \A m \in Servers : Server(m)'
<1> SUFFICES ASSUME NEW m \in Servers, m # n PROVE Server(m)'
  OBVIOUS
<1>1. Of(m)' = Of(m) /\ \A a \in Of(m) : Same(a)
  BY DEF Concerns, Of
<1>2. Links(m)' = Links(m) /\ \A c \in Links(m) : conns'[c] = conns[c]
  BY DEF Concerns, Links
<1>3. Tasks(m)' = Tasks(m)
  BY <1>1 DEF Concerns, Tasks
<1>4. Untouched(m)
  BY <1>1, <1>2, <1>3 DEF Concerns, Untouched
<1> QED
  BY <1>4, UntouchedServer DEF ServerInv

(* What a chain that moves on, and one that settles, is counted as.        *)
Goes(a, stage, c, n) ==
  /\ Of(n)' = Of(n)
  /\ Revivals(n)' = IF stage \in {"done", "failed"} THEN Revivals(n) \ {a} ELSE Revivals(n)
  /\ Starts(n)' = IF stage \in {"done", "failed"} THEN Starts(n) \ {a} ELSE Starts(n)
  /\ Linked(n)' = IF stage \in {"listing", "cleanup"} /\ a \in Revivals(n)
                  THEN Linked(n) \cup {a} ELSE Linked(n) \ {a}
  /\ \A b \in Of(n) \ {a} : Same(b)

(* A chain that moves on changes the counts of its own server only so.     *)
LEMMA MovedSets ==
  ASSUME NEW a \in DOMAIN attempts, Live(a), NEW stage, NEW c, Moves(a, stage, c), NEW n
  PROVE  Goes(a, stage, c, n)
<1>1. Of(n)' = Of(n)
  BY DEF Moves, Of, Same
<1>2. /\ attempts'[a].kind = attempts[a].kind /\ attempts'[a].stage = stage
      /\ \A b \in Of(n) \ {a} : /\ attempts'[b].kind = attempts[b].kind
                                /\ attempts'[b].stage = attempts[b].stage
  BY DEF Moves, Of, Same
<1>3. Revivals(n)' = IF stage \in {"done", "failed"} THEN Revivals(n) \ {a} ELSE Revivals(n)
  BY <1>1, <1>2 DEF Revivals, Live
<1>4. Starts(n)' = IF stage \in {"done", "failed"} THEN Starts(n) \ {a} ELSE Starts(n)
  BY <1>1, <1>2 DEF Starts, Live
<1>5. Linked(n)' = IF stage \in {"listing", "cleanup"} /\ a \in Revivals(n)
                   THEN Linked(n) \cup {a} ELSE Linked(n) \ {a}
  BY <1>1, <1>2, <1>3 DEF Linked, Revivals
<1> QED
  BY <1>1, <1>3, <1>4, <1>5 DEF Goes, Moves, Of

(* A new connection belongs to its server.                                 *)
LEMMA OpenedSets ==
  ASSUME NEW c, NEW n, NEW st, NEW late, Opens(c, n, st, late)
  PROVE  Links(n)' = Links(n) \cup {c} /\ \A m \in Servers \ {n} : Links(m)' = Links(m)
BY DEF Opens, Links

(* Connections that fade stay the connections of their server.             *)
LEMMA FadedSets ==
  ASSUME NEW gone, NEW lost, Fade(gone, lost)
  PROVE  \A m \in Servers : Links(m)' = Links(m)
BY DEF Fade, Links

(* An initial attempt has a connection.                                    *)
LEMMA InitialConnectedServer ==
  ASSUME ServerInv, NEW a \in DOMAIN attempts, InitialConnected(a)
  PROVE  ServerInv'
<1> DEFINE c == Len(conns) + 1
<1>1. TypeOK /\ Calls /\ attempts[a] \in Attempt /\ conns \in Seq(Connection)
      /\ attempts[a].srv \in Servers /\ a # 0
  BY Looked DEF ServerInv, Attempt, TypeOK
<1>2. PICK n \in Servers : n = attempts[a].srv
  BY <1>1
<1>3. Opens(c, n, "open", pending[n] # a) /\ c \in 1..MaxConns
  <2> DEFINE r == [srv |-> n, st |-> "open", wired |-> TRUE, late |-> pending[n] # a]
  <2>1. r \in Connection /\ conns' = Append(conns, r) /\ c <= MaxConns
    BY <1>2 DEF InitialConnected, Connection
  <2>2. conns' \in Seq(Connection) /\ Len(conns') = c /\ conns'[c] = r
        /\ \A k \in 1..Len(conns) : conns'[k] = conns[k]
    BY <1>1, <2>1, AppendProperties
  <2>3. DOMAIN conns' = 1..c /\ Len(conns) \in Nat /\ DOMAIN conns = 1..Len(conns)
    BY <1>1, <2>2, LenProperties
  <2> QED
    BY <2>1, <2>2, <2>3, McpAssumption DEF Opens
<1> HIDE DEF c
<1>4. Moves(a, "listing", c)
  <2>1. attempts' \in [DOMAIN attempts -> Attempt]
    BY <1>1, <1>3, Looked DEF InitialConnected, Attempt, c
  <2>2. /\ \A b \in DOMAIN attempts : b # a => attempts'[b] = attempts[b]
        /\ attempts'[a].srv = attempts[a].srv /\ attempts'[a].kind = attempts[a].kind
        /\ attempts'[a].stage = "listing" /\ attempts'[a].conn = c
    BY <1>1 DEF InitialConnected, Attempt, c
  <2> QED
    BY <1>1, <2>1, <2>2, AttemptsMapped DEF Moves, Same
<1>5. /\ attempts[a].kind = "initial" /\ attempts[a].stage = "connecting" /\ Live(a)
      /\ pending' = IF pending[n] = a THEN Forget(pending, n) ELSE pending
      /\ conn' = IF pending[n] = a THEN [conn EXCEPT ![n] = c] ELSE conn
      /\ configured' = configured \cup {n}
      /\ UNCHANGED <<loading, reconnecting, tools, burst, epoch, call, closing, refreshing,
                     ops, removed, overtaken, spawned>>
  BY <1>2 DEF InitialConnected, Live, c
<1>6. TypeOK'
  <2>1. /\ conn' \in [Servers -> 0..MaxConns]
        /\ {pending', loading', reconnecting'} \subseteq [Servers -> Ids]
    BY <1>1, <1>3, <1>5, Mapped DEF Forget, Ids
  <2> QED
    BY <1>1, <1>3, <1>4, <1>5, <2>1 DEF TypeOK, Opens, Moves
<1>7. Calls'
  BY <1>1, <1>3, <1>4, <1>5 DEF Calls, Opens, Moves
<1>8. Concerns(n)
  BY <1>1, <1>2, <1>3, <1>4, <1>5 DEF Concerns, Opens, Moves, Same, Forget, TypeOK
<1>9. /\ Of(n)' = Of(n) /\ Revivals(n)' = Revivals(n) /\ Linked(n)' = Linked(n)
      /\ Starts(n)' = Starts(n) /\ Tasks(n)' = Tasks(n) /\ a \in Starts(n)
      /\ Links(n)' = Links(n) \cup {c} /\ c \notin Links(n) /\ c # 0
      /\ a \notin Revivals(n) /\ a \notin Linked(n)
  <2>1. a \in Starts(n) /\ a \notin Revivals(n) /\ a \notin Linked(n)
    BY <1>2, <1>5 DEF Starts, Revivals, Linked, Of
  <2>2. Links(n)' = Links(n) \cup {c} /\ c \notin Links(n) /\ c # 0
    BY <1>3, OpenedSets DEF Opens, Links
  <2> QED
    BY <1>4, <1>5, <2>1, <2>2, MovedSets DEF Goes, Tasks
<1>10. Server(n)
  BY DEF ServerInv
<1>11. /\ conn[n] # c /\ \A b \in Of(n) : attempts[b].conn # c
       /\ \A b \in Of(n) : b # a => Same(b)
       /\ \A k \in Links(n) : conns'[k] = conns[k]
  BY <1>3, <1>4, <1>9, <1>10 DEF Server, Pointers, Chains, Moves, Opens, Of, Links
<1>12. /\ conn'[n] = IF pending[n] = a THEN c ELSE conn[n]
       /\ pending'[n] = IF pending[n] = a THEN 0 ELSE pending[n]
  BY <1>1, <1>5 DEF TypeOK, Forget
<1>13. Pointers(n)'
  <2>1. conn'[n] # 0 => conn'[n] \in Links(n)' /\ ~conns'[conn'[n]].late
    BY <1>3, <1>9, <1>10, <1>11, <1>12 DEF Server, Pointers, Opens
  <2>2. pending'[n] # 0 =>
          /\ pending'[n] \in Starts(n)' /\ attempts'[pending'[n]].stage = "connecting"
          /\ loading'[n] = pending'[n]
    BY <1>5, <1>9, <1>10, <1>11, <1>12 DEF Server, Pointers, Same, Starts
  <2>3. loading'[n] # 0 =>
          /\ loading'[n] \in Starts(n)'
          /\ attempts'[loading'[n]].stage = "connecting" => pending'[n] = loading'[n]
    BY <1>4, <1>5, <1>9, <1>10, <1>11, <1>12 DEF Server, Pointers, Same, Starts, Moves
  <2>4. reconnecting'[n] # 0 => reconnecting'[n] \in Revivals(n)'
    BY <1>5, <1>9, <1>10 DEF Server, Pointers
  <2> QED
    BY <2>1, <2>2, <2>3, <2>4 DEF Pointers
<1>14. Chains(n)'
  BY <1>3, <1>4, <1>5, <1>9, <1>10, <1>11 DEF Server, Chains, Moves, Opens, Same
<1>15. Doomed(n)'
  BY <1>3, <1>4, <1>5, <1>9, <1>10, <1>11, <1>12
     DEF Server, Pointers, Doomed, Closing, Moves, Opens, Same, Revivals, Linked
<1>16. Waiting(n)'
  BY <1>4, <1>5, <1>9, <1>10, <1>11, <1>12 DEF Server, Waiting, Moves, Same, Tasks
<1>17. ASSUME n \notin overtaken' PROVE Calm(n)'
  <2>1. Calm(n)
    BY <1>5, <1>10, <1>17 DEF Server
  <2>2. Alone(n)'
    BY <1>1, <1>5, <1>9, <1>11, <1>12, <2>1 DEF Calm, Alone, Same, Linked, Revivals
  <2>3. Starting(n)'
    BY <1>1, <1>4, <1>5, <1>9, <1>10, <1>11, <1>12, <2>1
       DEF Calm, Starting, Same, Moves, Server, Pointers, Starts, Chains, Of
  <2>4. Owned(n)'
    <3>1. 0 \notin Links(n) /\ (pending[n] = a => conn[n] = 0)
      BY <1>1, <2>1, Looked DEF Links, Calm, Starting
    <3> QED
      BY <1>3, <1>9, <1>11, <1>12, <2>1, <3>1 DEF Calm, Owned, Opens
  <2>5. Agreeing(n)'
    <3>1. \A b \in Tasks(n) : conn'[n] \in {0, attempts'[b].conn} \/ Linked(n) # {}
      BY <1>1, <1>4, <1>5, <1>9, <1>10, <1>11, <1>12, <2>1
         DEF Calm, Agreeing, Same, Moves, Tasks, Server, Waiting, Chains, Starts, Of
    <3>2. conn'[n] # 0 =>
            tools[n] \in {NoTools, Deferred, conn'[n]} \/ Tasks(n) # {} \/ Linked(n) # {}
      BY <1>1, <1>5, <1>9, <1>12, <2>1 DEF Calm, Agreeing, Starting
    <3> QED
      BY <1>5, <1>9, <3>1, <3>2 DEF Agreeing, Tasks, NoTools, Deferred
  <2>6. Gone(n)'
    BY <1>5, <1>9, <2>1 DEF Calm, Gone
  <2> QED
    BY <2>2, <2>3, <2>4, <2>5, <2>6 DEF Calm
<1>18. Server(n)'
  BY <1>13, <1>14, <1>15, <1>16, <1>17 DEF Server
<1> QED
  BY <1>6, <1>7, <1>8, <1>18, OneConcerned DEF ServerInv

(* A step of one chain that leaves the connections alone.                  *)
LEMMA ChainMoves ==
  ASSUME ServerInv, NEW a \in DOMAIN attempts, Live(a), NEW stage, NEW n \in Servers,
         n = attempts[a].srv, Moves(a, stage, attempts[a].conn), UNCHANGED <<conns, call>>
  PROVE  /\ Goes(a, stage, attempts[a].conn, n) /\ Tasks(n)' = Tasks(n) /\ Links(n)' = Links(n)
         /\ attempts'[a].kind = attempts[a].kind /\ attempts'[a].stage = stage
         /\ attempts'[a].conn = attempts[a].conn /\ a \in Of(n) /\ 0 \notin Of(n)
         /\ attempts[a].kind = "initial" => a \in Starts(n) /\ a \notin Revivals(n)
         /\ attempts[a].kind = "reconnect" => a \in Revivals(n) /\ a \notin Starts(n)
         /\ stage = "sleeping" => attempts'[a].tries < Tries
<1>1. Goes(a, stage, attempts[a].conn, n)
  BY MovedSets
<1>2. 0 \notin DOMAIN attempts
  BY Looked DEF ServerInv
<1> QED
  BY <1>1, <1>2 DEF Goes, Tasks, Links, Moves, Of, Starts, Revivals

(* An initial attempt that fails is forgotten.                             *)
LEMMA InitialFailedServer ==
  ASSUME ServerInv, NEW a \in DOMAIN attempts, InitialFailed(a)
  PROVE  ServerInv'
<1>1. TypeOK /\ Calls /\ attempts[a] \in Attempt /\ attempts[a].srv \in Servers /\ a # 0
  BY Looked DEF ServerInv
<1>2. PICK n \in Servers : n = attempts[a].srv
  BY <1>1
<1>3. /\ attempts[a].kind = "initial" /\ attempts[a].stage \in {"connecting", "listing"}
      /\ Live(a)
      /\ pending' = ForgetIf(pending, n, a) /\ loading' = ForgetIf(loading, n, a)
      /\ UNCHANGED <<configured, conn, reconnecting, tools, burst, epoch, conns, call,
                     closing, refreshing, ops, removed, overtaken, spawned>>
  BY <1>2 DEF InitialFailed, Live
<1>4. Moves(a, "failed", attempts[a].conn)
  <2>1. attempts' \in [DOMAIN attempts -> Attempt]
    BY <1>1, Looked DEF InitialFailed, Attempt
  <2>2. /\ \A b \in DOMAIN attempts : b # a => attempts'[b] = attempts[b]
        /\ attempts'[a].srv = attempts[a].srv /\ attempts'[a].kind = attempts[a].kind
        /\ attempts'[a].stage = "failed" /\ attempts'[a].conn = attempts[a].conn
    BY <1>1 DEF InitialFailed, Attempt
  <2> QED
    BY <1>1, <2>1, <2>2, AttemptsMapped DEF Moves, Same
<1>5. TypeOK'
  <2>1. {pending', loading', reconnecting'} \subseteq [Servers -> Ids]
    BY <1>1, <1>3, Mapped DEF Forget, ForgetIf, Ids
  <2> QED
    BY <1>1, <1>3, <1>4, <2>1 DEF TypeOK, Moves
<1>6. Calls'
  BY <1>1, <1>3, <1>4 DEF Calls, Moves
<1>7. Concerns(n)
  BY <1>1, <1>2, <1>3, <1>4, Mapped DEF Concerns, Moves, Same, Forget, ForgetIf
<1>8. /\ pending'[n] = IF pending[n] = a THEN 0 ELSE pending[n]
      /\ loading'[n] = IF loading[n] = a THEN 0 ELSE loading[n]
  BY <1>1, <1>3, Mapped DEF Forget, ForgetIf
<1>9. /\ Of(n)' = Of(n) /\ Revivals(n)' = Revivals(n) /\ Linked(n)' = Linked(n)
      /\ Starts(n)' = Starts(n) \ {a} /\ Tasks(n)' = Tasks(n) /\ Links(n)' = Links(n)
      /\ \A b \in Of(n) \ {a} : Same(b)
      /\ a \in Starts(n) /\ a \notin Revivals(n) /\ 0 \notin Of(n) /\ a \in Of(n)
      /\ attempts'[a].kind = "initial" /\ attempts'[a].stage = "failed"
      /\ attempts'[a].conn = attempts[a].conn
  <2>1. /\ Goes(a, "failed", attempts[a].conn, n) /\ Tasks(n)' = Tasks(n) /\ Links(n)' = Links(n)
        /\ attempts'[a].kind = attempts[a].kind /\ attempts'[a].stage = "failed"
        /\ attempts'[a].conn = attempts[a].conn /\ a \in Of(n) /\ 0 \notin Of(n)
        /\ attempts[a].kind = "initial" => a \in Starts(n) /\ a \notin Revivals(n)
    BY <1>2, <1>3, <1>4, ChainMoves
  <2> QED
    BY <1>3, <2>1 DEF Goes, Linked
<1>10. Server(n)
  BY DEF ServerInv
<1>11. Pointers(n)'
  BY <1>3, <1>8, <1>9, <1>10 DEF Server, Pointers, Same, Starts
<1>12. Chains(n)'
  BY <1>3, <1>9, <1>10 DEF Server, Chains, Same
<1>13. Doomed(n)'
  BY <1>3, <1>9, <1>10 DEF Server, Doomed, Closing, Same, Revivals
<1>14. Waiting(n)'
  BY <1>3, <1>8, <1>9, <1>10 DEF Server, Waiting, Same, Tasks
<1>15. ASSUME n \notin overtaken' PROVE Calm(n)'
  <2>1. Calm(n)
    BY <1>3, <1>10, <1>15 DEF Server
  <2>2. Alone(n)'
    BY <1>3, <1>8, <1>9, <2>1 DEF Calm, Alone, Same, Linked, Revivals
  <2>3. Starting(n)'
    BY <1>3, <1>8, <1>9, <1>10, <2>1 DEF Calm, Starting, Same, Server, Pointers, Starts
  <2>4. Owned(n)'
    BY <1>3, <1>9, <2>1 DEF Calm, Owned
  <2>5. Agreeing(n)'
    BY <1>3, <1>9, <2>1 DEF Calm, Agreeing, Same, Tasks
  <2>6. Gone(n)'
    BY <1>3, <1>9, <2>1 DEF Calm, Gone, Closing
  <2> QED
    BY <2>2, <2>3, <2>4, <2>5, <2>6 DEF Calm
<1>16. Server(n)'
  BY <1>11, <1>12, <1>13, <1>14, <1>15 DEF Server
<1> QED
  BY <1>5, <1>6, <1>7, <1>16, OneConcerned DEF ServerInv

(* The tools of an initial attempt are listed.                             *)
LEMMA InitialListedServer ==
  ASSUME ServerInv, NEW a \in DOMAIN attempts, InitialListed(a)
  PROVE  ServerInv'
<1>1. TypeOK /\ Calls /\ attempts[a] \in Attempt /\ attempts[a].srv \in Servers /\ a # 0
  BY Looked DEF ServerInv
<1>2. PICK n \in Servers : n = attempts[a].srv
  BY <1>1
<1>3. /\ attempts[a].kind = "initial" /\ attempts[a].stage = "listing" /\ Live(a)
      /\ loading' = ForgetIf(loading, n, a)
      /\ tools' = IF loading[n] = a THEN [tools EXCEPT ![n] = attempts[a].conn] ELSE tools
      /\ UNCHANGED <<configured, conn, pending, reconnecting, burst, epoch, conns, call,
                     closing, refreshing, ops, removed, overtaken, spawned>>
  BY <1>2 DEF InitialListed, Live, Registers, ForgetIf
<1>4. Moves(a, "done", attempts[a].conn)
  <2>1. attempts' \in [DOMAIN attempts -> Attempt]
    BY <1>1, Looked DEF InitialListed, Attempt
  <2>2. /\ \A b \in DOMAIN attempts : b # a => attempts'[b] = attempts[b]
        /\ attempts'[a].srv = attempts[a].srv /\ attempts'[a].kind = attempts[a].kind
        /\ attempts'[a].stage = "done" /\ attempts'[a].conn = attempts[a].conn
    BY <1>1 DEF InitialListed, Attempt
  <2> QED
    BY <1>1, <2>1, <2>2, AttemptsMapped DEF Moves, Same
<1>5. TypeOK'
  <2>1. {pending', loading', reconnecting'} \subseteq [Servers -> Ids]
    BY <1>1, <1>3, Mapped DEF Forget, ForgetIf, Ids
  <2>2. tools' \in [Servers -> 0..Deferred]
    BY <1>1, <1>3, Mapped DEF Attempt, Deferred
  <2> QED
    BY <1>1, <1>3, <1>4, <2>1, <2>2 DEF TypeOK, Moves
<1>6. Calls'
  BY <1>1, <1>3, <1>4 DEF Calls, Moves
<1>7. Concerns(n)
  BY <1>1, <1>2, <1>3, <1>4, Mapped DEF Concerns, Moves, Same, Forget, ForgetIf
<1>8. /\ loading'[n] = IF loading[n] = a THEN 0 ELSE loading[n]
      /\ tools'[n] = IF loading[n] = a THEN attempts[a].conn ELSE tools[n]
  BY <1>1, <1>3, Mapped DEF Forget, ForgetIf
<1>9. /\ Of(n)' = Of(n) /\ Revivals(n)' = Revivals(n) /\ Linked(n)' = Linked(n)
      /\ Starts(n)' = Starts(n) \ {a} /\ Tasks(n)' = Tasks(n) /\ Links(n)' = Links(n)
      /\ \A b \in Of(n) \ {a} : Same(b)
      /\ a \in Starts(n) /\ a \notin Revivals(n) /\ 0 \notin Of(n) /\ a \in Of(n)
      /\ attempts'[a].kind = "initial" /\ attempts'[a].stage = "done"
      /\ attempts'[a].conn = attempts[a].conn
  <2>1. /\ Goes(a, "done", attempts[a].conn, n) /\ Tasks(n)' = Tasks(n) /\ Links(n)' = Links(n)
        /\ attempts'[a].kind = attempts[a].kind /\ attempts'[a].stage = "done"
        /\ attempts'[a].conn = attempts[a].conn /\ a \in Of(n) /\ 0 \notin Of(n)
        /\ attempts[a].kind = "initial" => a \in Starts(n) /\ a \notin Revivals(n)
    BY <1>2, <1>3, <1>4, ChainMoves
  <2> QED
    BY <1>3, <2>1 DEF Goes, Linked
<1>10. Server(n)
  BY DEF ServerInv
<1>11. Pointers(n)'
  BY <1>3, <1>8, <1>9, <1>10 DEF Server, Pointers, Same, Starts
<1>12. Chains(n)'
  BY <1>3, <1>9, <1>10 DEF Server, Chains, Same
<1>13. Doomed(n)'
  BY <1>3, <1>9, <1>10 DEF Server, Doomed, Closing, Same, Revivals
<1>14. Waiting(n)'
  BY <1>3, <1>9, <1>10 DEF Server, Waiting, Same, Tasks
<1>15. ASSUME n \notin overtaken' PROVE Calm(n)'
  <2>1. Calm(n)
    BY <1>3, <1>10, <1>15 DEF Server
  <2>2. Alone(n)'
    BY <1>3, <1>8, <1>9, <2>1 DEF Calm, Alone, Same, Linked, Revivals
  <2>3. Starting(n)'
    BY <1>1, <1>3, <1>8, <1>9, <1>10, <2>1 DEF Calm, Starting, Same, Server, Pointers, Starts
  <2>4. Owned(n)'
    BY <1>3, <1>9, <2>1 DEF Calm, Owned
  <2>5. Agreeing(n)'
    <3>1. loading[n] = a => tools'[n] = conn[n]
      BY <1>1, <1>8, <2>1 DEF Calm, Starting
    <3> QED
      BY <1>3, <1>8, <1>9, <2>1, <3>1 DEF Calm, Agreeing, Same, Tasks
  <2>6. Gone(n)'
    BY <1>3, <1>9, <2>1 DEF Calm, Gone
  <2> QED
    BY <2>2, <2>3, <2>4, <2>5, <2>6 DEF Calm
<1>16. Server(n)'
  BY <1>11, <1>12, <1>13, <1>14, <1>15 DEF Server
<1> QED
  BY <1>5, <1>6, <1>7, <1>16, OneConcerned DEF ServerInv

(* A new, last connection.                                                 *)
LEMMA Opened ==
  ASSUME TypeOK, NEW n \in Servers, NEW st, st \in {"open", "closed"}, NEW wired \in BOOLEAN,
         Len(conns) + 1 <= MaxConns,
         conns' = Append(conns, [srv |-> n, st |-> st, wired |-> wired, late |-> FALSE])
  PROVE  Opens(Len(conns) + 1, n, st, FALSE) /\ Len(conns) + 1 \in 1..MaxConns
<1> DEFINE c == Len(conns) + 1
           r == [srv |-> n, st |-> st, wired |-> wired, late |-> FALSE]
<1>1. r \in Connection /\ conns \in Seq(Connection) /\ c <= MaxConns
  BY DEF Connection, TypeOK
<1>2. conns' \in Seq(Connection) /\ Len(conns') = c /\ conns'[c] = r
      /\ \A k \in 1..Len(conns) : conns'[k] = conns[k]
  BY <1>1, AppendProperties
<1>3. DOMAIN conns' = 1..c /\ Len(conns) \in Nat /\ DOMAIN conns = 1..Len(conns)
  BY <1>1, <1>2, LenProperties
<1> QED
  BY <1>1, <1>2, <1>3, McpAssumption DEF Opens

(* A try of a reconnect attempt ends: it sleeps, tries again or gives up,  *)
(* and its connection, if it had one, is forgotten.                        *)
TryEnds(a, stage, n) ==
  /\ attempts[a].kind = "reconnect" /\ n = attempts[a].srv
  /\ attempts[a].stage \in {"connecting", "sleeping", "cleanup"}
  /\ stage \in {"connecting", "sleeping", "failed"}
  /\ Moves(a, stage, attempts[a].conn)
  /\ reconnecting' = IF stage = "failed" THEN Forget(reconnecting, n) ELSE reconnecting
  /\ conn' = IF attempts[a].stage = "cleanup" THEN Forget(conn, n) ELSE conn
  /\ conns' = conns \/ Opens(Len(conns) + 1, n, "closed", FALSE)
  /\ spawned' \in [Servers -> Nat]
  /\ UNCHANGED <<tools, overtaken, unchangedByTry>>

(* A try that ends keeps what is known of the servers.                     *)
LEMMA TryEndsServer ==
  ASSUME ServerInv, NEW a \in DOMAIN attempts, NEW stage, NEW n \in Servers, TryEnds(a, stage, n)
  PROVE  ServerInv'
<1>1. TypeOK /\ Calls /\ attempts[a] \in Attempt /\ a # 0
  BY Looked DEF ServerInv
<1>2. /\ Live(a) /\ Moves(a, stage, attempts[a].conn)
      /\ attempts[a].kind = "reconnect"
      /\ reconnecting' = IF stage = "failed" THEN Forget(reconnecting, n) ELSE reconnecting
      /\ conn' = IF attempts[a].stage = "cleanup" THEN Forget(conn, n) ELSE conn
      /\ UNCHANGED <<configured, pending, loading, burst, epoch, call, closing, refreshing,
                     ops, removed, tools, overtaken>>
  BY DEF TryEnds, Live, unchangedByTry
<1>3. /\ Goes(a, stage, attempts[a].conn, n)
      /\ 0 \notin Of(n) /\ a \in Of(n) /\ a \in Revivals(n)
      /\ a \in Linked(n) <=> attempts[a].stage = "cleanup"
  <2>1. Goes(a, stage, attempts[a].conn, n)
    BY <1>2, MovedSets
  <2>2. 0 \notin Of(n) /\ a \in Of(n)
    BY <1>1, Looked DEF TryEnds, Of
  <2> QED
    BY <1>2, <2>1, <2>2 DEF TryEnds, Revivals, Linked
<1>4. /\ conns' \in Seq(Connection)
      /\ \A k \in DOMAIN conns : k \in DOMAIN conns' /\ conns'[k] = conns[k]
      /\ \A k \in DOMAIN conns' \ DOMAIN conns :
           conns'[k].srv = n /\ conns'[k].st = "closed"
  BY <1>1 DEF TryEnds, Opens, TypeOK
<1>5. TypeOK'
  <2>1. conn' \in [Servers -> 0..MaxConns]
    BY <1>1, <1>2, Mapped DEF Forget
  <2>2. {pending', loading', reconnecting'} \subseteq [Servers -> Ids]
    BY <1>1, <1>2, Mapped DEF Forget, Ids
  <2> QED
    BY <1>1, <1>2, <1>4, <2>1, <2>2 DEF TypeOK, Moves, TryEnds
<1>6. Calls'
  BY <1>1, <1>2, <1>4 DEF Calls, Moves
<1>7. Concerns(n)
  BY <1>1, <1>2, <1>4, Mapped DEF Concerns, Moves, Same, Forget, TryEnds
<1>8. /\ reconnecting'[n] = IF stage = "failed" THEN 0 ELSE reconnecting[n]
      /\ conn'[n] = IF attempts[a].stage = "cleanup" THEN 0 ELSE conn[n]
  BY <1>1, Mapped DEF TryEnds, Forget
<1>9. /\ Of(n)' = Of(n) /\ Starts(n)' = Starts(n) /\ Tasks(n)' = Tasks(n)
      /\ Revivals(n)' = IF stage = "failed" THEN Revivals(n) \ {a} ELSE Revivals(n)
      /\ Linked(n)' = Linked(n) \ {a}
      /\ \A b \in Of(n) \ {a} : Same(b)
      /\ attempts'[a].kind = "reconnect" /\ attempts'[a].stage = stage
      /\ attempts'[a].conn = attempts[a].conn
      /\ stage = "sleeping" => attempts'[a].tries < Tries
  BY <1>2, <1>3 DEF Goes, Tasks, TryEnds, Moves, Starts, Revivals
<1>10. /\ Links(n) \subseteq Links(n)'
       /\ \A k \in Links(n) : conns'[k] = conns[k]
       /\ \A k \in Links(n)' \ Links(n) : conns'[k].st = "closed"
  BY <1>4 DEF Links
<1>11. Server(n)
  BY DEF ServerInv
<1>12. Pointers(n)'
  BY <1>2, <1>8, <1>9, <1>10, <1>11 DEF Server, Pointers, Same, Starts, Revivals
<1>13. Chains(n)'
  BY <1>2, <1>9, <1>10, <1>11 DEF Server, Chains, Same, TryEnds
<1>14. Doomed(n)'
  BY <1>2, <1>8, <1>9, <1>10, <1>11
     DEF Server, Doomed, Pointers, Closing, Same, Revivals, TryEnds
<1>15. Waiting(n)'
  BY <1>2, <1>9, <1>11 DEF Server, Waiting, Same, Tasks
<1>16. ASSUME n \notin overtaken' PROVE Calm(n)'
  <2>1. Calm(n)
    BY <1>2, <1>11, <1>16 DEF Server
  <2>2. reconnecting[n] = a /\ pending[n] = 0 /\ loading[n] = 0
        /\ (\A b \in Revivals(n) : b = a) /\ conn'[n] = 0
        /\ (a \in Linked(n) => conn[n] = attempts[a].conn)
    BY <1>1, <1>3, <1>8, <2>1 DEF Calm, Alone, TryEnds
  <2>3. Alone(n)'
    BY <1>2, <1>8, <1>9, <2>2 DEF Alone, TryEnds
  <2>4. Starting(n)'
    BY <1>2, <2>2 DEF Starting
  <2>5. Owned(n)'
    <3>1. ASSUME NEW k \in Links(n), conn[n] = k PROVE conns[k].st = "closed"
      <4>1. 0 \notin Links(n)
        BY <1>1, Looked DEF Links
      <4> QED
        BY <1>3, <1>8, <1>11, <2>2, <3>1, <4>1 DEF Server, Chains
    <3>2. ASSUME NEW k \in Links(n), conns[k].st = "open" PROVE conns'[k].late
      BY <1>10, <2>1, <3>1, <3>2 DEF Calm, Owned
    <3> QED
      BY <1>10, <3>2 DEF Owned
  <2>6. Agreeing(n)'
    BY <1>2, <1>9, <2>2 DEF Agreeing
  <2>7. Gone(n)'
    BY <1>2, <1>8, <1>9, <2>1 DEF Calm, Gone, Closing
  <2> QED
    BY <2>3, <2>4, <2>5, <2>6, <2>7 DEF Calm
<1>17. Server(n)'
  BY <1>12, <1>13, <1>14, <1>15, <1>16 DEF Server
<1> QED
  BY <1>5, <1>6, <1>7, <1>17, OneConcerned DEF ServerInv

(* TryFailed ends a try.                                                   *)
LEMMA TryFailedMoves ==
  ASSUME TypeOK, NEW a \in DOMAIN attempts, TryFailed(a)
  PROVE  \E stage \in {"sleeping", "failed"} :
           /\ Moves(a, stage, attempts[a].conn)
           /\ reconnecting' = IF stage = "failed" THEN Forget(reconnecting, attempts[a].srv)
                              ELSE reconnecting
<1>1. attempts[a] \in Attempt /\ attempts[a].tries \in 1..Tries /\ Tries \in Nat
  BY Looked, McpAssumption DEF Attempt
<1>2. CASE GivesUp(a)
  <2>1. attempts' = [attempts EXCEPT ![a].stage = "failed"]
        /\ reconnecting' = Forget(reconnecting, attempts[a].srv)
    BY <1>2 DEF TryFailed, Over
  <2>2. attempts' \in [DOMAIN attempts -> Attempt]
    BY <1>1, <2>1, Looked DEF Attempt
  <2>3. /\ \A b \in DOMAIN attempts : b # a => attempts'[b] = attempts[b]
        /\ attempts'[a].srv = attempts[a].srv /\ attempts'[a].kind = attempts[a].kind
        /\ attempts'[a].stage = "failed" /\ attempts'[a].conn = attempts[a].conn
    BY <1>1, <2>1 DEF Attempt
  <2>4. Moves(a, "failed", attempts[a].conn)
    BY <2>2, <2>3, AttemptsMapped DEF Moves, Same
  <2> QED
    BY <2>1, <2>4
<1>3. CASE ~GivesUp(a)
  <2>1. attempts' = [attempts EXCEPT ![a].stage = "sleeping"]
        /\ reconnecting' = reconnecting /\ attempts[a].tries # Tries
    BY <1>3 DEF TryFailed, GivesUp
  <2>2. attempts' \in [DOMAIN attempts -> Attempt]
    BY <1>1, <2>1, Looked DEF Attempt
  <2>3. /\ \A b \in DOMAIN attempts : b # a => attempts'[b] = attempts[b]
        /\ attempts'[a].srv = attempts[a].srv /\ attempts'[a].kind = attempts[a].kind
        /\ attempts'[a].stage = "sleeping" /\ attempts'[a].conn = attempts[a].conn
        /\ attempts'[a].tries = attempts[a].tries
    BY <1>1, <2>1 DEF Attempt
  <2>4. Moves(a, "sleeping", attempts[a].conn)
    BY <1>1, <2>1, <2>2, <2>3, AttemptsMapped DEF Moves, Same
  <2> QED
    BY <2>1, <2>4
<1> QED
  BY <1>2, <1>3

(* A connection that failed, and a connection whose clean-up is done.      *)
LEMMA ConnectFailedServer ==
  ASSUME ServerInv, NEW a \in DOMAIN attempts, ConnectFailed(a) \/ CleanedUp(a)
  PROVE  ServerInv'
<1>1. TypeOK /\ attempts[a].srv \in Servers /\ TryFailed(a) /\ spawned' = spawned
      /\ spawned \in [Servers -> Nat]
  BY Looked DEF ServerInv, ConnectFailed, CleanedUp, TypeOK
<1>2. PICK n \in Servers : n = attempts[a].srv
  BY <1>1
<1>3. attempts[a].kind = "reconnect"
  <2>1. attempts[a].kind \in {"initial", "reconnect"}
    BY <1>1, Looked DEF Attempt
  <2>2. Chains(n) /\ a \in Of(n)
    BY <1>2 DEF ServerInv, Server, Of
  <2> QED
    BY <2>1, <2>2 DEF Chains, ConnectFailed, CleanedUp
<1>4. PICK stage \in {"sleeping", "failed"} :
        /\ Moves(a, stage, attempts[a].conn)
        /\ reconnecting' = IF stage = "failed" THEN Forget(reconnecting, attempts[a].srv)
                           ELSE reconnecting
  BY <1>1, TryFailedMoves
<1>5. /\ attempts[a].stage \in {"connecting", "sleeping", "cleanup"}
      /\ conn' = IF attempts[a].stage = "cleanup" THEN Forget(conn, n) ELSE conn
      /\ UNCHANGED <<conns, tools, overtaken, unchangedByTry>>
  BY <1>2 DEF ConnectFailed, CleanedUp
<1>6. TryEnds(a, stage, n)
  BY <1>1, <1>2, <1>3, <1>4, <1>5 DEF TryEnds
<1> QED
  BY <1>6, TryEndsServer

(* The next try of an attempt, or its end after a change of epoch.         *)
LEMMA RetryServer ==
  ASSUME ServerInv, NEW a \in DOMAIN attempts, Retry(a)
  PROVE  ServerInv'
<1>1. TypeOK /\ attempts[a] \in Attempt /\ attempts[a].srv \in Servers
      /\ attempts[a].tries \in 1..Tries /\ Tries \in Nat /\ spawned \in [Servers -> Nat]
  BY Looked, McpAssumption DEF ServerInv, TypeOK, Attempt
<1>2. PICK n \in Servers : n = attempts[a].srv
  BY <1>1
<1>3. attempts[a].kind = "reconnect" /\ attempts[a].tries < Tries
      /\ attempts[a].stage = "sleeping"
  <2>1. attempts[a].kind \in {"initial", "reconnect"}
    BY <1>1 DEF Attempt
  <2>2. Chains(n) /\ a \in Of(n)
    BY <1>2 DEF ServerInv, Server, Of
  <2> QED
    BY <2>1, <2>2 DEF Chains, Retry
<1>4. UNCHANGED <<conn, conns, tools, overtaken, unchangedByTry>>
  BY DEF Retry
<1>5. CASE attempts[a].epoch # epoch
  <2>1. /\ attempts' = [attempts EXCEPT ![a].stage = "failed"]
        /\ reconnecting' = Forget(reconnecting, n) /\ spawned' = spawned
    BY <1>2, <1>5 DEF Retry, Over
  <2>2. attempts' \in [DOMAIN attempts -> Attempt]
    BY <1>1, <2>1, Looked DEF Attempt
  <2>3. /\ \A b \in DOMAIN attempts : b # a => attempts'[b] = attempts[b]
        /\ attempts'[a].srv = attempts[a].srv /\ attempts'[a].kind = attempts[a].kind
        /\ attempts'[a].stage = "failed" /\ attempts'[a].conn = attempts[a].conn
    BY <1>1, <2>1 DEF Attempt
  <2>4. Moves(a, "failed", attempts[a].conn)
    BY <1>1, <2>2, <2>3, AttemptsMapped DEF Moves, Same
  <2>5. TryEnds(a, "failed", n)
    BY <1>1, <1>2, <1>3, <1>4, <2>1, <2>4 DEF TryEnds
  <2> QED
    BY <2>5, TryEndsServer
<1>6. CASE attempts[a].epoch = epoch
  <2>1. /\ attempts' = [attempts EXCEPT ![a].stage = "connecting", ![a].tries = @ + 1]
        /\ reconnecting' = reconnecting
        /\ spawned' = IF attempts[a].charged
                      THEN [spawned EXCEPT ![n] = @ + 1] ELSE spawned
    BY <1>2, <1>6 DEF Retry
  <2>2. attempts' \in [DOMAIN attempts -> Attempt]
    <3>1. attempts[a].tries + 1 \in 1..Tries
      BY <1>1, <1>3
    <3>2. [attempts[a] EXCEPT !.stage = "connecting", !.tries = attempts[a].tries + 1] \in Attempt
      BY <1>1, <3>1 DEF Attempt
    <3>3. attempts' = [attempts EXCEPT ![a] = [attempts[a] EXCEPT !.stage = "connecting",
                                                 !.tries = attempts[a].tries + 1]]
      BY <2>1
    <3> QED
      BY <3>2, <3>3, <1>1, Looked
  <2>3. /\ \A b \in DOMAIN attempts : b # a => attempts'[b] = attempts[b]
        /\ attempts'[a].srv = attempts[a].srv /\ attempts'[a].kind = attempts[a].kind
        /\ attempts'[a].stage = "connecting" /\ attempts'[a].conn = attempts[a].conn
    BY <1>1, <2>1 DEF Attempt
  <2>4. Moves(a, "connecting", attempts[a].conn)
    BY <1>1, <2>2, <2>3, AttemptsMapped DEF Moves, Same
  <2>5. spawned' \in [Servers -> Nat]
    BY <1>1, <2>1
  <2>6. TryEnds(a, "connecting", n)
    BY <1>2, <1>3, <1>4, <2>1, <2>4, <2>5 DEF TryEnds
  <2> QED
    BY <2>6, TryEndsServer
<1> QED
  BY <1>5, <1>6

(* A reconnect attempt has a connection.                                   *)
LEMMA ReconnectedServer ==
  ASSUME ServerInv, NEW a \in DOMAIN attempts, Reconnected(a)
  PROVE  ServerInv'
<1> DEFINE c == Len(conns) + 1
<1>1. TypeOK /\ Calls /\ attempts[a] \in Attempt /\ attempts[a].srv \in Servers /\ a # 0
      /\ spawned \in [Servers -> Nat]
  BY Looked DEF ServerInv, TypeOK
<1>2. PICK n \in Servers : n = attempts[a].srv
  BY <1>1
<1>3. /\ attempts[a].kind = "reconnect" /\ attempts[a].stage = "connecting" /\ Live(a)
      /\ c <= MaxConns
      /\ UNCHANGED <<tools, overtaken, spawned, unchangedByTry>>
  BY DEF Reconnected, Live
<1>4. CASE ~(n \in configured /\ attempts[a].epoch = epoch)
  <2>1. /\ conns' = Append(conns, [srv |-> n, st |-> "closed", wired |-> FALSE, late |-> FALSE])
        /\ TryFailed(a) /\ conn' = conn
    BY <1>2, <1>4 DEF Reconnected
  <2>2. Opens(c, n, "closed", FALSE)
    BY <1>1, <1>3, <2>1, Opened
  <2>3. PICK stage \in {"sleeping", "failed"} :
          /\ Moves(a, stage, attempts[a].conn)
          /\ reconnecting' = IF stage = "failed" THEN Forget(reconnecting, attempts[a].srv)
                             ELSE reconnecting
    BY <1>1, <2>1, TryFailedMoves
  <2>4. TryEnds(a, stage, n)
    BY <1>1, <1>2, <1>3, <2>1, <2>2, <2>3 DEF TryEnds
  <2> QED
    BY <2>4, TryEndsServer
<1>5. CASE n \in configured /\ attempts[a].epoch = epoch
  <2>1. /\ conns' = Append(conns, [srv |-> n, st |-> "open", wired |-> TRUE, late |-> FALSE])
        /\ conn' = [conn EXCEPT ![n] = c]
        /\ attempts' = [attempts EXCEPT ![a].stage = "listing", ![a].conn = c]
        /\ reconnecting' = reconnecting
    BY <1>2, <1>5 DEF Reconnected
  <2>2. Opens(c, n, "open", FALSE) /\ c \in 1..MaxConns
    BY <1>1, <1>3, <2>1, Opened
  <2> HIDE DEF c
  <2>3. Moves(a, "listing", c)
    <3>1. attempts' \in [DOMAIN attempts -> Attempt]
      <4> c \in 0..MaxConns
        BY <1>1, <2>2, Mapped
      <4>1. [attempts[a] EXCEPT !.stage = "listing", !.conn = c] \in Attempt
        BY <1>1 DEF Attempt
      <4>2. attempts' = [attempts EXCEPT ![a] = [attempts[a] EXCEPT !.stage = "listing", !.conn = c]]
        BY <2>1
      <4> QED
        BY <4>1, <4>2, <1>1, Looked
    <3>2. /\ \A b \in DOMAIN attempts : b # a => attempts'[b] = attempts[b]
          /\ attempts'[a].srv = attempts[a].srv /\ attempts'[a].kind = attempts[a].kind
          /\ attempts'[a].stage = "listing" /\ attempts'[a].conn = c
      BY <1>1, <2>1 DEF Attempt
    <3> QED
      BY <1>1, <3>1, <3>2, AttemptsMapped DEF Moves, Same
  <2>4. UNCHANGED <<configured, pending, loading, reconnecting, burst, epoch, call, closing,
                    refreshing, ops, removed, tools, overtaken, spawned>>
    BY <1>3, <2>1 DEF unchangedByTry
  <2>5. TypeOK'
    <3>1. conn' \in [Servers -> 0..MaxConns]
      BY <1>1, <2>1, <2>2, Mapped
    <3> QED
      BY <1>1, <2>2, <2>3, <2>4, <3>1 DEF TypeOK, Opens, Moves
  <2>6. Calls'
    BY <1>1, <2>2, <2>3, <2>4 DEF Calls, Opens, Moves
  <2>7. Concerns(n)
    BY <1>1, <1>2, <2>1, <2>2, <2>3, <2>4, Mapped DEF Concerns, Opens, Moves, Same
  <2>8. Goes(a, "listing", c, n)
    BY <1>3, <2>3, MovedSets
  <2>9. a \in Of(n) /\ a \in Revivals(n) /\ a \notin Linked(n) /\ 0 \notin Of(n)
    BY <1>1, <1>2, <1>3, Looked DEF Of, Revivals, Linked
  <2>10. /\ Of(n)' = Of(n) /\ Starts(n)' = Starts(n) /\ Tasks(n)' = Tasks(n)
         /\ Revivals(n)' = Revivals(n) /\ Linked(n)' = Linked(n) \cup {a}
         /\ \A b \in Of(n) \ {a} : Same(b)
         /\ attempts'[a].kind = "reconnect" /\ attempts'[a].stage = "listing"
         /\ attempts'[a].conn = c
    BY <1>3, <2>3, <2>4, <2>8, <2>9 DEF Goes, Tasks, Moves
  <2>11. /\ Links(n)' = Links(n) \cup {c} /\ c \notin Links(n) /\ c # 0
         /\ conns'[c].st = "open" /\ ~conns'[c].late /\ conn'[n] = c
         /\ \A k \in Links(n) : conns'[k] = conns[k]
    BY <1>1, <2>1, <2>2, Mapped DEF Opens, Links
  <2>12. Server(n)
    BY DEF ServerInv
  <2>13. Pointers(n)'
    BY <2>4, <2>10, <2>11, <2>12, <1>3 DEF Server, Pointers, Same, Starts, Revivals
  <2>14. Chains(n)'
    BY <2>10, <2>11, <2>12 DEF Server, Chains, Same
  <2>15. Doomed(n)'
    BY <2>11 DEF Doomed
  <2>16. Waiting(n)'
    BY <1>3, <2>4, <2>10, <2>12 DEF Server, Waiting, Same, Tasks
  <2>17. ASSUME n \notin overtaken' PROVE Calm(n)'
    <3>1. Calm(n)
      BY <2>4, <2>12, <2>17 DEF Server
    <3>2. reconnecting[n] = a /\ pending[n] = 0 /\ loading[n] = 0
          /\ conn[n] = 0 /\ \A b \in Revivals(n) : b = a
      BY <2>9, <3>1 DEF Calm, Alone
    <3>3. Alone(n)'
      BY <2>4, <2>10, <2>11, <3>2 DEF Alone
    <3>4. Starting(n)'
      BY <2>4, <3>2 DEF Starting
    <3>5. Owned(n)'
      <4>1. 0 \notin Links(n)
        BY <1>1, Looked DEF Links
      <4> QED
        BY <2>11, <3>1, <3>2, <4>1 DEF Calm, Owned
    <3>6. Agreeing(n)'
      BY <2>10 DEF Agreeing
    <3>7. Gone(n)'
      BY <1>5, <2>4, <2>10, <3>1 DEF Calm, Gone, Closing
    <3> QED
      BY <3>3, <3>4, <3>5, <3>6, <3>7 DEF Calm
  <2>18. Server(n)'
    BY <2>13, <2>14, <2>15, <2>16, <2>17 DEF Server
  <2> QED
    BY <2>5, <2>6, <2>7, <2>18, OneConcerned DEF ServerInv
<1> QED
  BY <1>4, <1>5

(* Closing a connection the manager knows.                                 *)
LEMMA Closed ==
  ASSUME TypeOK, NEW c \in DOMAIN conns, conns' = Close(conns, c)
  PROVE  Fade({c}, {})
<1>1. c # 0 /\ conns[c] \in Connection /\ \A k \in DOMAIN conns : conns[k] \in Connection
  BY Looked
<1>2. conns' = [conns EXCEPT ![c].st = "closed", ![c].wired = FALSE]
  BY <1>1 DEF Close
<1>3. conns' \in [DOMAIN conns -> Connection]
  BY <1>1, <1>2 DEF Connection
<1>4. /\ \A k \in DOMAIN conns : k # c => conns'[k] = conns[k]
      /\ conns'[c].srv = conns[c].srv /\ conns'[c].late = conns[c].late
      /\ conns'[c].st = "closed"
  BY <1>1, <1>2 DEF Connection
<1> QED
  BY <1>3, <1>4, ConnsMapped DEF Fade

(* The tools of a reconnected server are listed.                           *)
LEMMA RelistedServer ==
  ASSUME ServerInv, NEW a \in DOMAIN attempts, Relisted(a)
  PROVE  ServerInv'
<1>1. TypeOK /\ Calls /\ attempts[a] \in Attempt /\ attempts[a].srv \in Servers /\ a # 0
  BY Looked DEF ServerInv
<1>2. PICK n \in Servers : n = attempts[a].srv
  BY <1>1
<1>3. /\ attempts[a].kind = "reconnect" /\ attempts[a].stage = "listing" /\ Live(a)
      /\ reconnecting' = Forget(reconnecting, n)
      /\ tools' = [tools EXCEPT ![n] = attempts[a].conn]
      /\ overtaken' = IF \E x \in call.tasks : attempts[x].srv = n
                      THEN overtaken \cup {n} ELSE overtaken
      /\ UNCHANGED <<configured, conn, conns, pending, loading, burst, epoch, call, closing,
                     refreshing, ops, removed, spawned>>
  BY <1>2 DEF Relisted, Over, Live, unchangedByTry
<1>4. Moves(a, "done", attempts[a].conn)
  <2>1. attempts' \in [DOMAIN attempts -> Attempt]
    BY <1>1, Looked DEF Relisted, Over, Attempt
  <2>2. /\ \A b \in DOMAIN attempts : b # a => attempts'[b] = attempts[b]
        /\ attempts'[a].srv = attempts[a].srv /\ attempts'[a].kind = attempts[a].kind
        /\ attempts'[a].stage = "done" /\ attempts'[a].conn = attempts[a].conn
    BY <1>1 DEF Relisted, Over, Attempt
  <2> QED
    BY <1>1, <2>1, <2>2, AttemptsMapped DEF Moves, Same
<1>5. TypeOK'
  <2>1. {pending', loading', reconnecting'} \subseteq [Servers -> Ids]
    BY <1>1, <1>3, Mapped DEF Forget, Ids
  <2>2. tools' \in [Servers -> 0..Deferred]
    BY <1>1, <1>3, Mapped DEF Attempt, Deferred
  <2> QED
    BY <1>1, <1>3, <1>4, <2>1, <2>2 DEF TypeOK, Moves
<1>6. Calls'
  BY <1>1, <1>3, <1>4 DEF Calls, Moves
<1>7. Concerns(n)
  BY <1>1, <1>2, <1>3, <1>4, Mapped DEF Concerns, Moves, Same, Forget
<1>8. reconnecting'[n] = 0 /\ tools'[n] = attempts[a].conn
  BY <1>1, <1>3, Mapped DEF Forget
<1>9. /\ Of(n)' = Of(n) /\ Revivals(n)' = Revivals(n) \ {a} /\ Linked(n)' = Linked(n) \ {a}
      /\ Starts(n)' = Starts(n) /\ Tasks(n)' = Tasks(n) /\ Links(n)' = Links(n)
      /\ \A b \in Of(n) \ {a} : Same(b)
      /\ attempts'[a].kind = "reconnect" /\ attempts'[a].stage = "done"
      /\ attempts'[a].conn = attempts[a].conn
      /\ a \in Of(n) /\ a \in Revivals(n) /\ a \in Linked(n) /\ a \notin Starts(n)
  <2>1. /\ Goes(a, "done", attempts[a].conn, n) /\ Tasks(n)' = Tasks(n) /\ Links(n)' = Links(n)
        /\ attempts'[a].kind = attempts[a].kind /\ attempts'[a].stage = "done"
        /\ attempts'[a].conn = attempts[a].conn /\ a \in Of(n)
        /\ attempts[a].kind = "reconnect" => a \in Revivals(n) /\ a \notin Starts(n)
    BY <1>2, <1>3, <1>4, ChainMoves
  <2> QED
    BY <1>3, <2>1 DEF Goes, Linked
<1>10. Server(n)
  BY DEF ServerInv
<1>11. Pointers(n)'
  BY <1>3, <1>8, <1>9, <1>10 DEF Server, Pointers, Same, Starts
<1>12. Chains(n)'
  BY <1>3, <1>9, <1>10 DEF Server, Chains, Same
<1>13. Doomed(n)'
  BY <1>3, <1>9, <1>10 DEF Server, Doomed, Closing, Same, Revivals
<1>14. Waiting(n)'
  BY <1>3, <1>9, <1>10 DEF Server, Waiting, Same, Tasks
<1>15. ASSUME n \notin overtaken' PROVE Calm(n)'
  <2>1. Calm(n)
    BY <1>3, <1>10, <1>15 DEF Server
  <2>2. Tasks(n) = {}
    BY <1>3, <1>15 DEF Tasks, Of
  <2>3. reconnecting[n] = a /\ pending[n] = 0 /\ loading[n] = 0
        /\ conn[n] = attempts[a].conn /\ \A b \in Revivals(n) : b = a
    BY <1>9, <2>1 DEF Calm, Alone
  <2>4. Alone(n)'
    BY <1>9, <2>3 DEF Alone
  <2>5. Starting(n)'
    BY <1>3, <2>3 DEF Starting
  <2>6. Owned(n)'
    BY <1>3, <1>9, <2>1 DEF Calm, Owned
  <2>7. Agreeing(n)'
    BY <1>3, <1>8, <1>9, <2>2, <2>3 DEF Agreeing
  <2>8. Gone(n)'
    BY <1>3, <1>9, <2>1 DEF Calm, Gone, Closing
  <2> QED
    BY <2>4, <2>5, <2>6, <2>7, <2>8 DEF Calm
<1>16. Server(n)'
  BY <1>11, <1>12, <1>13, <1>14, <1>15 DEF Server
<1> QED
  BY <1>5, <1>6, <1>7, <1>16, OneConcerned DEF ServerInv

(* The list failed: the transport is closed and still held.                *)
LEMMA RelistFailedServer ==
  ASSUME ServerInv, NEW a \in DOMAIN attempts, RelistFailed(a)
  PROVE  ServerInv'
<1>1. TypeOK /\ Calls /\ attempts[a] \in Attempt /\ attempts[a].srv \in Servers /\ a # 0
  BY Looked DEF ServerInv
<1>2. PICK n \in Servers : n = attempts[a].srv
  BY <1>1
<1>3. /\ attempts[a].kind = "reconnect" /\ attempts[a].stage = "listing" /\ Live(a)
      /\ conns' = Close(conns, attempts[a].conn)
      /\ UNCHANGED <<configured, conn, pending, loading, reconnecting, tools, burst, epoch,
                     call, closing, refreshing, ops, removed, overtaken, spawned>>
  BY DEF RelistFailed, Live, unchangedByTry
<1>4. Moves(a, "cleanup", attempts[a].conn)
  <2>1. attempts' \in [DOMAIN attempts -> Attempt]
    BY <1>1, Looked DEF RelistFailed, Attempt
  <2>2. /\ \A b \in DOMAIN attempts : b # a => attempts'[b] = attempts[b]
        /\ attempts'[a].srv = attempts[a].srv /\ attempts'[a].kind = attempts[a].kind
        /\ attempts'[a].stage = "cleanup" /\ attempts'[a].conn = attempts[a].conn
    BY <1>1 DEF RelistFailed, Attempt
  <2> QED
    BY <1>1, <2>1, <2>2, AttemptsMapped DEF Moves, Same
<1>5. PICK c \in Links(n) : c = attempts[a].conn
  <2>1. Chains(n) /\ a \in Of(n)
    BY <1>2 DEF ServerInv, Server, Of
  <2> QED
    BY <1>3, <2>1 DEF Chains
<1>6. Fade({c}, {}) /\ c \in DOMAIN conns /\ conns[c].srv = n
  BY <1>1, <1>3, <1>5, Closed DEF Links
<1>7. TypeOK'
  BY <1>1, <1>3, <1>4, <1>6 DEF TypeOK, Moves, Fade
<1>8. Calls'
  BY <1>1, <1>3, <1>4, <1>6 DEF Calls, Moves, Fade
<1>9. Concerns(n)
  BY <1>1, <1>2, <1>3, <1>4, <1>6 DEF Concerns, Moves, Same, Fade
<1>10. /\ Of(n)' = Of(n) /\ Revivals(n)' = Revivals(n) /\ Linked(n)' = Linked(n)
       /\ Starts(n)' = Starts(n) /\ Tasks(n)' = Tasks(n) /\ Links(n)' = Links(n)
       /\ \A b \in Of(n) \ {a} : Same(b)
       /\ attempts'[a].kind = "reconnect" /\ attempts'[a].stage = "cleanup"
       /\ attempts'[a].conn = c
       /\ a \in Of(n) /\ a \in Revivals(n) /\ a \in Linked(n)
  <2>1. a \in Of(n) /\ a \in Revivals(n) /\ a \in Linked(n)
    BY <1>2, <1>3 DEF Of, Revivals, Linked
  <2>2. Goes(a, "cleanup", attempts[a].conn, n)
    BY <1>3, <1>4, MovedSets
  <2>3. Links(n)' = Links(n)
    BY <1>6, FadedSets
  <2> QED
    BY <1>3, <1>4, <1>5, <2>1, <2>2, <2>3 DEF Goes, Tasks, Moves
<1>11. \A k \in Links(n) : /\ conns'[k].st = IF k = c THEN "closed" ELSE conns[k].st
                           /\ conns'[k].late = conns[k].late
  BY <1>6 DEF Fade, Links
<1>12. Server(n)
  BY DEF ServerInv
<1>13. Pointers(n)'
  BY <1>3, <1>10, <1>11, <1>12 DEF Server, Pointers, Same, Starts
<1>14. Chains(n)'
  BY <1>3, <1>5, <1>10, <1>11, <1>12 DEF Server, Chains, Same
<1>15. Doomed(n)'
  <2>1. conn[n] # 0 /\ conn[n] # c /\ conns'[conn[n]].st = "closed" =>
          conns[conn[n]].st = "closed"
    BY <1>11, <1>12 DEF Server, Pointers
  <2>2. ASSUME NEW b \in Revivals(n), attempts[b].stage = "cleanup", attempts[b].conn = conn[n]
        PROVE  attempts'[b].stage = "cleanup" /\ attempts'[b].conn = conn[n]
    BY <1>3, <1>10, <2>2 DEF Same, Revivals
  <2> QED
    BY <1>3, <1>10, <1>12, <2>1, <2>2 DEF Server, Doomed, Closing
<1>16. Waiting(n)'
  BY <1>3, <1>10, <1>12 DEF Server, Waiting, Same, Tasks
<1>17. ASSUME n \notin overtaken' PROVE Calm(n)'
  <2>1. Calm(n)
    BY <1>3, <1>12, <1>17 DEF Server
  <2>2. Alone(n)'
    BY <1>3, <1>5, <1>10, <2>1 DEF Calm, Alone, Same, Revivals
  <2>3. Starting(n)'
    BY <1>3, <1>10, <2>1 DEF Calm, Starting, Alone
  <2>4. Owned(n)'
    BY <1>3, <1>10, <1>11, <2>1 DEF Calm, Owned
  <2>5. Agreeing(n)'
    BY <1>3, <1>10 DEF Agreeing
  <2>6. Gone(n)'
    BY <1>3, <1>10, <2>1 DEF Calm, Gone, Closing
  <2> QED
    BY <2>2, <2>3, <2>4, <2>5, <2>6 DEF Calm
<1>18. Server(n)'
  BY <1>13, <1>14, <1>15, <1>16, <1>17 DEF Server
<1> QED
  BY <1>7, <1>8, <1>9, <1>18, OneConcerned DEF ServerInv

-----------------------------------------------------------------------------
(* reconnectServer.                                                        *)

(* The connections once those in lost are dead.                            *)
Dead(cs, lost) ==
  /\ cs \in Seq(Connection) /\ DOMAIN cs = DOMAIN conns
  /\ \A k \in DOMAIN conns :
       IF k \in lost
       THEN /\ cs[k].srv = conns[k].srv /\ cs[k].late = conns[k].late /\ cs[k].st = "dead"
            /\ conns[k].st = "open"
       ELSE cs[k] = conns[k]
  /\ lost \subseteq DOMAIN conns

(* Losing no connection, and losing one that is open.                      *)
LEMMA DeadConns ==
  ASSUME TypeOK
  PROVE  /\ Dead(conns, {})
         /\ \A c \in DOMAIN conns :
              conns[c].st = "open" => Dead([conns EXCEPT ![c].st = "dead"], {c})
<1>1. conns \in Seq(Connection) /\ \A k \in DOMAIN conns : conns[k] \in Connection
  BY Looked DEF TypeOK
<1>2. ASSUME NEW c \in DOMAIN conns, conns[c].st = "open"
      PROVE  Dead([conns EXCEPT ![c].st = "dead"], {c})
  <2> DEFINE cs == [conns EXCEPT ![c].st = "dead"]
  <2>1. cs \in [DOMAIN conns -> Connection]
    BY <1>1 DEF Connection
  <2>2. /\ \A k \in DOMAIN conns : k # c => cs[k] = conns[k]
        /\ cs[c].srv = conns[c].srv /\ cs[c].late = conns[c].late /\ cs[c].st = "dead"
    BY <1>1 DEF Connection
  <2>3. cs \in Seq(Connection) /\ DOMAIN cs = DOMAIN conns
    BY <2>1, ConnsMapped
  <2> HIDE DEF cs
  <2>4. Dead(cs, {c})
    BY <1>2, <2>2, <2>3 DEF Dead
  <2> QED
    BY <2>4 DEF cs
<1> QED
  BY <1>1, <1>2 DEF Dead

(* Those that are lost, and those that are closed besides.                 *)
LEMMA DeadFades ==
  ASSUME TypeOK, NEW cs, NEW lost, Dead(cs, lost), NEW c \in DOMAIN conns \cup {0}
  PROVE  /\ conns' = cs => Fade({}, lost)
         /\ conns' = Close(cs, c) => Fade({c} \ {0}, lost)
<1>1. /\ \A k \in DOMAIN conns : cs[k] \in Connection
      /\ 0 \notin DOMAIN conns /\ cs \in Seq(Connection) /\ DOMAIN cs = DOMAIN conns
  BY Looked, ElementOfSeq DEF Dead
<1>2. conns' = cs => Fade({}, lost)
  BY <1>1 DEF Dead, Fade
<1>3. ASSUME conns' = Close(cs, c) PROVE Fade({c} \ {0}, lost)
  <2>1. CASE c = 0
    BY <1>1, <1>2, <1>3, <2>1 DEF Close, Dead, Fade
  <2>2. CASE c # 0
    <3>1. conns' = [cs EXCEPT ![c].st = "closed", ![c].wired = FALSE] /\ c \in DOMAIN conns
      BY <1>3, <2>2 DEF Close
    <3>2. conns' \in [DOMAIN conns -> Connection]
      <4>1. [cs[c] EXCEPT !.st = "closed", !.wired = FALSE] \in Connection
        BY <1>1, <3>1 DEF Connection
      <4>2. conns' = [cs EXCEPT ![c] = [cs[c] EXCEPT !.st = "closed", !.wired = FALSE]]
        BY <3>1
      <4>3. cs \in [DOMAIN conns -> Connection]
        BY <1>1, LenProperties, ElementOfSeq
      <4> QED
        BY <4>1, <4>2, <4>3, <3>1
    <3>3. /\ \A k \in DOMAIN conns : k # c => conns'[k] = cs[k]
          /\ conns'[c].srv = cs[c].srv /\ conns'[c].late = cs[c].late
          /\ conns'[c].st = "closed"
      BY <1>1, <3>1 DEF Connection
    <3>4. conns' \in Seq(Connection) /\ DOMAIN conns' = DOMAIN conns
      BY <3>2, ConnsMapped
    <3> QED
      BY <2>2, <3>1, <3>3, <3>4 DEF Fade, Dead
  <2> QED
    BY <2>1, <2>2
<1> QED
  BY <1>2, <1>3

(* A new, last attempt.                                                    *)
LEMMA Appended ==
  ASSUME TypeOK, NEW n \in Servers, NEW atts,
         atts = attempts \/ \E ns : atts = Uncharged(ns),
         attempts' = Append(atts, NewAttempt(n, "reconnect")), Len(attempts) < MaxAttempts
  PROVE  /\ Joins(Len(attempts) + 1, n, "reconnect") /\ Len(attempts) + 1 \in 1..MaxAttempts
         /\ attempts'[Len(attempts) + 1].charged /\ attempts'[Len(attempts) + 1].tries = 1
         /\ \A b \in DOMAIN attempts : attempts'[b] = atts[b]
<1> DEFINE k == Len(attempts) + 1
           r == NewAttempt(n, "reconnect")
<1>1. r \in Attempt
  BY McpAssumption DEF NewAttempt, Attempt, TypeOK
<1>2. /\ atts \in Seq(Attempt) /\ Len(atts) = Len(attempts)
      /\ \A b \in DOMAIN attempts :
           /\ atts[b].srv = attempts[b].srv /\ atts[b].kind = attempts[b].kind
           /\ atts[b].stage = attempts[b].stage /\ atts[b].conn = attempts[b].conn
           /\ atts[b].tries = attempts[b].tries
  <2>1. CASE atts = attempts
    BY <2>1 DEF TypeOK
  <2>2. CASE \E ns : atts = Uncharged(ns)
    <3> PICK ns : atts = Uncharged(ns)
      BY <2>2
    <3>1. Uncharged(ns) \in [DOMAIN attempts -> Attempt]
      BY Looked DEF Uncharged, Attempt
    <3>2. \A b \in DOMAIN attempts :
           /\ atts[b].srv = attempts[b].srv /\ atts[b].kind = attempts[b].kind
           /\ atts[b].stage = attempts[b].stage /\ atts[b].conn = attempts[b].conn
           /\ atts[b].tries = attempts[b].tries
      BY Looked DEF Uncharged, Attempt
    <3> QED
      BY <3>1, <3>2, AttemptsMapped
  <2> QED
    BY <2>1, <2>2
<1>3. attempts' \in Seq(Attempt) /\ Len(attempts') = k /\ attempts'[k] = r
      /\ \A b \in 1..Len(attempts) : attempts'[b] = atts[b]
  BY <1>1, <1>2, AppendProperties
<1>4. DOMAIN attempts' = 1..k /\ Len(attempts) \in Nat /\ DOMAIN attempts = 1..Len(attempts)
  BY <1>3, Looked, LenProperties
<1>5. /\ r.srv = n /\ r.kind = "reconnect" /\ r.stage = "connecting" /\ r.conn = 0
      /\ r.charged /\ r.tries = 1
  BY DEF NewAttempt
<1> HIDE DEF r
<1> QED
  BY <1>2, <1>3, <1>4, <1>5, McpAssumption DEF Joins, Same

calm == <<configured, tools, call, closing, refreshing, removed, overtaken>>

(* Connections of n are lost, and nothing else happens to the servers.     *)
LEMMA LostServer ==
  ASSUME ServerInv, TypeOK', NEW n \in Servers, NEW lost \in SUBSET Links(n), Fade({}, lost), Stay,
         UNCHANGED <<calm, conn, pending, loading, reconnecting>>
  PROVE  ServerInv'
<1>1. TypeOK /\ Calls /\ Server(n)
  BY DEF ServerInv
<1>2. UNCHANGED <<configured, tools, call, closing, refreshing, removed, overtaken, conn,
                  pending, loading, reconnecting>>
  BY DEF calm
<1>3. Calls'
  BY <1>1, <1>2 DEF Calls, Stay, Fade
<1>4. Concerns(n)
  BY <1>2 DEF Concerns, Stay, Same, Fade, Links
<1>5. /\ Of(n)' = Of(n) /\ Links(n)' = Links(n) /\ Tasks(n)' = Tasks(n)
      /\ \A b \in Of(n) : Same(b)
  BY <1>2, FadedSets DEF Stay, Same, Of, Tasks
<1>6. /\ Revivals(n)' = Revivals(n) /\ Linked(n)' = Linked(n) /\ Starts(n)' = Starts(n)
  BY <1>5 DEF Revivals, Linked, Starts, Live, Same
<1>7. \A k \in Links(n) : /\ conns'[k].st = IF k \in lost THEN "dead" ELSE conns[k].st
                          /\ conns'[k].late = conns[k].late
                          /\ k \in lost => conns[k].st = "open"
  BY DEF Fade, Links
<1>8. Pointers(n)'
  BY <1>1, <1>2, <1>5, <1>6, <1>7 DEF Server, Pointers, Same, Starts
<1>9. Chains(n)'
  BY <1>1, <1>5, <1>7 DEF Server, Chains, Same
<1>10. Doomed(n)'
  BY <1>1, <1>2, <1>5, <1>6, <1>7 DEF Server, Pointers, Doomed, Closing, Same, Revivals
<1>11. Waiting(n)'
  BY <1>1, <1>2, <1>5 DEF Server, Waiting, Same, Tasks
<1>12. ASSUME n \notin overtaken' PROVE Calm(n)'
  <2>1. Calm(n)
    BY <1>1, <1>2, <1>12 DEF Server
  <2>2. Alone(n)'
    BY <1>2, <1>5, <1>6, <2>1 DEF Calm, Alone, Same, Revivals
  <2>3. Starting(n)'
    BY <1>1, <1>2, <1>5, <2>1 DEF Calm, Starting, Same, Server, Pointers, Starts
  <2>4. Owned(n)'
    BY <1>2, <1>5, <1>7, <2>1 DEF Calm, Owned
  <2>5. Agreeing(n)'
    BY <1>2, <1>5, <1>6, <2>1 DEF Calm, Agreeing, Same, Tasks
  <2>6. Gone(n)'
    BY <1>2, <1>5, <1>6, <2>1 DEF Calm, Gone, Closing
  <2> QED
    BY <2>2, <2>3, <2>4, <2>5, <2>6 DEF Calm
<1>13. Server(n)'
  BY <1>8, <1>9, <1>10, <1>11, <1>12 DEF Server
<1> QED
  BY <1>3, <1>4, <1>13, OneConcerned DEF ServerInv

(* The stale connection is torn down, and an attempt may begin.            *)
LEMMA TornServer ==
  ASSUME ServerInv, TypeOK', NEW n \in Servers, NEW lost \in SUBSET Links(n), ~Running(n),
         Fade({conn[n]} \ {0}, lost), conn' = Forget(conn, n),
         pending' = Forget(pending, n), loading' = Forget(loading, n), UNCHANGED calm,
         \/ Stay /\ UNCHANGED reconnecting
         \/ /\ conn[n] # 0 \/ n \in configured
            /\ \E k \in DOMAIN attempts' : /\ Joins(k, n, "reconnect")
                                           /\ reconnecting' = [reconnecting EXCEPT ![n] = k]
  PROVE  ServerInv'
<1>1. /\ TypeOK /\ Calls /\ Server(n) /\ reconnecting[n] = 0
      /\ 0 \notin DOMAIN attempts /\ 0 \notin DOMAIN conns
  BY Looked DEF ServerInv, Running
<1>2. UNCHANGED <<configured, tools, call, closing, refreshing, removed, overtaken>>
  BY DEF calm
<1>3. PICK new : /\ DOMAIN attempts' = DOMAIN attempts \cup new
                 /\ new \cap DOMAIN attempts = {} /\ \A b \in DOMAIN attempts : Same(b)
                 /\ \A k \in new : /\ attempts'[k].srv = n /\ attempts'[k].kind = "reconnect"
                                   /\ attempts'[k].stage = "connecting"
                                   /\ attempts'[k].conn = 0 /\ reconnecting'[n] = k
                 /\ new = {} => reconnecting'[n] = 0
                 /\ new # {} => conn[n] # 0 \/ n \in configured
                 /\ \A m \in Servers \ {n} : reconnecting'[m] = reconnecting[m]
                 /\ reconnecting'[n] \in new \cup {0}
  <2>1. CASE Stay /\ UNCHANGED reconnecting
    <3> WITNESS {}
    <3> QED
      BY <1>1, <2>1 DEF Stay
  <2>2. CASE /\ conn[n] # 0 \/ n \in configured
             /\ \E k \in DOMAIN attempts' : /\ Joins(k, n, "reconnect")
                                            /\ reconnecting' = [reconnecting EXCEPT ![n] = k]
    <3> PICK k \in DOMAIN attempts' : /\ Joins(k, n, "reconnect")
                                      /\ reconnecting' = [reconnecting EXCEPT ![n] = k]
      BY <2>2
    <3>1. reconnecting'[n] = k /\ \A m \in Servers \ {n} : reconnecting'[m] = reconnecting[m]
      BY <1>1, Mapped
    <3> WITNESS {k}
    <3> QED
      BY <1>1, <2>2, <3>1 DEF Joins
  <2> QED
    BY <2>1, <2>2
<1>4. /\ conn'[n] = 0 /\ pending'[n] = 0 /\ loading'[n] = 0
      /\ \A m \in Servers \ {n} : conn'[m] = conn[m] /\ pending'[m] = pending[m]
                                  /\ loading'[m] = loading[m]
  BY <1>1, Mapped DEF Forget
<1>5. Links(n)' = Links(n)
  BY FadedSets
<1>6. conn[n] # 0 => conn[n] \in Links(n)
  BY <1>1 DEF Server, Pointers
<1>7. \A k \in DOMAIN conns \ Links(n) : conns'[k] = conns[k]
  BY <1>6 DEF Fade, Links
<1>8. \A k \in Links(n) :
        /\ conns'[k].st = IF k = conn[n] THEN "closed" ELSE IF k \in lost THEN "dead"
                          ELSE conns[k].st
        /\ conns'[k].late = conns[k].late
        /\ k \in lost => conns[k].st = "open"
  BY <1>1 DEF Fade, Links
<1>9. Calls'
  BY <1>1, <1>2, <1>3 DEF Calls, Fade
<1>10. Concerns(n)
  <2>1. \A c \in DOMAIN conns : conns'[c].srv = conns[c].srv
    BY DEF Fade
  <2>2. DOMAIN conns' = DOMAIN conns
    BY DEF Fade
  <2> QED
    BY <1>2, <1>3, <1>4, <1>7, <2>1, <2>2 DEF Concerns, Same, Links
<1>11. /\ Of(n)' = Of(n) \cup new /\ Of(n) \cap new = {}
       /\ \A b \in Of(n) : Same(b)
  BY <1>3 DEF Of, Same
<1>12. Tasks(n)' = Tasks(n)
  BY <1>1, <1>2, <1>3, <1>11 DEF Tasks, Calls
<1>13. /\ Revivals(n)' = Revivals(n) \cup new /\ Linked(n)' = Linked(n)
       /\ Starts(n)' = Starts(n) /\ new \cap Linked(n) = {}
  BY <1>3, <1>11 DEF Revivals, Linked, Starts, Live, Same
<1>14. Pointers(n)'
  BY <1>3, <1>4, <1>13 DEF Pointers
<1>15. Chains(n)'
  BY <1>1, <1>3, <1>5, <1>8, <1>11 DEF Server, Chains, Same
<1>16. Doomed(n)'
  BY <1>4 DEF Doomed
<1>17. Waiting(n)'
  BY <1>1, <1>4, <1>11, <1>12 DEF Server, Waiting, Same, Tasks
<1>18. ASSUME n \notin overtaken' PROVE Calm(n)'
  <2>1. Calm(n)
    BY <1>1, <1>2, <1>18 DEF Server
  <2>2. Revivals(n) = {} /\ Linked(n) = {}
    BY <1>1, <2>1 DEF Calm, Alone, Linked, Revivals, Of
  <2>3. Alone(n)'
    BY <1>3, <1>4, <1>13, <2>2 DEF Alone
  <2>4. Starting(n)'
    BY <1>4 DEF Starting
  <2>5. Owned(n)'
    BY <1>5, <1>8, <2>1 DEF Calm, Owned
  <2>6. Agreeing(n)'
    BY <1>4 DEF Agreeing
  <2>7. Gone(n)'
    BY <1>2, <1>3, <1>4, <1>12, <1>13, <2>1, <2>2 DEF Calm, Gone, Closing
  <2> QED
    BY <2>3, <2>4, <2>5, <2>6, <2>7 DEF Calm
<1>19. Server(n)'
  BY <1>14, <1>15, <1>16, <1>17, <1>18 DEF Server
<1> QED
  BY <1>9, <1>10, <1>19, OneConcerned DEF ServerInv

(* Forgetting keeps the type of a map.                                     *)
LEMMA ForgetTyped ==
  ASSUME NEW S, 0 \in S, NEW f \in [Servers -> S], NEW n
  PROVE  Forget(f, n) \in [Servers -> S]
BY DEF Forget

(* reconnectServer, called by hand, by a tool or because transports of n   *)
(* are lost.                                                               *)
LEMMA ReconnectServer ==
  ASSUME ServerInv, NEW n \in Servers, NEW cs, NEW lost \in SUBSET Links(n), Dead(cs, lost),
         NEW manual \in BOOLEAN, Reconnect(n, cs, manual), UNCHANGED unchangedByReconnect,
         ops' \in 0..MaxOps
  PROVE  ServerInv'
<1> DEFINE hist == IF manual THEN 0 ELSE burst[n]
           next == IF hist > BurstLimit THEN hist ELSE hist + 1
           base == IF manual THEN 0 ELSE spawned[n]
           atts == IF manual THEN Uncharged({n}) ELSE attempts
<1>1. /\ TypeOK /\ Server(n) /\ conn[n] \in DOMAIN conns \cup {0}
      /\ hist \in 0..(BurstLimit + 1) /\ next \in 0..(BurstLimit + 1) /\ base \in Nat
  <2>1. burst[n] \in 0..(BurstLimit + 1) /\ BurstLimit \in Nat /\ spawned[n] \in Nat
    BY McpAssumption DEF ServerInv, TypeOK
  <2> QED
    BY <2>1 DEF ServerInv, Server, Pointers, Links
<1>2. UNCHANGED calm /\ UNCHANGED <<configured, tools, epoch, call, closing, refreshing,
                                    removed, overtaken>>
  BY DEF unchangedByReconnect, calm
<1>a. attempts' = atts => Stay
  BY <1>1, UnchargedStay, Stayed
<1>b. atts = attempts \/ \E ns : atts = Uncharged(ns)
  OBVIOUS
<1>c. Reconnect(n, cs, manual) =>
        \/ /\ conns' = cs /\ attempts' = atts /\ spawned' = [spawned EXCEPT ![n] = base]
           /\ burst' = [burst EXCEPT ![n] = hist] \/ burst' = [burst EXCEPT ![n] = next]
           /\ UNCHANGED <<conn, pending, loading, reconnecting>>
        \/ /\ ~Running(n) /\ burst' = [burst EXCEPT ![n] = next] /\ TearDown(n, cs)
           /\ UNCHANGED <<attempts, reconnecting, spawned>>
        \/ /\ ~Running(n) /\ (conn[n] # 0 \/ n \in configured)
           /\ Len(attempts) < MaxAttempts
           /\ burst' = [burst EXCEPT ![n] = next] /\ TearDown(n, cs)
           /\ attempts' = Append(atts, NewAttempt(n, "reconnect"))
           /\ reconnecting' = [reconnecting EXCEPT ![n] = Len(attempts) + 1]
           /\ spawned' = [spawned EXCEPT ![n] = base + 1]
  BY DEF Reconnect
<1> HIDE DEF hist, next, base, atts
<1>3. ASSUME burst' = [burst EXCEPT ![n] = hist] \/ burst' = [burst EXCEPT ![n] = next],
             spawned' \in [Servers -> Nat], attempts' \in Seq(Attempt), conns' \in Seq(Connection),
             conn' = conn \/ conn' = Forget(conn, n),
             pending' = pending \/ pending' = Forget(pending, n),
             loading' = loading \/ loading' = Forget(loading, n),
             reconnecting' \in [Servers -> Ids]
      PROVE  TypeOK'
  <2>1. burst' \in [Servers -> 0..(BurstLimit + 1)]
    <3>1. burst \in [Servers -> 0..(BurstLimit + 1)]
      BY <1>1 DEF TypeOK
    <3>2. /\ [burst EXCEPT ![n] = hist] \in [Servers -> 0..(BurstLimit + 1)]
          /\ [burst EXCEPT ![n] = next] \in [Servers -> 0..(BurstLimit + 1)]
      BY <1>1, <3>1
    <3> QED
      BY <1>3, <3>2
  <2>2. conn' \in [Servers -> 0..MaxConns]
    <3>1. conn \in [Servers -> 0..MaxConns] /\ 0 \in 0..MaxConns
      BY <1>1, Mapped
    <3>2. Forget(conn, n) \in [Servers -> 0..MaxConns]
      BY <3>1, ForgetTyped
    <3> QED
      BY <1>3, <3>1, <3>2
  <2>3. pending' \in [Servers -> Ids] /\ loading' \in [Servers -> Ids]
    <3>1. pending \in [Servers -> Ids] /\ loading \in [Servers -> Ids] /\ 0 \in Ids
      BY <1>1, Mapped DEF Ids
    <3>2. Forget(pending, n) \in [Servers -> Ids] /\ Forget(loading, n) \in [Servers -> Ids]
      BY <3>1, ForgetTyped
    <3> QED
      BY <1>3, <3>1, <3>2
  <2> QED
    BY <1>1, <1>2, <1>3, <2>1, <2>2, <2>3 DEF TypeOK
<1>4. reconnecting \in [Servers -> Ids] /\ spawned \in [Servers -> Nat]
      /\ [spawned EXCEPT ![n] = base] \in [Servers -> Nat]
      /\ [spawned EXCEPT ![n] = base + 1] \in [Servers -> Nat]
  <2>1. base + 1 \in Nat /\ spawned \in [Servers -> Nat]
    BY <1>1 DEF TypeOK
  <2> QED
    BY <1>1, <2>1, Mapped DEF Ids
<1>6. CASE /\ conns' = cs /\ attempts' = atts /\ spawned' = [spawned EXCEPT ![n] = base]
           /\ burst' = [burst EXCEPT ![n] = hist] \/ burst' = [burst EXCEPT ![n] = next]
           /\ UNCHANGED <<conn, pending, loading, reconnecting>>
  <2>1. Stay /\ Fade({}, lost)
    BY <1>1, <1>a, <1>6, DeadFades
  <2>2. TypeOK'
    BY <1>3, <1>4, <1>6, <2>1 DEF Stay, Fade
  <2> QED
    BY <1>2, <1>6, <2>1, <2>2, LostServer
<1>7. CASE /\ ~Running(n) /\ burst' = [burst EXCEPT ![n] = next] /\ TearDown(n, cs)
           /\ UNCHANGED <<attempts, reconnecting, spawned>>
  <2>1. Stay /\ Fade({conn[n]} \ {0}, lost) /\ conn' = Forget(conn, n)
        /\ pending' = Forget(pending, n) /\ loading' = Forget(loading, n)
    BY <1>1, <1>7, DeadFades, Stayed DEF TearDown
  <2>2. TypeOK'
    BY <1>3, <1>4, <1>7, <2>1 DEF Stay, Fade
  <2> QED
    BY <1>2, <1>7, <2>1, <2>2, TornServer
<1>8. CASE /\ ~Running(n) /\ (conn[n] # 0 \/ n \in configured)
           /\ Len(attempts) < MaxAttempts
           /\ burst' = [burst EXCEPT ![n] = next] /\ TearDown(n, cs)
           /\ attempts' = Append(atts, NewAttempt(n, "reconnect"))
           /\ reconnecting' = [reconnecting EXCEPT ![n] = Len(attempts) + 1]
           /\ spawned' = [spawned EXCEPT ![n] = base + 1]
  <2>1. Fade({conn[n]} \ {0}, lost) /\ conn' = Forget(conn, n)
        /\ pending' = Forget(pending, n) /\ loading' = Forget(loading, n)
    BY <1>1, <1>8, DeadFades DEF TearDown
  <2>2. PICK k \in 1..MaxAttempts : k = Len(attempts) + 1 /\ Joins(k, n, "reconnect")
    BY <1>1, <1>b, <1>8, Appended
  <2>3. TypeOK'
    <3>1. reconnecting' \in [Servers -> Ids]
      BY <1>1, <1>8, <2>2, Mapped DEF Ids
    <3> QED
      BY <1>3, <1>4, <1>8, <2>1, <2>2, <3>1 DEF Joins, Fade
  <2>4. k \in DOMAIN attempts' /\ reconnecting' = [reconnecting EXCEPT ![n] = k]
    BY <1>8, <2>2 DEF Joins
  <2> QED
    BY <1>2, <1>8, <2>1, <2>2, <2>3, <2>4, TornServer
<1> QED
  BY <1>c, <1>6, <1>7, <1>8

-----------------------------------------------------------------------------
(* The commands that reconnect, lost transports and the passing of time.   *)

(* A command is counted.                                                   *)
LEMMA CommandTyped ==
  ASSUME TypeOK, Command
  PROVE  ops' \in 0..MaxOps
BY McpAssumption DEF TypeOK, Command

(* A window that begins anew is empty.                                     *)
LEMMA WindowTyped ==
  ASSUME TypeOK, NEW n
  PROVE  /\ Forget(burst, n) \in [Servers -> 0..(BurstLimit + 1)]
         /\ Forget(spawned, n) \in [Servers -> Nat]
<1>1. /\ burst \in [Servers -> 0..(BurstLimit + 1)] /\ 0 \in 0..(BurstLimit + 1)
      /\ spawned \in [Servers -> Nat] /\ 0 \in Nat
  BY McpAssumption DEF TypeOK
<1> QED
  BY <1>1, ForgetTyped

(* /mcp reconnect, and a tool call that failed on its connection.          *)
LEMMA ReconnectsServer ==
  ASSUME ServerInv, NEW n \in Servers, ManualReconnect(n) \/ ToolReconnect(n)
  PROVE  ServerInv'
<1>1. TypeOK
  BY DEF ServerInv
<1>2. PICK manual \in BOOLEAN : Reconnect(n, conns, manual)
  BY DEF ManualReconnect, ToolReconnect
<1>3. UNCHANGED unchangedByReconnect /\ ops' \in 0..MaxOps
  BY <1>1, CommandTyped DEF ManualReconnect, ToolReconnect
<1> QED
  BY <1>1, <1>2, <1>3, DeadConns, ReconnectServer

(* A lost transport, with or without the handler of onClose.               *)
LEMMA TransportLostServer ==
  ASSUME ServerInv, NEW c \in DOMAIN conns, TransportLost(c)
  PROVE  ServerInv'
<1> DEFINE dead == [conns EXCEPT ![c].st = "dead"]
<1>1. TypeOK /\ conns[c] \in Connection /\ conns[c].srv \in Servers
  BY Looked DEF ServerInv, Connection
<1>2. PICK n \in Servers : n = conns[c].srv
  BY <1>1
<1>3. conns[c].st = "open" /\ UNCHANGED <<unchangedByReconnect, ops>>
      /\ ops' \in 0..MaxOps
  BY <1>1 DEF TransportLost, TypeOK
<1>4. Dead(dead, {c}) /\ {c} \in SUBSET Links(n)
  BY <1>1, <1>2, <1>3, DeadConns DEF Links
<1>5. \/ Reconnect(n, dead, FALSE)
      \/ /\ conns' = dead
         /\ UNCHANGED <<conn, pending, loading, reconnecting, burst, attempts, spawned>>
  BY <1>2 DEF TransportLost
<1> HIDE DEF dead
<1>6. CASE Reconnect(n, dead, FALSE)
  BY <1>3, <1>4, <1>6, ReconnectServer
<1>7. CASE /\ conns' = dead
           /\ UNCHANGED <<conn, pending, loading, reconnecting, burst, attempts, spawned>>
  <2>1. Fade({}, {c}) /\ Stay
    BY <1>1, <1>4, <1>7, DeadFades, Stayed
  <2>2. UNCHANGED <<configured, tools, epoch, call, closing, refreshing, removed, overtaken>>
    BY <1>3 DEF unchangedByReconnect
  <2>3. TypeOK'
    BY <1>1, <1>3, <1>7, <2>1, <2>2 DEF Stay, Fade, TypeOK
  <2> QED
    BY <1>4, <1>7, <2>1, <2>2, <2>3, LostServer DEF calm
<1> QED
  BY <1>5, <1>6, <1>7

(* The entries of a crash window age out.                                  *)
LEMMA WindowPassesServer ==
  ASSUME ServerInv, NEW n \in Servers, WindowPasses(n)
  PROVE  ServerInv'
<1>1. TypeOK
  BY DEF ServerInv
<1>2. /\ attempts' = Uncharged({n})
      /\ burst' = Forget(burst, n) /\ spawned' = Forget(spawned, n)
      /\ UNCHANGED <<configured, conn, pending, loading, reconnecting, tools, epoch, conns,
                     call, closing, refreshing, removed, overtaken>>
      /\ ops' \in 0..MaxOps
  BY <1>1, McpAssumption DEF WindowPasses, Command, TypeOK
<1>3. Stay /\ Fade({}, {})
  BY <1>1, <1>2, UnchargedStay, Stayed
<1>4. TypeOK'
  <2>1. burst' \in [Servers -> 0..(BurstLimit + 1)] /\ spawned' \in [Servers -> Nat]
    BY <1>1, <1>2, WindowTyped
  <2> QED
    BY <1>1, <1>2, <1>3, <2>1 DEF Stay, TypeOK
<1> QED
  BY <1>2, <1>3, <1>4, LostServer DEF calm

-----------------------------------------------------------------------------
(* disconnectServer, disconnectAll, refreshServerTools.                    *)

(* Attempts that stay are counted as before.                               *)
LEMMA StaySets ==
  ASSUME Stay, UNCHANGED call, NEW n
  PROVE  /\ Of(n)' = Of(n) /\ Tasks(n)' = Tasks(n)
         /\ Revivals(n)' = Revivals(n) /\ Linked(n)' = Linked(n) /\ Starts(n)' = Starts(n)
         /\ \A a \in Of(n) : Same(a)
<1>1. Of(n)' = Of(n) /\ \A a \in Of(n) : Same(a)
  BY DEF Stay, Of, Same
<1> QED
  BY <1>1 DEF Tasks, Revivals, Linked, Starts, Live, Same

(* A server that is not busy has neither a chain nor somebody who waits.   *)
LEMMA NotBusy ==
  ASSUME NEW n, ~Busy(n), Calls
  PROVE  Revivals(n) = {} /\ Linked(n) = {} /\ Starts(n) = {} /\ Tasks(n) = {}
BY DEF Busy, Revivals, Linked, Starts, Tasks, Of

(* disconnectServer, up to the await of the close.                         *)
LEMMA DisconnectServerServer ==
  ASSUME ServerInv, NEW n \in Servers, DisconnectServer(n)
  PROVE  ServerInv'
<1>1. /\ TypeOK /\ Calls /\ Server(n) /\ n # "all"
      /\ 0 \notin DOMAIN attempts /\ 0 \notin DOMAIN conns
  BY Looked, McpAssumption DEF ServerInv
<1>2. /\ pending' = Forget(pending, n) /\ loading' = Forget(loading, n)
      /\ reconnecting' = Forget(reconnecting, n) /\ configured' = configured \ {n}
      /\ burst' = Forget(burst, n) /\ attempts' = Uncharged({n})
      /\ spawned' = Forget(spawned, n)
      /\ overtaken' = IF Busy(n) THEN overtaken \cup {n} ELSE overtaken
      /\ removed' = removed \cup {n}
      /\ UNCHANGED <<conn, epoch, call, refreshing>>
      /\ ops' \in 0..MaxOps
  BY <1>1, McpAssumption DEF DisconnectServer, Without, Command, TypeOK
<1>3. \/ conn[n] = 0 /\ tools' = [tools EXCEPT ![n] = NoTools] /\ UNCHANGED <<conns, closing>>
      \/ conn[n] # 0 /\ conns' = Close(conns, conn[n]) /\ closing' = closing \cup {n}
         /\ UNCHANGED tools
  BY DEF DisconnectServer
<1>4. conn[n] # 0 => conn[n] \in Links(n)
  BY <1>1 DEF Server, Pointers
<1>5. Stay /\ Fade({conn[n]} \ {0}, {})
  <2>1. conn[n] = 0 => Fade({}, {}) /\ {conn[n]} \ {0} = {}
    BY <1>1, <1>3, Stayed
  <2>2. conn[n] # 0 => Fade({conn[n]}, {}) /\ {conn[n]} \ {0} = {conn[n]}
    BY <1>1, <1>3, <1>4, Closed DEF Links
  <2> QED
    BY <1>1, <1>2, <2>1, <2>2, UnchargedStay
<1>6. TypeOK'
  <2>1. /\ burst' \in [Servers -> 0..(BurstLimit + 1)] /\ spawned' \in [Servers -> Nat]
        /\ pending' \in [Servers -> Ids] /\ loading' \in [Servers -> Ids]
        /\ reconnecting' \in [Servers -> Ids]
    <3>1. /\ pending \in [Servers -> Ids] /\ loading \in [Servers -> Ids]
          /\ reconnecting \in [Servers -> Ids] /\ 0 \in Ids
      BY <1>1, Mapped DEF Ids
    <3> QED
      BY <1>1, <1>2, <3>1, ForgetTyped, WindowTyped
  <2>2. tools' \in [Servers -> 0..Deferred]
    BY <1>1, <1>3, Mapped DEF NoTools, Deferred
  <2> QED
    BY <1>1, <1>2, <1>3, <1>5, <2>1, <2>2 DEF Stay, Fade, TypeOK
<1>7. Calls'
  BY <1>1, <1>2, <1>5 DEF Calls, Stay, Fade
<1>8. /\ pending'[n] = 0 /\ loading'[n] = 0 /\ reconnecting'[n] = 0
      /\ tools'[n] = IF conn[n] = 0 THEN NoTools ELSE tools[n]
      /\ \A m \in Servers \ {n} :
           /\ pending'[m] = pending[m] /\ loading'[m] = loading[m]
           /\ reconnecting'[m] = reconnecting[m] /\ tools'[m] = tools[m]
  BY <1>1, <1>2, <1>3, Mapped DEF Forget
<1>9. /\ conn[n] # 0 => n \in closing'
      /\ \A m \in Servers \ {n} : m \in closing' <=> m \in closing
      /\ "all" \in closing' <=> "all" \in closing
  BY <1>1, <1>3
<1>10. Concerns(n)
  <2>1. \A k \in DOMAIN conns \ Links(n) : conns'[k] = conns[k]
    BY <1>4, <1>5 DEF Fade, Links
  <2>2. DOMAIN conns' = DOMAIN conns /\ \A k \in DOMAIN conns : conns'[k].srv = conns[k].srv
    BY <1>5 DEF Fade
  <2> QED
    BY <1>2, <1>5, <1>8, <1>9, <2>1, <2>2 DEF Concerns, Stay, Same, Links
<1>11. /\ Of(n)' = Of(n) /\ Tasks(n)' = Tasks(n)
       /\ Revivals(n)' = Revivals(n) /\ Linked(n)' = Linked(n) /\ Starts(n)' = Starts(n)
       /\ \A a \in Of(n) : Same(a)
  BY <1>2, <1>5, StaySets
<1>12. Links(n)' = Links(n)
  BY <1>5, FadedSets
<1>13. \A k \in Links(n) : /\ conns'[k].st = IF k = conn[n] THEN "closed" ELSE conns[k].st
                           /\ conns'[k].late = conns[k].late
  BY <1>1, <1>5 DEF Fade, Links
<1>14. Pointers(n)'
  BY <1>1, <1>2, <1>8, <1>12, <1>13 DEF Server, Pointers
<1>15. Chains(n)'
  BY <1>1, <1>11, <1>12, <1>13 DEF Server, Chains, Same
<1>16. Doomed(n)'
  BY <1>2, <1>9 DEF Doomed, Closing
<1>17. Waiting(n)'
  BY <1>1, <1>8, <1>11 DEF Server, Waiting, Same, Tasks
<1>18. ASSUME n \notin overtaken' PROVE Calm(n)'
  <2>1. Calm(n) /\ ~Busy(n)
    BY <1>1, <1>2, <1>18 DEF Server
  <2>2. Revivals(n) = {} /\ Linked(n) = {} /\ Starts(n) = {} /\ Tasks(n) = {}
    BY <1>1, <2>1, NotBusy
  <2>3. Alone(n)' /\ Starting(n)'
    BY <1>8, <1>11, <2>2 DEF Alone, Starting
  <2>4. Owned(n)'
    BY <1>2, <1>12, <1>13, <2>1 DEF Calm, Owned
  <2>5. Agreeing(n)'
    BY <1>2, <1>8, <1>11, <2>1, <2>2 DEF Calm, Agreeing
  <2>6. Gone(n)'
    BY <1>2, <1>8, <1>9, <1>11, <2>2 DEF Gone, Closing
  <2> QED
    BY <2>1, <2>3, <2>4, <2>5, <2>6 DEF Calm
<1>19. Server(n)'
  BY <1>14, <1>15, <1>16, <1>17, <1>18 DEF Server
<1> QED
  BY <1>6, <1>7, <1>10, <1>19, OneConcerned DEF ServerInv

(* A server that is not in use has no open connection either.              *)
LEMMA NotInUse ==
  ASSUME TypeOK, Calls, NEW n \in Servers, Pointers(n), ~InUse(n)
  PROVE  /\ Revivals(n) = {} /\ Linked(n) = {} /\ Starts(n) = {} /\ Tasks(n) = {}
         /\ pending[n] = 0 /\ loading[n] = 0 /\ reconnecting[n] = 0
         /\ conn[n] # 0 => conns[conn[n]].st = "closed"
BY NotBusy DEF InUse, Pointers

(* disconnectServer after the await.                                       *)
LEMMA DisconnectedServer ==
  ASSUME ServerInv, NEW n \in Servers, Disconnected(n)
  PROVE  ServerInv'
<1>1. /\ TypeOK /\ Calls /\ Server(n) /\ n # "all"
      /\ 0 \notin DOMAIN attempts /\ 0 \notin DOMAIN conns
  BY Looked, McpAssumption DEF ServerInv
<1>2. /\ closing' = closing \ {n} /\ conn' = Forget(conn, n)
      /\ tools' = [tools EXCEPT ![n] = NoTools]
      /\ overtaken' = IF InUse(n) THEN overtaken \cup {n} ELSE overtaken
      /\ UNCHANGED <<configured, pending, loading, reconnecting, burst, epoch, attempts, conns,
                     call, refreshing, ops, removed, spawned>>
  BY DEF Disconnected
<1>3. Stay /\ Fade({}, {})
  BY <1>1, <1>2, Stayed
<1>4. TypeOK'
  <2>1. conn' \in [Servers -> 0..MaxConns] /\ tools' \in [Servers -> 0..Deferred]
    BY <1>1, <1>2, Mapped DEF Forget, NoTools, Deferred
  <2> QED
    BY <1>1, <1>2, <2>1 DEF TypeOK
<1>5. Calls'
  BY <1>1, <1>2 DEF Calls
<1>6. conn'[n] = 0 /\ tools'[n] = NoTools
      /\ \A m \in Servers \ {n} : conn'[m] = conn[m] /\ tools'[m] = tools[m]
                                  /\ (m \in closing' <=> m \in closing)
  BY <1>1, <1>2, Mapped DEF Forget
<1>7. "all" \in closing' <=> "all" \in closing
  BY <1>1, <1>2
<1>8. Concerns(n)
  BY <1>2, <1>3, <1>6, <1>7 DEF Concerns, Stay, Same
<1>9. /\ Of(n)' = Of(n) /\ Tasks(n)' = Tasks(n) /\ Links(n)' = Links(n)
      /\ Revivals(n)' = Revivals(n) /\ Linked(n)' = Linked(n) /\ Starts(n)' = Starts(n)
      /\ \A a \in Of(n) : Same(a)
  BY <1>2, <1>3, StaySets, FadedSets
<1>10. Pointers(n)'
  BY <1>1, <1>2, <1>6, <1>9 DEF Server, Pointers
<1>11. Chains(n)'
  BY <1>1, <1>2, <1>9 DEF Server, Chains
<1>12. Doomed(n)'
  BY <1>6 DEF Doomed
<1>13. Waiting(n)'
  BY <1>1, <1>2, <1>9 DEF Server, Waiting
<1>14. ASSUME n \notin overtaken' PROVE Calm(n)'
  <2>1. Calm(n) /\ ~InUse(n) /\ Pointers(n)
    BY <1>1, <1>2, <1>14 DEF Server
  <2>2. /\ Revivals(n) = {} /\ Linked(n) = {} /\ Starts(n) = {} /\ Tasks(n) = {}
        /\ pending[n] = 0 /\ loading[n] = 0 /\ reconnecting[n] = 0
        /\ conn[n] # 0 => conns[conn[n]].st = "closed"
    BY <1>1, <2>1, NotInUse
  <2>3. Alone(n)' /\ Starting(n)'
    BY <1>2, <1>9, <2>2 DEF Alone, Starting
  <2>4. Owned(n)'
    <3>1. 0 \notin Links(n)
      BY <1>1 DEF Links
    <3> QED
      BY <1>2, <1>9, <2>1, <2>2, <3>1 DEF Calm, Owned
  <2>5. Agreeing(n)'
    BY <1>6 DEF Agreeing
  <2>6. Gone(n)'
    BY <1>2, <1>6, <1>7, <1>9, <2>1, <2>2 DEF Calm, Gone, Closing
  <2> QED
    BY <2>3, <2>4, <2>5, <2>6 DEF Calm
<1>15. Server(n)'
  BY <1>10, <1>11, <1>12, <1>13, <1>14 DEF Server
<1> QED
  BY <1>4, <1>5, <1>8, <1>15, OneConcerned DEF ServerInv

(* disconnectAll, up to the await of the closes.                           *)
LEMMA DisconnectAllServer ==
  ASSUME ServerInv, DisconnectAll
  PROVE  ServerInv'
<1> DEFINE held == {c \in DOMAIN conns : conn[conns[c].srv] = c}
<1>1. /\ TypeOK /\ Calls /\ epoch \in Nat
      /\ 0 \notin DOMAIN attempts /\ 0 \notin DOMAIN conns
  BY Looked DEF ServerInv, TypeOK
<1>2. /\ epoch' = epoch + 1 /\ closing' = closing \cup {"all"} /\ removed' = Servers
      /\ attempts' = Uncharged(Servers) /\ spawned' = [n \in Servers |-> 0]
      /\ overtaken' = overtaken \cup {n \in Servers : Busy(n)}
      /\ UNCHANGED <<configured, conn, pending, loading, reconnecting, tools, burst, call,
                     refreshing>>
      /\ ops' \in 0..MaxOps
  BY <1>1, CommandTyped DEF DisconnectAll, maps
<1>3. Stay
  BY <1>1, <1>2, UnchargedStay
<1>4. Fade(held, {})
  <2>1. conns' = [c \in DOMAIN conns |->
                    IF c \in held
                    THEN [conns[c] EXCEPT !.st = "closed", !.wired = FALSE] ELSE conns[c]]
    BY DEF DisconnectAll
  <2>2. \A c \in DOMAIN conns : conns[c] \in Connection
    BY <1>1, Looked
  <2> HIDE DEF held
  <2>3. conns' \in [DOMAIN conns -> Connection]
    BY <2>1, <2>2 DEF Connection
  <2>4. \A c \in DOMAIN conns :
          /\ c \in held => /\ conns'[c].srv = conns[c].srv /\ conns'[c].late = conns[c].late
                           /\ conns'[c].st = "closed"
          /\ c \notin held => conns'[c] = conns[c]
    BY <2>1, <2>2 DEF Connection
  <2> QED
    BY <1>1, <2>3, <2>4, ConnsMapped DEF Fade
<1>5. TypeOK'
  <2>1. spawned' \in [Servers -> Nat]
    BY <1>2
  <2> QED
    BY <1>1, <1>2, <1>3, <1>4, <2>1 DEF TypeOK, Stay, Fade
<1>6. Calls'
  BY <1>1, <1>2, <1>3, <1>4 DEF Calls, Stay, Fade
<1>7. ASSUME NEW n \in Servers PROVE Server(n)'
  <2>1. Server(n)
    BY DEF ServerInv
  <2>2. /\ Of(n)' = Of(n) /\ Tasks(n)' = Tasks(n)
        /\ Revivals(n)' = Revivals(n) /\ Linked(n)' = Linked(n) /\ Starts(n)' = Starts(n)
        /\ \A a \in Of(n) : Same(a)
    BY <1>2, <1>3, StaySets
  <2>3. Links(n)' = Links(n)
    BY <1>4, FadedSets
  <2>4. \A k \in Links(n) : /\ conns'[k].st = IF k = conn[n] THEN "closed" ELSE conns[k].st
                            /\ conns'[k].late = conns[k].late
    BY <1>4 DEF Fade, Links
  <2>5. Pointers(n)'
    BY <1>2, <2>1, <2>2, <2>3, <2>4 DEF Server, Pointers, Same, Starts
  <2>6. Chains(n)'
    BY <2>1, <2>2, <2>3, <2>4 DEF Server, Chains, Same
  <2>7. Doomed(n)'
    BY <1>2 DEF Doomed, Closing
  <2>8. Waiting(n)'
    BY <1>2, <2>1, <2>2 DEF Server, Waiting, Same, Tasks
  <2>9. ASSUME n \notin overtaken' PROVE Calm(n)'
    <3>1. Calm(n) /\ ~Busy(n)
      BY <1>2, <2>1, <2>9 DEF Server
    <3>2. Revivals(n) = {} /\ Linked(n) = {} /\ Starts(n) = {} /\ Tasks(n) = {}
      BY <1>1, <3>1, NotBusy
    <3>3. Alone(n)' /\ Starting(n)'
      BY <1>2, <2>1, <2>2, <3>2 DEF Alone, Starting, Server, Pointers
    <3>4. Owned(n)'
      BY <1>2, <2>3, <2>4, <3>1 DEF Calm, Owned
    <3>5. Agreeing(n)'
      BY <1>2, <2>2, <3>1, <3>2 DEF Calm, Agreeing
    <3>6. Gone(n)'
      BY <1>2, <2>2, <3>2 DEF Gone, Closing
    <3> QED
      BY <3>3, <3>4, <3>5, <3>6 DEF Calm
  <2> QED
    BY <2>5, <2>6, <2>7, <2>8, <2>9 DEF Server
<1> QED
  BY <1>5, <1>6, <1>7 DEF ServerInv

(* disconnectAll after the await.                                          *)
LEMMA AllDisconnectedServer ==
  ASSUME ServerInv, AllDisconnected
  PROVE  ServerInv'
<1>1. /\ TypeOK /\ Calls
      /\ 0 \notin DOMAIN attempts /\ 0 \notin DOMAIN conns
  BY Looked DEF ServerInv
<1>2. /\ closing' = closing \ {"all"} /\ configured' = {}
      /\ conn' = [n \in Servers |-> 0] /\ pending' = [n \in Servers |-> 0]
      /\ loading' = [n \in Servers |-> 0] /\ reconnecting' = [n \in Servers |-> 0]
      /\ tools' = [n \in Servers |-> NoTools] /\ burst' = [n \in Servers |-> 0]
      /\ attempts' = Uncharged(Servers) /\ spawned' = [n \in Servers |-> 0]
      /\ overtaken' = overtaken \cup {n \in Servers : InUse(n)}
      /\ UNCHANGED <<epoch, conns, call, refreshing, ops, removed>>
  BY DEF AllDisconnected
<1>3. Stay
  BY <1>1, <1>2, UnchargedStay
<1>4. TypeOK'
  <2>1. /\ conn' \in [Servers -> 0..MaxConns] /\ pending' \in [Servers -> Ids]
        /\ loading' \in [Servers -> Ids] /\ reconnecting' \in [Servers -> Ids]
        /\ tools' \in [Servers -> 0..Deferred] /\ burst' \in [Servers -> 0..(BurstLimit + 1)]
        /\ spawned' \in [Servers -> Nat]
    BY <1>2, McpAssumption DEF Ids, NoTools, Deferred
  <2> QED
    BY <1>1, <1>2, <1>3, <2>1 DEF TypeOK, Stay
<1>5. Calls'
  BY <1>1, <1>2, <1>3 DEF Calls, Stay
<1>6. ASSUME NEW n \in Servers PROVE Server(n)'
  <2>1. Server(n)
    BY DEF ServerInv
  <2>2. /\ Of(n)' = Of(n) /\ Tasks(n)' = Tasks(n)
        /\ Revivals(n)' = Revivals(n) /\ Linked(n)' = Linked(n) /\ Starts(n)' = Starts(n)
        /\ \A a \in Of(n) : Same(a)
    BY <1>2, <1>3, StaySets
  <2>3. Links(n)' = Links(n) /\ conns' = conns
    BY <1>2 DEF Links
  <2>4. conn'[n] = 0 /\ pending'[n] = 0 /\ loading'[n] = 0 /\ reconnecting'[n] = 0
        /\ tools'[n] = NoTools
    BY <1>2
  <2>5. Pointers(n)' /\ Doomed(n)'
    BY <2>4 DEF Pointers, Doomed
  <2>6. Chains(n)'
    BY <2>1, <2>2, <2>3 DEF Server, Chains, Same
  <2>7. Waiting(n)'
    BY <2>1, <2>2, <2>4 DEF Server, Waiting, Same, Tasks
  <2>8. ASSUME n \notin overtaken' PROVE Calm(n)'
    <3>1. Calm(n) /\ ~InUse(n) /\ Pointers(n)
      BY <1>2, <2>1, <2>8 DEF Server
    <3>2. /\ Revivals(n) = {} /\ Linked(n) = {} /\ Starts(n) = {} /\ Tasks(n) = {}
          /\ conn[n] # 0 => conns[conn[n]].st = "closed"
      BY <1>1, <3>1, NotInUse
    <3>3. Alone(n)' /\ Starting(n)' /\ Agreeing(n)'
      BY <2>2, <2>4, <3>2 DEF Alone, Starting, Agreeing
    <3>4. Owned(n)'
      <4>1. 0 \notin Links(n)
        BY <1>1 DEF Links
      <4> QED
        BY <2>3, <3>1, <3>2, <4>1 DEF Calm, Owned
    <3>5. Gone(n)'
      BY <1>2, <2>2, <2>4, <3>2 DEF Gone, Closing
    <3> QED
      BY <3>3, <3>4, <3>5 DEF Calm
  <2> QED
    BY <2>5, <2>6, <2>7, <2>8 DEF Server
<1> QED
  BY <1>4, <1>5, <1>6 DEF ServerInv

(* refreshServerTools asks for the list of the connection that is held.    *)
LEMMA RefreshServerToolsServer ==
  ASSUME ServerInv, NEW n \in Servers, RefreshServerTools(n)
  PROVE  ServerInv'
<1>1. /\ TypeOK /\ Calls /\ Server(n)
  BY DEF ServerInv
<1>2. /\ conn[n] # 0 /\ refreshing' = refreshing \cup {conn[n]}
      /\ UNCHANGED <<configured, conn, pending, loading, reconnecting, tools, burst, epoch,
                     attempts, conns, call, closing, removed, overtaken, spawned>>
      /\ ops' \in 0..MaxOps
  BY <1>1, CommandTyped DEF RefreshServerTools, maps
<1>3. conn[n] \in 1..MaxConns /\ conn[n] \in DOMAIN conns /\ ~conns[conn[n]].late
  BY <1>1, <1>2, Mapped DEF Server, Pointers, Links
<1>4. TypeOK'
  BY <1>1, <1>2, <1>3 DEF TypeOK
<1>5. Calls'
  BY <1>1, <1>2, <1>3 DEF Calls
<1>6. ASSUME NEW m \in Servers PROVE Server(m)'
  <2>1. Untouched(m)
    BY <1>2 DEF Untouched, Of, Same, Links, Tasks
  <2> QED
    BY <2>1, UntouchedServer DEF ServerInv
<1> QED
  BY <1>4, <1>5, <1>6 DEF ServerInv

(* The list arrives, even from a transport that was closed meanwhile.      *)
LEMMA RefreshedServer ==
  ASSUME ServerInv, NEW c \in refreshing, Refreshed(c)
  PROVE  ServerInv'
<1>1. /\ TypeOK /\ Calls /\ c \in DOMAIN conns /\ ~conns[c].late /\ conns[c] \in Connection
      /\ c \in 1..MaxConns
  BY Looked DEF ServerInv, Calls, TypeOK
<1>2. PICK n \in Servers : n = conns[c].srv
  BY <1>1 DEF Connection
<1>3. /\ refreshing' = refreshing \ {c}
      /\ UNCHANGED <<configured, conn, pending, loading, reconnecting, burst, epoch, attempts,
                     conns, call, closing, ops, removed, spawned>>
  BY DEF Refreshed
<1>4. \/ /\ conns[c].st \in {"open", "closed"} /\ tools' = [tools EXCEPT ![n] = c]
         /\ overtaken' = IF conns[c].st = "closed" THEN overtaken \cup {n} ELSE overtaken
      \/ UNCHANGED <<tools, overtaken>>
  BY <1>2 DEF Refreshed, Answers
<1>5. TypeOK'
  <2>1. tools' \in [Servers -> 0..Deferred]
    BY <1>1, <1>4, Mapped DEF Deferred
  <2>2. overtaken' \subseteq Servers
    BY <1>1, <1>4 DEF TypeOK
  <2> QED
    BY <1>1, <1>3, <2>1, <2>2 DEF TypeOK
<1>6. Calls'
  BY <1>1, <1>3 DEF Calls
<1>7. \A m \in Servers \ {n} : tools'[m] = tools[m] /\ (m \in overtaken => m \in overtaken')
  BY <1>1, <1>4, Mapped
<1>8. Concerns(n)
  BY <1>3, <1>7 DEF Concerns, Same
<1>9. /\ Of(n)' = Of(n) /\ Tasks(n)' = Tasks(n) /\ Links(n)' = Links(n)
      /\ Revivals(n)' = Revivals(n) /\ Linked(n)' = Linked(n) /\ Starts(n)' = Starts(n)
  BY <1>3 DEF Of, Tasks, Links, Revivals, Linked, Starts, Live
<1>10. Server(n)
  BY DEF ServerInv
<1>11. Pointers(n)' /\ Chains(n)' /\ Doomed(n)' /\ Waiting(n)'
  BY <1>3, <1>9, <1>10 DEF Server, Pointers, Chains, Doomed, Closing, Waiting
<1>12. ASSUME n \notin overtaken' PROVE Calm(n)'
  <2>1. Calm(n)
    BY <1>4, <1>10, <1>12 DEF Server
  <2>2. tools'[n] = tools[n] \/ (tools'[n] = c /\ conn[n] = c /\ c # 0)
    <3>1. UNCHANGED tools \/ (tools' = [tools EXCEPT ![n] = c] /\ conns[c].st = "open")
      BY <1>2, <1>4, <1>12
    <3>2. conns[c].st = "open" => conn[n] = c
      BY <1>1, <1>2, <2>1 DEF Calm, Owned, Links
    <3> QED
      BY <1>1, <3>1, <3>2, Mapped
  <2>3. Alone(n)'
    BY <1>3, <1>9, <2>1 DEF Calm, Alone
  <2>4. Starting(n)'
    BY <1>3, <1>9, <2>1, <2>2 DEF Calm, Starting
  <2>5. Owned(n)'
    BY <1>3, <1>9, <2>1 DEF Calm, Owned
  <2>6. Agreeing(n)'
    BY <1>3, <1>9, <2>1, <2>2 DEF Calm, Agreeing
  <2>7. Gone(n)'
    BY <1>3, <1>9, <2>1, <2>2 DEF Calm, Gone, Closing
  <2> QED
    BY <2>3, <2>4, <2>5, <2>6, <2>7 DEF Calm
<1>13. Server(n)'
  BY <1>11, <1>12 DEF Server
<1> QED
  BY <1>5, <1>6, <1>8, <1>13, OneConcerned DEF ServerInv

-----------------------------------------------------------------------------
(* connectServers.                                                         *)

(* What a call registers for n is what n is connected to, nothing, or      *)
(* tools that look their connection up.                                    *)
LEMMA LoadedTools ==
  ASSUME ServerInv, NEW n \in Servers
  PROVE  /\ Loaded(n) \in {NoTools, Deferred} \cup {attempts[a].conn : a \in Tasks(n)}
         /\ Tasks(n) = {} => Loaded(n) = NoTools
         /\ \A a \in Tasks(n) : attempts[a].stage # "done" => Loaded(n) \in {NoTools, Deferred}
<1> DEFINE mine == {a \in call.tasks : attempts[a].srv = n}
<1>1. mine = Tasks(n)
  BY DEF ServerInv, Calls, Tasks, Of
<1>2. CASE Tasks(n) = {}
  BY <1>1, <1>2 DEF Loaded
<1>3. CASE Tasks(n) # {}
  <2>1. (CHOOSE x \in mine : TRUE) \in mine
    BY <1>1, <1>3
  <2>2. PICK a \in Tasks(n) : a = CHOOSE x \in mine : TRUE
    BY <1>1, <2>1
  <2>3. \A b \in Tasks(n) : b = a
    BY DEF ServerInv, Server, Waiting
  <2>4. Loaded(n) = CASE attempts[a].stage = "done" -> attempts[a].conn
                      [] attempts[a].stage = "failed" -> NoTools
                      [] OTHER -> IF n \in Cached THEN Deferred ELSE NoTools
    BY <1>1, <1>3, <2>2 DEF Loaded
  <2>5. attempts[a].stage = "done" => Loaded(n) = attempts[a].conn
    BY <2>4
  <2>6. attempts[a].stage # "done" => Loaded(n) \in {NoTools, Deferred}
    BY <2>4
  <2> QED
    BY <1>3, <2>3, <2>5, <2>6
<1> QED
  BY <1>2, <1>3

(* The call is over.                                                       *)
LEMMA EndStartupServer ==
  ASSUME ServerInv, EndStartup
  PROVE  ServerInv'
<1>1. /\ TypeOK /\ Calls
  BY DEF ServerInv
<1>2. /\ tools' = [n \in Servers |-> Loaded(n)]
      /\ call' = [on |-> FALSE, tasks |-> {}]
      /\ UNCHANGED <<configured, conn, pending, loading, reconnecting, burst, epoch, attempts,
                     conns, closing, refreshing, ops, removed, overtaken, spawned>>
  BY DEF EndStartup
<1>3. TypeOK'
  <2>1. ASSUME NEW n \in Servers PROVE Loaded(n) \in 0..Deferred
    <3>1. \A a \in Tasks(n) : attempts[a].conn \in 0..MaxConns
      BY <1>1, Looked DEF Tasks, Of, Attempt
    <3> QED
      BY <1>1, <3>1, LoadedTools, Mapped DEF NoTools, Deferred
  <2>2. tools' \in [Servers -> 0..Deferred]
    BY <1>2, <2>1
  <2>3. call' \in [on : BOOLEAN, tasks : SUBSET (1..MaxAttempts)]
    BY <1>2
  <2> QED
    BY <1>1, <1>2, <2>2, <2>3 DEF TypeOK
<1>4. Calls'
  BY <1>1, <1>2 DEF Calls
<1>5. ASSUME NEW n \in Servers PROVE Server(n)'
  <2>1. Server(n)
    BY DEF ServerInv
  <2>2. /\ Of(n)' = Of(n) /\ Links(n)' = Links(n) /\ Tasks(n)' = {}
        /\ Revivals(n)' = Revivals(n) /\ Linked(n)' = Linked(n) /\ Starts(n)' = Starts(n)
    BY <1>2 DEF Of, Tasks, Links, Revivals, Linked, Starts, Live
  <2>3. Pointers(n)' /\ Chains(n)' /\ Doomed(n)' /\ Waiting(n)'
    BY <1>2, <2>1, <2>2 DEF Server, Pointers, Chains, Doomed, Closing, Waiting
  <2>4. tools'[n] = Loaded(n)
    BY <1>2
  <2>5. ASSUME n \notin overtaken' PROVE Calm(n)'
    <3>1. Calm(n)
      BY <1>2, <2>1, <2>5 DEF Server
    <3>2. Alone(n)'
      BY <1>2, <2>2, <3>1 DEF Calm, Alone
    <3>3. Starting(n)'
      <4>1. ASSUME pending[n] # 0 PROVE Loaded(n) \in {NoTools, Deferred}
        <5>1. ASSUME NEW a \in Tasks(n) PROVE attempts[a].stage # "done"
          BY <2>1, <4>1 DEF Server, Waiting, Pointers
        <5> QED
          BY <5>1, LoadedTools
      <4> QED
        BY <1>2, <2>4, <3>1, <4>1 DEF Calm, Starting
    <3>4. Owned(n)'
      BY <1>2, <2>2, <3>1 DEF Calm, Owned
    <3>5. Agreeing(n)'
      BY <1>2, <2>2, <2>4, <3>1, LoadedTools DEF Calm, Agreeing
    <3>6. Gone(n)'
      BY <1>2, <2>2, <2>4, <3>1, LoadedTools DEF Calm, Gone, Closing
    <3> QED
      BY <3>2, <3>3, <3>4, <3>5, <3>6 DEF Calm
  <2> QED
    BY <2>3, <2>5 DEF Server
<1> QED
  BY <1>3, <1>4, <1>5 DEF ServerInv

(* The new attempts of a call, one per server it connects to.              *)
Started(ids, server, new) ==
  /\ attempts' \in Seq(Attempt) /\ DOMAIN attempts' = DOMAIN attempts \cup ids
  /\ ids \cap DOMAIN attempts = {} /\ 0 \notin ids /\ ids \subseteq 1..MaxAttempts
  /\ \A b \in DOMAIN attempts : attempts'[b] = attempts[b]
  /\ \A b \in ids : /\ server[b] \in new /\ attempts'[b].srv = server[b]
                    /\ attempts'[b].kind = "initial" /\ attempts'[b].stage = "connecting"
                    /\ attempts'[b].conn = 0 /\ ~attempts'[b].charged
  /\ \A b, d \in ids : server[b] = server[d] => b = d
  /\ \A n \in new : \E b \in ids : server[b] = n
  /\ \A n \in Servers :
       IF n \in new
       THEN \E b \in ids : server[b] = n /\ pending'[n] = b /\ loading'[n] = b
       ELSE pending'[n] = pending[n] /\ loading'[n] = loading[n]
  /\ pending' \in [Servers -> Ids] /\ loading' \in [Servers -> Ids]
  /\ call' = [on |-> TRUE, tasks |-> ids]

(* A new initial attempt.                                                  *)
LEMMA InitialAttempt ==
  ASSUME NEW n
  PROVE  LET r == NewAttempt(n, "initial") IN
         /\ r.srv = n /\ r.kind = "initial" /\ r.stage = "connecting" /\ r.conn = 0
         /\ ~r.charged
BY DEF NewAttempt

(* connectServers starts one attempt for each server it connects to.       *)
LEMMA CallStarts ==
  ASSUME TypeOK, NEW names \in SUBSET Servers, ConnectServers(names)
  PROVE  \E ids, server : Started(ids, server, ToConnect(names))
<1> DEFINE new == ToConnect(names)
           k == Cardinality(new)
           len == Len(attempts)
           ids == (len + 1)..(len + k)
<1>1. new \subseteq Servers /\ k \in Nat
  BY McpAssumption, FS_Subset, FS_CardinalityType DEF ToConnect
<1>2. len \in Nat /\ DOMAIN attempts = 1..len /\ attempts \in Seq(Attempt) /\ len + k <= MaxAttempts
      /\ epoch \in Nat
  BY Looked DEF TypeOK, ConnectServers
<1>3. PICK server \in Bijection(ids, new) :
        /\ attempts' = attempts \o [i \in 1..k |-> NewAttempt(server[len + i], "initial")]
        /\ pending' = [n \in Servers |->
                         IF n \in new THEN CHOOSE a \in ids : server[a] = n ELSE pending[n]]
        /\ loading' = [n \in Servers |->
                         IF n \in new THEN CHOOSE a \in ids : server[a] = n ELSE loading[n]]
  BY DEF ConnectServers
<1>4. call' = [on |-> TRUE, tasks |-> ids]
  BY DEF ConnectServers
<1> HIDE DEF new, k, len
<1>5. /\ server \in [ids -> new] /\ (\A b, d \in ids : server[b] = server[d] => b = d)
      /\ \A n \in new : \E b \in ids : server[b] = n
  BY DEF Bijection, Injection, Surjection, IsInjective
<1> DEFINE started == [i \in 1..k |-> NewAttempt(server[len + i], "initial")]
<1>6. started \in [1..k -> Attempt]
  <2>1. ASSUME NEW i \in 1..k PROVE NewAttempt(server[len + i], "initial") \in Attempt
    <3>1. server[len + i] \in Servers
      BY <1>1, <1>2, <1>5
    <3> QED
      BY <1>2, <3>1, McpAssumption DEF NewAttempt, Attempt
  <2> QED
    BY <2>1
<1>7. started \in Seq(Attempt) /\ Len(started) = k
  BY <1>1, <1>6, FunctionIsSeq
<1>8. \A i \in 1..k : started[i] = NewAttempt(server[len + i], "initial")
  OBVIOUS
<1> HIDE DEF started
<1>9. /\ attempts' \in Seq(Attempt) /\ Len(attempts') = len + k
      /\ \A b \in 1..(len + k) : attempts'[b] = IF b <= len THEN attempts[b] ELSE started[b - len]
  BY <1>2, <1>3, <1>7, ConcatProperties DEF started, len
<1>10. DOMAIN attempts' = 1..(len + k)
  BY <1>9, LenProperties
<1>11. DOMAIN attempts' = DOMAIN attempts \cup ids /\ ids \cap DOMAIN attempts = {}
       /\ 0 \notin ids /\ ids \subseteq 1..MaxAttempts
  BY <1>1, <1>2, <1>10, McpAssumption
<1>12. \A b \in DOMAIN attempts : attempts'[b] = attempts[b]
  BY <1>1, <1>2, <1>9
<1>13. ASSUME NEW b \in ids
       PROVE  /\ server[b] \in new /\ attempts'[b].srv = server[b]
              /\ attempts'[b].kind = "initial" /\ attempts'[b].stage = "connecting"
              /\ attempts'[b].conn = 0 /\ ~attempts'[b].charged
  <2>1. attempts'[b] = started[b - len] /\ b - len \in 1..k /\ len + (b - len) = b
    <3>1. b \in Nat /\ b > len /\ b <= len + k
      BY <1>1, <1>2
    <3>2. b \in 1..(len + k) /\ ~(b <= len) /\ b - len \in 1..k /\ len + (b - len) = b
      BY <1>1, <1>2, <3>1
    <3> HIDE DEF ids
    <3> QED
      BY <1>9, <3>2
  <2>2. attempts'[b] = NewAttempt(server[b], "initial")
    BY <1>8, <2>1
  <2> QED
    BY <1>5, <2>2, InitialAttempt
<1>14. ASSUME NEW n \in Servers
       PROVE  IF n \in new
              THEN \E b \in ids : server[b] = n /\ pending'[n] = b /\ loading'[n] = b
              ELSE pending'[n] = pending[n] /\ loading'[n] = loading[n]
  <2>1. CASE n \in new
    <3> DEFINE b == CHOOSE a \in ids : server[a] = n
    <3>1. b \in ids /\ server[b] = n
      BY <1>5, <2>1
    <3> QED
      BY <1>3, <2>1, <3>1
  <2>2. CASE n \notin new
    BY <1>3, <2>2
  <2> QED
    BY <2>1, <2>2
<1>15. pending' \in [Servers -> Ids] /\ loading' \in [Servers -> Ids]
  <2>1. pending \in [Servers -> Ids] /\ loading \in [Servers -> Ids]
    BY Mapped DEF Ids
  <2>2. ids \subseteq Ids
    BY <1>11 DEF Ids
  <2>3. \A n \in Servers : pending'[n] \in Ids /\ loading'[n] \in Ids
    BY <1>14, <2>1, <2>2
  <2>4. /\ pending' = [n \in Servers |-> pending'[n]] /\ loading' = [n \in Servers |-> loading'[n]]
    BY <1>3
  <2> QED
    BY <2>3, <2>4
<1> HIDE DEF ids
<1>16. Started(ids, server, new)
  BY <1>4, <1>5, <1>9, <1>11, <1>12, <1>13, <1>14, <1>15 DEF Started
<1> QED
  BY <1>16 DEF new

(* Each of those servers has one chain more, the others have the same.     *)
LEMMA StartedOf ==
  ASSUME NEW ids, NEW server, NEW new, Started(ids, server, new), NEW n
  PROVE  /\ \A a \in Of(n) : Same(a)
         /\ n \notin new => Of(n)' = Of(n)
         /\ \A k \in ids : server[k] = n => Of(n)' = Of(n) \cup {k}
<1>1. DOMAIN attempts' = DOMAIN attempts \cup ids
  BY DEF Started
<1>2. \A b \in DOMAIN attempts : attempts'[b] = attempts[b]
  BY DEF Started
<1>3. \A b \in ids : server[b] \in new /\ attempts'[b].srv = server[b]
  BY DEF Started
<1>4. \A b, d \in ids : server[b] = server[d] => b = d
  BY DEF Started
<1>5. \A a \in Of(n) : Same(a)
  BY <1>2 DEF Of, Same
<1>6. ASSUME n \notin new PROVE Of(n)' = Of(n)
  BY <1>1, <1>2, <1>3, <1>6 DEF Of
<1>7. ASSUME NEW k \in ids, server[k] = n PROVE Of(n)' = Of(n) \cup {k}
  BY <1>1, <1>2, <1>3, <1>4, <1>7 DEF Of
<1> QED
  BY <1>5, <1>6, <1>7

(* connectServers keeps what is known of the servers.                      *)
LEMMA ConnectServersServer ==
  ASSUME ServerInv, NEW names \in SUBSET Servers, ConnectServers(names)
  PROVE  ServerInv'
<1> DEFINE new == ToConnect(names)
<1>1. /\ TypeOK /\ Calls /\ call.tasks = {}
      /\ 0 \notin DOMAIN attempts /\ 0 \notin DOMAIN conns
  BY Looked DEF ServerInv, Calls, ConnectServers
<1>2. /\ configured' = configured \cup new /\ removed' = removed \ names
      /\ UNCHANGED <<conn, reconnecting, tools, burst, epoch, conns, closing, refreshing,
                     overtaken, spawned>>
      /\ ops' \in 0..MaxOps /\ new \subseteq names
  BY <1>1, CommandTyped DEF ConnectServers, ToConnect
<1>3. \A n \in new : conn[n] = 0 /\ pending[n] = 0 /\ loading[n] = 0 /\ reconnecting[n] = 0
  BY DEF ToConnect
<1> HIDE DEF new
<1>4. PICK ids, server : Started(ids, server, new)
  BY <1>1, CallStarts DEF new
<1>5. TypeOK'
  <2>1. call' \in [on : BOOLEAN, tasks : SUBSET (1..MaxAttempts)]
    BY <1>4 DEF Started
  <2>2. {pending', loading', reconnecting'} \subseteq [Servers -> Ids]
    BY <1>1, <1>2, <1>4, Mapped DEF Started, Ids
  <2>3. attempts' \in Seq(Attempt)
    BY <1>4 DEF Started
  <2> QED
    BY <1>1, <1>2, <2>1, <2>2, <2>3 DEF TypeOK
<1>6. Calls'
  BY <1>1, <1>2, <1>4 DEF Calls, Started
<1>7. ASSUME NEW n \in Servers \ new PROVE Server(n)'
  <2>1. Of(n)' = Of(n) /\ \A a \in Of(n) : Same(a)
    BY <1>4, <1>7, StartedOf
  <2>2. Tasks(n) = {} /\ Tasks(n)' = {}
    BY <1>1, <1>4, <2>1 DEF Started, Tasks, Of
  <2>3. pending'[n] = pending[n] /\ loading'[n] = loading[n]
    BY <1>4, <1>7 DEF Started
  <2>4. Untouched(n)
    BY <1>2, <1>7, <2>1, <2>2, <2>3 DEF Untouched, Links
  <2> QED
    BY <1>7, <2>4, UntouchedServer DEF ServerInv
<1>8. ASSUME NEW n \in new, n \in Servers PROVE Server(n)'
  <2>1. PICK k \in ids : server[k] = n /\ pending'[n] = k /\ loading'[n] = k
    BY <1>4, <1>8 DEF Started
  <2>2. /\ k # 0 /\ Of(n)' = Of(n) \cup {k} /\ k \notin Of(n)
        /\ \A a \in Of(n) : Same(a)
        /\ attempts'[k].kind = "initial" /\ attempts'[k].stage = "connecting"
        /\ attempts'[k].conn = 0
    <3>1. Of(n)' = Of(n) \cup {k} /\ \A a \in Of(n) : Same(a)
      BY <1>4, <2>1, StartedOf
    <3> QED
      BY <1>4, <2>1, <3>1 DEF Started, Of
  <2>3. Tasks(n)' = {k}
    BY <1>4, <2>1, <2>2 DEF Started, Tasks, Of
  <2>4. /\ Revivals(n)' = Revivals(n) /\ Linked(n)' = Linked(n) /\ Starts(n)' = Starts(n) \cup {k}
        /\ Links(n)' = Links(n)
    BY <1>2, <2>2 DEF Revivals, Linked, Starts, Live, Same, Links
  <2>5. Server(n) /\ conn[n] = 0 /\ reconnecting[n] = 0 /\ n \notin removed'
    BY <1>2, <1>3, <1>8 DEF ServerInv
  <2>6. Pointers(n)' /\ Doomed(n)'
    BY <1>2, <2>1, <2>2, <2>4, <2>5 DEF Pointers, Doomed
  <2>7. Chains(n)'
    BY <1>2, <2>2, <2>4, <2>5 DEF Server, Chains, Same
  <2>8. Waiting(n)'
    BY <2>1, <2>2, <2>3 DEF Waiting
  <2>9. ASSUME n \notin overtaken' PROVE Calm(n)'
    <3>1. Calm(n)
      BY <1>2, <2>5, <2>9 DEF Server
    <3>2. Revivals(n) = {}
      BY <1>1, <2>5, <3>1 DEF Calm, Alone, Revivals, Of
    <3>3. Alone(n)'
      BY <2>4, <3>2 DEF Alone
    <3>4. Starting(n)'
      BY <1>2, <2>1, <2>2, <2>3, <2>5 DEF Starting
    <3>5. Owned(n)'
      BY <1>2, <2>4, <3>1 DEF Calm, Owned
    <3>6. Agreeing(n)' /\ Gone(n)'
      BY <1>2, <2>5 DEF Agreeing, Gone
    <3> QED
      BY <3>3, <3>4, <3>5, <3>6 DEF Calm
  <2> QED
    BY <2>6, <2>7, <2>8, <2>9 DEF Server
<1> QED
  BY <1>5, <1>6, <1>7, <1>8 DEF ServerInv

(* Nothing is known of any server at the start.                            *)
LEMMA InitServer == Init => ServerInv
<1> SUFFICES ASSUME Init PROVE ServerInv
  OBVIOUS
<1>1. attempts = <<>> /\ conns = <<>> /\ DOMAIN attempts = {} /\ DOMAIN conns = {}
  BY DEF Init
<1>2. TypeOK
  <2>1. attempts \in Seq(Attempt) /\ conns \in Seq(Connection)
    BY <1>1
  <2>2. {pending, loading, reconnecting} \subseteq [Servers -> Ids]
    BY McpAssumption DEF Init, Ids
  <2> QED
    BY <2>1, <2>2, McpAssumption DEF Init, TypeOK, NoTools, Deferred
<1>3. Calls
  BY <1>1 DEF Init, Calls
<1>4. ASSUME NEW n \in Servers PROVE Server(n)
  <2>1. Of(n) = {} /\ Links(n) = {} /\ Tasks(n) = {} /\ Revivals(n) = {} /\ Linked(n) = {}
    BY <1>1 DEF Of, Links, Tasks, Revivals, Linked
  <2>2. conn[n] = 0 /\ pending[n] = 0 /\ loading[n] = 0 /\ reconnecting[n] = 0
        /\ tools[n] = NoTools /\ removed = {}
    BY DEF Init
  <2>3. Pointers(n) /\ Chains(n) /\ Doomed(n) /\ Waiting(n)
    BY <2>1, <2>2 DEF Pointers, Chains, Doomed, Waiting
  <2>4. Calm(n)
    BY <2>1, <2>2 DEF Calm, Alone, Starting, Owned, Agreeing, Gone
  <2> QED
    BY <2>3, <2>4 DEF Server
<1> QED
  BY <1>2, <1>3, <1>4 DEF ServerInv

(* Every step keeps what is known of the servers.                          *)
LEMMA ServerStep == ServerInv /\ [Next]_vars => ServerInv'
<1> SUFFICES ASSUME ServerInv, [Next]_vars PROVE ServerInv'
  OBVIOUS
<1>1. ASSUME NEW names \in SUBSET Servers, ConnectServers(names) PROVE ServerInv'
  BY <1>1, ConnectServersServer
<1>2. ASSUME NEW n \in Servers,
             \/ ManualReconnect(n) \/ ToolReconnect(n) \/ WindowPasses(n)
             \/ DisconnectServer(n) \/ RefreshServerTools(n) \/ Disconnected(n)
      PROVE  ServerInv'
  BY <1>2, ReconnectsServer, WindowPassesServer, DisconnectServerServer,
     RefreshServerToolsServer, DisconnectedServer
<1>3. CASE DisconnectAll \/ EndStartup \/ AllDisconnected
  BY <1>3, DisconnectAllServer, EndStartupServer, AllDisconnectedServer
<1>4. ASSUME NEW c \in DOMAIN conns, TransportLost(c) PROVE ServerInv'
  BY <1>4, TransportLostServer
<1>5. ASSUME NEW a \in DOMAIN attempts, Chain(a) PROVE ServerInv'
  BY <1>5, InitialConnectedServer, InitialFailedServer, InitialListedServer, RetryServer,
     ConnectFailedServer, ReconnectedServer, RelistedServer, RelistFailedServer DEF Chain
<1>6. ASSUME NEW c \in refreshing, Refreshed(c) PROVE ServerInv'
  BY <1>6, RefreshedServer
<1>7. CASE UNCHANGED vars
  <2>1. /\ UNCHANGED <<configured, conn, pending, loading, reconnecting, tools, burst, epoch,
                       attempts, conns, call, closing, refreshing, ops, removed, overtaken,
                       spawned>>
    BY <1>7 DEF vars, maps
  <2>2. TypeOK' /\ Calls'
    BY <2>1 DEF ServerInv, TypeOK, Calls
  <2>3. ASSUME NEW n \in Servers PROVE Server(n)'
    <3>1. Untouched(n)
      BY <2>1 DEF Untouched, Of, Same, Links, Tasks
    <3> QED
      BY <3>1, UntouchedServer DEF ServerInv
  <2> QED
    BY <2>2, <2>3 DEF ServerInv
<1> QED
  BY <1>1, <1>2, <1>3, <1>4, <1>5, <1>6, <1>7 DEF Next, Settle

-----------------------------------------------------------------------------
(* The crash windows.                                                      *)

(* What is charged is finite.                                              *)
LEMMA FiniteWindow ==
  ASSUME TypeOK, NEW n
  PROVE  /\ IsFiniteSet(Charged(n)) /\ Cardinality(Charged(n)) \in Nat
         /\ IsFiniteSet(Spawns(n)) /\ Cardinality(Spawns(n)) \in Nat
<1>1. IsFiniteSet(DOMAIN attempts) /\ Tries \in Nat
  <2>1. IsFiniteSet(1..Len(attempts))
    BY Looked, FS_Interval
  <2> QED
    BY <2>1, Looked, McpAssumption
<1>2. Charged(n) \subseteq DOMAIN attempts
  BY DEF Charged, Of
<1>3. IsFiniteSet(Charged(n)) /\ IsFiniteSet(1..Tries)
  BY <1>1, <1>2, FS_Subset, FS_Interval
<1>4. IsFiniteSet(Charged(n) \X (1..Tries))
  BY <1>3, FS_Product
<1>5. Spawns(n) \subseteq Charged(n) \X (1..Tries)
  BY DEF Spawns
<1> QED
  BY <1>3, <1>4, <1>5, FS_Subset, FS_CardinalityType

(* A step that charges the window of m nothing, and one after which nothing *)
(* is charged to it.                                                        *)
Kept(m) ==
  /\ Charged(m)' = Charged(m)
  /\ \A a \in Charged(m) : attempts'[a].tries = attempts[a].tries
  /\ burst'[m] >= burst[m] /\ spawned'[m] = spawned[m]

Cleared(m) == Charged(m)' = {} /\ spawned'[m] = 0

(* Both keep what is known of the window.                                  *)
LEMMA KeptWindow ==
  ASSUME TypeOK, TypeOK', NEW m \in Servers, Window(m), Kept(m)
  PROVE  Window(m)'
<1>1. Spawns(m)' = Spawns(m)
  BY DEF Kept, Spawns
<1>2. burst[m] \in Nat /\ burst'[m] \in Nat /\ Cardinality(Charged(m)) \in Nat
  <2>1. burst[m] \in Nat /\ burst'[m] \in Nat
    BY McpAssumption DEF TypeOK
  <2> QED
    BY <2>1, FiniteWindow
<1>3. Cardinality(Charged(m)) <= burst'[m]
  BY <1>2 DEF Window, Kept
<1> QED
  BY <1>1, <1>3 DEF Window, Kept

(* A window to which nothing is charged.                                   *)
LEMMA ClearedWindow ==
  ASSUME TypeOK', NEW m \in Servers, Cleared(m)
  PROVE  Window(m)'
<1>1. Spawns(m)' = {}
  BY DEF Cleared, Spawns
<1>2. burst'[m] \in Nat /\ BurstLimit \in Nat
  BY McpAssumption DEF TypeOK
<1>3. Cardinality({}) = 0
  BY FS_EmptySet
<1>4. Cardinality(Charged(m))' = 0 /\ Cardinality(Spawns(m))' = 0
  BY <1>1, <1>3 DEF Cleared
<1> QED
  BY <1>2, <1>4 DEF Cleared, Window

(* The attempts as far as the windows are concerned.                       *)
Untolled ==
  /\ DOMAIN attempts \subseteq DOMAIN attempts'
  /\ \A b \in DOMAIN attempts : /\ attempts'[b].srv = attempts[b].srv
                                /\ attempts'[b].charged = attempts[b].charged
                                /\ attempts'[b].tries = attempts[b].tries
  /\ \A b \in DOMAIN attempts' \ DOMAIN attempts : ~attempts'[b].charged

(* Such a step leaves every window what it was charged.                    *)
LEMMA UntolledKept ==
  ASSUME Untolled, NEW m
  PROVE  /\ Charged(m)' = Charged(m)
         /\ \A a \in Charged(m) : attempts'[a].tries = attempts[a].tries
BY DEF Untolled, Charged, Of

(* The windows of ns begin anew.                                           *)
LEMMA AnewWindow ==
  ASSUME TypeOK, TypeOK', NEW ns, attempts' = Uncharged(ns), NEW m \in Servers, Window(m),
         m \in ns => spawned'[m] = 0,
         m \notin ns => burst'[m] = burst[m] /\ spawned'[m] = spawned[m]
  PROVE  Window(m)'
<1>1. Stay /\ \A b \in DOMAIN attempts :
                attempts'[b].charged = (attempts[b].srv \notin ns /\ attempts[b].charged)
  BY UnchargedStay
<1>2. DOMAIN attempts' = DOMAIN attempts
      /\ \A b \in DOMAIN attempts : /\ attempts'[b].srv = attempts[b].srv
                                    /\ attempts'[b].tries = attempts[b].tries
  BY <1>1 DEF Stay, Same
<1>3. CASE m \in ns
  <2>1. Charged(m)' = {}
    <3>1. \A b \in DOMAIN attempts' : attempts'[b].srv = m => ~attempts'[b].charged
      BY <1>1, <1>2, <1>3
    <3> QED
      BY <3>1 DEF Charged, Of
  <2> QED
    BY <1>3, <2>1, ClearedWindow DEF Cleared
<1>4. CASE m \notin ns
  <2>1. \A b \in DOMAIN attempts : attempts[b].charged \in BOOLEAN
    BY Looked DEF Attempt
  <2>2. Charged(m)' = Charged(m)
    BY <1>1, <1>2, <1>4, <2>1 DEF Charged, Of
  <2>3. \A a \in Charged(m) : attempts'[a].tries = attempts[a].tries
    BY <1>2 DEF Charged, Of
  <2>4. burst'[m] >= burst[m]
    BY <1>4, McpAssumption DEF TypeOK
  <2> QED
    BY <1>4, <2>2, <2>3, <2>4, KeptWindow DEF Kept
<1> QED
  BY <1>3, <1>4

(* Nothing is charged at the start.                                        *)
LEMMA InitWindow ==
  ASSUME Init, NEW n \in Servers
  PROVE  Window(n)
<1>1. Charged(n) = {}
  BY DEF Init, Charged, Of
<1>2. Spawns(n) = {}
  BY <1>1 DEF Spawns
<1>3. burst[n] = 0 /\ spawned[n] = 0 /\ BurstLimit \in Nat
  BY McpAssumption DEF Init
<1> QED
  BY <1>1, <1>2, <1>3, FS_EmptySet DEF Window

(* The next try of a charged attempt.                                      *)
LEMMA RetryWindow ==
  ASSUME IInv, TypeOK', NEW a \in DOMAIN attempts, Retry(a), NEW m \in Servers
  PROVE  Window(m)'
<1>1. TypeOK /\ attempts[a] \in Attempt /\ attempts[a].srv \in Servers /\ Window(m)
      /\ attempts[a].tries \in 1..Tries /\ Tries \in Nat /\ spawned \in [Servers -> Nat]
      /\ burst[m] \in Nat
  <2>1. TypeOK /\ Window(m)
    BY DEF IInv, ServerInv
  <2>2. spawned \in [Servers -> Nat] /\ burst[m] \in Nat /\ Tries \in Nat
    BY <2>1, McpAssumption DEF TypeOK
  <2> QED
    BY <2>1, <2>2, Looked DEF Attempt
<1>2. PICK n \in Servers : n = attempts[a].srv
  BY <1>1
<1>3. burst' = burst /\ burst'[m] >= burst[m]
  BY <1>1 DEF Retry, unchangedByTry
<1>4. attempts[a].tries < Tries
  BY <1>2 DEF IInv, ServerInv, Server, Chains, Of, Retry
<1>5. CASE attempts[a].epoch # epoch
  <2>1. attempts' = [attempts EXCEPT ![a].stage = "failed"] /\ spawned' = spawned
    BY <1>5 DEF Retry, Over
  <2>2. Untolled
    BY <1>1, <2>1 DEF Untolled, Attempt
  <2> QED
    BY <1>1, <1>3, <2>1, <2>2, UntolledKept, KeptWindow DEF Kept
<1>6. CASE attempts[a].epoch = epoch
  <2>1. /\ attempts' = [attempts EXCEPT ![a].stage = "connecting", ![a].tries = @ + 1]
        /\ spawned' = IF attempts[a].charged
                      THEN [spawned EXCEPT ![n] = @ + 1] ELSE spawned
    BY <1>2, <1>6 DEF Retry
  <2>2. /\ DOMAIN attempts' = DOMAIN attempts
        /\ \A b \in DOMAIN attempts : b # a => attempts'[b] = attempts[b]
        /\ attempts'[a].srv = attempts[a].srv /\ attempts'[a].charged = attempts[a].charged
        /\ attempts'[a].tries = attempts[a].tries + 1
    BY <1>1, <2>1 DEF Attempt
  <2>3. Charged(m)' = Charged(m)
    BY <2>2 DEF Charged, Of
  <2>4. CASE a \notin Charged(m)
    <3>1. \A b \in Charged(m) : attempts'[b].tries = attempts[b].tries
      BY <2>2, <2>4 DEF Charged, Of
    <3>2. m # n \/ ~attempts[a].charged
      BY <1>2, <2>4 DEF Charged, Of
    <3>3. spawned'[m] = spawned[m]
      BY <1>1, <2>1, <3>2
    <3> QED
      BY <1>1, <1>3, <2>3, <3>1, <3>3, KeptWindow DEF Kept
  <2>5. CASE a \in Charged(m)
    <3>1. m = n /\ attempts[a].charged
      BY <1>2, <2>5 DEF Charged, Of
    <3>2. spawned'[m] = spawned[m] + 1
      BY <1>1, <2>1, <3>1
    <3> DEFINE p == <<a, attempts[a].tries + 1>>
    <3>3. p \notin Spawns(m)
      BY <1>1 DEF Spawns
    <3>4. \A q \in Charged(m) \X (1..Tries) :
            q[2] <= attempts'[q[1]].tries <=> (q[2] <= attempts[q[1]].tries \/ q = p)
      <4> TAKE q \in Charged(m) \X (1..Tries)
      <4>1. PICK b \in Charged(m), t \in 1..Tries : q = <<b, t>>
        OBVIOUS
      <4>2. b # a => attempts'[b] = attempts[b]
        BY <2>2 DEF Charged, Of
      <4> QED
        BY <1>1, <2>2, <4>1, <4>2
    <3>5. p \in Charged(m) \X (1..Tries)
      BY <1>1, <1>4, <2>5
    <3>6. Spawns(m)' = Spawns(m) \cup {p}
      BY <2>3, <3>4, <3>5 DEF Spawns
    <3>7. Cardinality(Spawns(m) \cup {p}) = Cardinality(Spawns(m)) + 1
      BY <1>1, <3>3, FiniteWindow, FS_AddElement
    <3> HIDE DEF p
    <3>8. /\ Cardinality(Spawns(m))' = spawned'[m]
          /\ Cardinality(Charged(m))' = Cardinality(Charged(m))
      BY <1>1, <2>3, <3>2, <3>6, <3>7 DEF Window
    <3> QED
      BY <1>1, <1>3, <3>8 DEF Window
  <2> QED
    BY <2>4, <2>5
<1> QED
  BY <1>5, <1>6

(* reconnectServer charges at most one attempt, and only below the limit.  *)
LEMMA ReconnectWindow ==
  ASSUME IInv, TypeOK', NEW n \in Servers, NEW cs, NEW manual \in BOOLEAN,
         Reconnect(n, cs, manual), NEW m \in Servers
  PROVE  Window(m)'
<1> DEFINE hist == IF manual THEN 0 ELSE burst[n]
           next == IF hist > BurstLimit THEN hist ELSE hist + 1
           base == IF manual THEN 0 ELSE spawned[n]
           atts == IF manual THEN Uncharged({n}) ELSE attempts
           k == Len(attempts) + 1
<1>1. TypeOK /\ Window(m) /\ Window(n)
  BY DEF IInv, ServerInv
<1>2. /\ burst \in [Servers -> 0..(BurstLimit + 1)] /\ spawned \in [Servers -> Nat]
      /\ BurstLimit \in Nat \ {0} /\ Tries \in Nat \ {0}
  BY <1>1, McpAssumption DEF TypeOK
<1>3. hist \in Nat /\ next \in Nat /\ hist <= next /\ base \in Nat
  BY <1>2
<1>4. \/ /\ attempts' = atts /\ spawned' = [spawned EXCEPT ![n] = base]
         /\ \E h \in Nat : h >= hist /\ burst' = [burst EXCEPT ![n] = h]
      \/ /\ next > BurstLimit /\ burst' = [burst EXCEPT ![n] = next]
         /\ attempts' = attempts /\ spawned' = spawned
      \/ /\ next <= BurstLimit /\ burst' = [burst EXCEPT ![n] = next]
         /\ Len(attempts) < MaxAttempts
         /\ attempts' = Append(atts, NewAttempt(n, "reconnect"))
         /\ spawned' = [spawned EXCEPT ![n] = base + 1]
  <2>1. \/ /\ attempts' = atts /\ spawned' = [spawned EXCEPT ![n] = base]
           /\ burst' = [burst EXCEPT ![n] = hist] \/ burst' = [burst EXCEPT ![n] = next]
        \/ /\ next > BurstLimit /\ burst' = [burst EXCEPT ![n] = next]
           /\ attempts' = attempts /\ spawned' = spawned
        \/ /\ ~(next > BurstLimit) /\ burst' = [burst EXCEPT ![n] = next]
           /\ Len(attempts) < MaxAttempts
           /\ attempts' = Append(atts, NewAttempt(n, "reconnect"))
           /\ spawned' = [spawned EXCEPT ![n] = base + 1]
    BY DEF Reconnect, Trips
  <2> HIDE DEF hist, next, base, atts
  <2>2. ~(next > BurstLimit) => next <= BurstLimit
    BY <1>2, <1>3
  <2>3. hist >= hist /\ next >= hist
    BY <1>3
  <2> QED
    BY <1>3, <2>1, <2>2, <2>3
<1>5. CASE /\ attempts' = atts /\ spawned' = [spawned EXCEPT ![n] = base]
           /\ \E h \in Nat : h >= hist /\ burst' = [burst EXCEPT ![n] = h]
  <2>1. PICK h \in Nat : h >= hist /\ burst' = [burst EXCEPT ![n] = h]
    BY <1>5
  <2>2. CASE manual
    <3>1. attempts' = Uncharged({n}) /\ spawned' = [spawned EXCEPT ![n] = 0]
      BY <1>5, <2>2
    <3>2. /\ m \in {n} => spawned'[m] = 0
          /\ m \notin {n} => burst'[m] = burst[m] /\ spawned'[m] = spawned[m]
      BY <1>2, <2>1, <3>1
    <3> QED
      BY <1>1, <3>1, <3>2, AnewWindow
  <2>3. CASE ~manual
    <3>1. attempts' = attempts /\ spawned'[m] = spawned[m] /\ burst'[m] >= burst[m]
      BY <1>2, <1>5, <2>1, <2>3
    <3>2. Untolled
      BY <3>1 DEF Untolled
    <3> QED
      BY <1>1, <3>1, <3>2, UntolledKept, KeptWindow DEF Kept
  <2> QED
    BY <2>2, <2>3
<1>6. CASE /\ next > BurstLimit /\ burst' = [burst EXCEPT ![n] = next]
           /\ attempts' = attempts /\ spawned' = spawned
  <2>1. ~manual
    BY <1>2, <1>6
  <2>2. burst'[m] >= burst[m] /\ spawned'[m] = spawned[m]
    BY <1>2, <1>3, <1>6, <2>1
  <2>3. Untolled
    BY <1>6 DEF Untolled
  <2> QED
    BY <1>1, <2>2, <2>3, UntolledKept, KeptWindow DEF Kept
<1>7. CASE /\ next <= BurstLimit /\ burst' = [burst EXCEPT ![n] = next]
           /\ Len(attempts) < MaxAttempts
           /\ attempts' = Append(atts, NewAttempt(n, "reconnect"))
           /\ spawned' = [spawned EXCEPT ![n] = base + 1]
  <2>1. /\ k \notin DOMAIN attempts /\ DOMAIN attempts' = DOMAIN attempts \cup {k}
        /\ attempts'[k].srv = n /\ attempts'[k].charged /\ attempts'[k].tries = 1
        /\ \A b \in DOMAIN attempts : attempts'[b] = atts[b]
    <3>1. atts = attempts \/ \E ns : atts = Uncharged(ns)
      OBVIOUS
    <3> HIDE DEF atts
    <3> QED
      BY <1>1, <1>7, <3>1, Appended DEF Joins
  <2>2. \A b \in DOMAIN attempts :
          /\ attempts[b].charged \in BOOLEAN
          /\ attempts'[b].srv = attempts[b].srv /\ attempts'[b].tries = attempts[b].tries
          /\ attempts'[b].charged <=> (attempts[b].charged /\ ~(manual /\ attempts[b].srv = n))
    <3>1. \A b \in DOMAIN attempts : attempts[b] \in Attempt /\ attempts[b].charged \in BOOLEAN
      BY <1>1, Looked DEF Attempt
    <3>2. CASE manual
      <4>1. \A b \in DOMAIN attempts : attempts'[b] = Uncharged({n})[b]
        BY <2>1, <3>2
      <4> QED
        BY <3>1, <3>2, <4>1 DEF Uncharged, Attempt
    <3>3. CASE ~manual
      BY <2>1, <3>1, <3>3
    <3> QED
      BY <3>2, <3>3
  <2>3. next = hist + 1
    BY <1>2, <1>3, <1>7
  <2>4. CASE m # n
    <3>1. Charged(m)' = Charged(m)
      BY <2>1, <2>2, <2>4 DEF Charged, Of
    <3>2. \A a \in Charged(m) : attempts'[a].tries = attempts[a].tries
      BY <2>2 DEF Charged, Of
    <3>3. burst'[m] >= burst[m] /\ spawned'[m] = spawned[m]
      BY <1>2, <1>7, <2>4
    <3> QED
      BY <1>1, <3>1, <3>2, <3>3, KeptWindow DEF Kept
  <2>5. CASE m = n
    <3> DEFINE C == IF manual THEN {} ELSE Charged(n)
               S == IF manual THEN {} ELSE Spawns(n)
    <3>1. /\ IsFiniteSet(C) /\ Cardinality(C) \in Nat /\ Cardinality(C) <= hist
          /\ IsFiniteSet(S) /\ Cardinality(S) = base
      <4>1. CASE manual
        BY <4>1, FS_EmptySet
      <4>2. CASE ~manual
        BY <1>1, <4>2, FiniteWindow DEF Window
      <4> QED
        BY <4>1, <4>2
    <3>2. Charged(n)' = C \cup {k} /\ k \notin C
      <4>1. CASE manual
        BY <2>1, <2>2, <4>1 DEF Charged, Of
      <4>2. CASE ~manual
        BY <2>1, <2>2, <4>2 DEF Charged, Of
      <4> QED
        BY <4>1, <4>2
    <3>3. Spawns(n)' = S \cup {<<k, 1>>} /\ <<k, 1>> \notin S
      <4>1. 1 \in 1..Tries /\ \A t \in 1..Tries : t <= 1 <=> t = 1
        BY <1>2
      <4>2. \A p \in {k} \X (1..Tries) : p[2] <= attempts'[p[1]].tries <=> p = <<k, 1>>
        BY <2>1, <4>1
      <4>3. CASE manual
        <5>1. Charged(n)' = {k} /\ S = {}
          BY <3>2, <4>3
        <5> QED
          BY <4>1, <4>2, <5>1 DEF Spawns
      <4>4. CASE ~manual
        <5>1. Charged(n)' = Charged(n) \cup {k} /\ S = Spawns(n) /\ k \notin Charged(n)
          BY <3>2, <4>4
        <5>2. \A p \in Charged(n) \X (1..Tries) : attempts'[p[1]].tries = attempts[p[1]].tries
          BY <2>2 DEF Charged, Of
        <5>3. \A p \in Charged(n)' \X (1..Tries) :
                p \in Charged(n) \X (1..Tries) \/ p \in {k} \X (1..Tries)
          BY <5>1
        <5>4. <<k, 1>> \in Charged(n)' \X (1..Tries)
          BY <4>1, <5>1
        <5>5. \A p \in Charged(n) \X (1..Tries) : p \in Charged(n)' \X (1..Tries) /\ p # <<k, 1>>
          BY <5>1
        <5> HIDE DEF k, S
        <5>6. \A p : p \in Spawns(n)' <=> p \in Spawns(n) \/ p = <<k, 1>>
          BY <4>1, <4>2, <5>2, <5>3, <5>4, <5>5 DEF Spawns
        <5>7. <<k, 1>> \notin Spawns(n)
          BY <5>5 DEF Spawns
        <5> QED
          BY <5>1, <5>6, <5>7
      <4> QED
        BY <4>3, <4>4
    <3> HIDE DEF C, S, k
    <3>4. /\ Cardinality(C \cup {k}) = Cardinality(C) + 1
          /\ Cardinality(S \cup {<<k, 1>>}) = base + 1
      BY <3>1, <3>2, <3>3, FS_AddElement
    <3>5. /\ Cardinality(Charged(n))' = Cardinality(C) + 1
          /\ Cardinality(Spawns(n))' = base + 1
      BY <3>2, <3>3, <3>4
    <3>6. burst'[n] = next /\ spawned'[n] = base + 1
      BY <1>2, <1>7
    <3>7. Cardinality(C) + 1 <= next
      BY <1>3, <2>3, <3>1
    <3> HIDE DEF hist, next, base
    <3>8. Cardinality(C) + 1 <= BurstLimit
      BY <1>2, <1>3, <1>7, <3>1, <3>7
    <3> QED
      BY <2>5, <3>5, <3>6, <3>7, <3>8 DEF Window
  <2> QED
    BY <2>4, <2>5
<1> QED
  BY <1>4, <1>5, <1>6, <1>7

(* The other steps of a chain charge nothing.                              *)
LEMMA ChainUntolled ==
  ASSUME TypeOK, NEW a \in DOMAIN attempts, Chain(a), ~Retry(a)
  PROVE  Untolled /\ burst' = burst /\ spawned' = spawned
<1>1. attempts[a] \in Attempt
  BY Looked
<1>2. \E r \in {[attempts[a] EXCEPT !.stage = s] : s \in {"listing", "cleanup", "sleeping", "done", "failed"}}
              \cup {[attempts[a] EXCEPT !.stage = "listing", !.conn = Len(conns) + 1]} :
        attempts' = [attempts EXCEPT ![a] = r]
  BY DEF Chain, InitialConnected, InitialFailed, InitialListed, ConnectFailed, Reconnected,
         Relisted, RelistFailed, CleanedUp, TryFailed, Over
<1>3. PICK r : /\ attempts' = [attempts EXCEPT ![a] = r]
               /\ r.srv = attempts[a].srv /\ r.charged = attempts[a].charged
               /\ r.tries = attempts[a].tries
  BY <1>1, <1>2 DEF Attempt
<1>4. burst' = burst /\ spawned' = spawned
  BY DEF Chain, InitialConnected, InitialFailed, InitialListed, ConnectFailed, Reconnected,
         Relisted, RelistFailed, CleanedUp, unchangedByTry
<1> QED
  BY <1>3, <1>4 DEF Untolled

(* Every step keeps what is known of the windows.                          *)
LEMMA WindowStep ==
  ASSUME IInv, [Next]_vars, TypeOK', NEW m \in Servers
  PROVE  Window(m)'
<1>1. TypeOK /\ Window(m) /\ burst[m] >= burst[m]
  <2>1. TypeOK /\ Window(m)
    BY DEF IInv, ServerInv
  <2>2. burst[m] \in 0..(BurstLimit + 1) /\ BurstLimit \in Nat
    BY <2>1, McpAssumption DEF TypeOK
  <2> QED
    BY <2>1, <2>2
<1>2. ASSUME Untolled, burst' = burst, spawned' = spawned
      PROVE  Window(m)'
  BY <1>1, <1>2, UntolledKept, KeptWindow DEF Kept
<1>3. ASSUME UNCHANGED <<attempts, burst, spawned>>
      PROVE  Window(m)'
  BY <1>2, <1>3 DEF Untolled
<1>4. ASSUME NEW names \in SUBSET Servers, ConnectServers(names)
      PROVE  Window(m)'
  <2>1. PICK ids, server : Started(ids, server, ToConnect(names))
    BY <1>1, <1>4, CallStarts
  <2>2. Untolled
    BY <2>1 DEF Started, Untolled
  <2> QED
    BY <1>2, <1>4, <2>2 DEF ConnectServers
<1>5. ASSUME NEW n \in Servers, ManualReconnect(n) \/ ToolReconnect(n)
      PROVE  Window(m)'
  <2>1. PICK manual \in BOOLEAN : Reconnect(n, conns, manual)
    BY <1>5 DEF ManualReconnect, ToolReconnect
  <2> QED
    BY <2>1, ReconnectWindow
<1>6. ASSUME NEW n \in Servers, WindowPasses(n) \/ DisconnectServer(n)
      PROVE  Window(m)'
  <2>1. /\ attempts' = Uncharged({n}) /\ burst' = [burst EXCEPT ![n] = 0]
        /\ spawned' = [spawned EXCEPT ![n] = 0]
    BY <1>6 DEF WindowPasses, DisconnectServer, Forget
  <2>2. spawned \in [Servers -> Nat] /\ burst \in [Servers -> 0..(BurstLimit + 1)]
    BY <1>1 DEF TypeOK
  <2>3. /\ m \in {n} => spawned'[m] = 0
        /\ m \notin {n} => burst'[m] = burst[m] /\ spawned'[m] = spawned[m]
    BY <2>1, <2>2
  <2> QED
    BY <1>1, <2>1, <2>3, AnewWindow
<1>7. CASE DisconnectAll \/ AllDisconnected
  <2>1. attempts' = Uncharged(Servers) /\ spawned' = [n \in Servers |-> 0]
    BY <1>7 DEF DisconnectAll, AllDisconnected
  <2> QED
    BY <1>1, <2>1, AnewWindow
<1>8. ASSUME NEW n \in Servers, RefreshServerTools(n) \/ Disconnected(n)
      PROVE  Window(m)'
  BY <1>3, <1>8 DEF RefreshServerTools, Disconnected, maps
<1>9. CASE EndStartup
  BY <1>3, <1>9 DEF EndStartup
<1>10. ASSUME NEW c \in refreshing, Refreshed(c)
       PROVE  Window(m)'
  BY <1>3, <1>10 DEF Refreshed
<1>11. ASSUME NEW c \in DOMAIN conns, TransportLost(c)
       PROVE  Window(m)'
  <2>1. conns[c].srv \in Servers
    BY <1>1, Looked DEF Connection
  <2>2. PICK n \in Servers : n = conns[c].srv
    BY <2>1
  <2>3. \/ \E cs : Reconnect(n, cs, FALSE)
        \/ UNCHANGED <<attempts, burst, spawned>>
    BY <1>11, <2>2 DEF TransportLost
  <2> QED
    BY <1>3, <2>3, ReconnectWindow
<1>12. ASSUME NEW a \in DOMAIN attempts, Chain(a)
       PROVE  Window(m)'
  BY <1>1, <1>2, <1>12, RetryWindow, ChainUntolled
<1>13. CASE UNCHANGED vars
  BY <1>3, <1>13 DEF vars, maps
<1> QED
  BY <1>4, <1>5, <1>6, <1>7, <1>8, <1>9, <1>10, <1>11, <1>12, <1>13 DEF Next, Settle

-----------------------------------------------------------------------------
(* The theorems.                                                           *)

(* What is known of the servers and of their windows holds whatever is     *)
(* overtaken by what, for any number of servers, attempts and connections. *)
THEOREM Invariance == Spec => []IInv
<1>1. Init => IInv
  BY InitServer, InitWindow DEF IInv
<1>2. IInv /\ [Next]_vars => IInv'
  <2> SUFFICES ASSUME IInv, [Next]_vars PROVE IInv'
    OBVIOUS
  <2>1. ServerInv'
    BY ServerStep DEF IInv
  <2>2. \A m \in Servers : Window(m)'
    BY <2>1, WindowStep DEF ServerInv
  <2> QED
    BY <2>1, <2>2 DEF IInv
<1> QED
  BY <1>1, <1>2, PTL DEF Spec

(* The tool registry of a quiet manager agrees with the connections, and   *)
(* what disconnectServer removed has neither a connection nor tools.       *)
THEOREM McpInvCorrect == Spec => []McpInv
<1>1. IInv => McpInv
  <2> SUFFICES ASSUME IInv PROVE McpInv
    OBVIOUS
  <2>1. TypeOK /\ Calls /\ \A n \in Servers : Server(n)
    BY DEF IInv, ServerInv
  <2>2. ToolsCurrent
    <3> SUFFICES ASSUME NEW n \in Servers, Quiet(n), conn[n] # 0, n \notin overtaken
                 PROVE  tools[n] \in {NoTools, Deferred, conn[n]}
      BY DEF ToolsCurrent
    <3>1. Agreeing(n)
      BY <2>1 DEF Server, Calm
    <3>2. Tasks(n) = {}
      BY <2>1 DEF Quiet, Calls, Tasks
    <3>3. Linked(n) = {}
      BY DEF Quiet, Linked, Revivals, Of
    <3> QED
      BY <3>1, <3>2, <3>3 DEF Agreeing
  <2>3. RemovedStays
    <3> SUFFICES ASSUME NEW n \in removed, closing = {}, n \notin overtaken
                 PROVE  conn[n] = 0 /\ tools[n] = NoTools
      BY DEF RemovedStays
    <3>1. n \in Servers
      BY <2>1 DEF TypeOK
    <3>2. Gone(n)
      BY <2>1, <3>1 DEF Server, Calm
    <3> QED
      BY <3>2 DEF Gone, Closing
  <2> QED
    BY <2>1, <2>2, <2>3 DEF McpInv
<1> QED
  BY <1>1, Invariance, PTL

(* No server is started more often in one crash window than                *)
(* RECONNECT_BURST_LIMIT attempts allow.                                   *)
THEOREM StormBoundCorrect == Spec => []StormBound
<1>1. IInv => StormBound
  <2> SUFFICES ASSUME IInv, NEW n \in Servers PROVE spawned[n] <= BurstLimit * Tries
    BY DEF StormBound
  <2>1. TypeOK /\ Window(n) /\ BurstLimit \in Nat /\ Tries \in Nat
    BY McpAssumption DEF IInv, ServerInv
  <2>2. IsFiniteSet(Charged(n)) /\ Cardinality(Charged(n)) \in Nat
    BY <2>1, FiniteWindow
  <2>3. IsFiniteSet(1..Tries) /\ Cardinality(1..Tries) = Tries
    BY <2>1, FS_Interval
  <2>4. /\ IsFiniteSet(Charged(n) \X (1..Tries))
        /\ Cardinality(Charged(n) \X (1..Tries)) = Cardinality(Charged(n)) * Tries
    BY <2>2, <2>3, FS_Product
  <2>5. Cardinality(Spawns(n)) <= Cardinality(Charged(n) \X (1..Tries))
    <3>1. Spawns(n) \subseteq Charged(n) \X (1..Tries)
      BY DEF Spawns
    <3> QED
      BY <2>4, <3>1, FS_Subset
  <2>6. \A k \in Nat : k <= BurstLimit => k * Tries <= BurstLimit * Tries
    BY <2>1
  <2>7. Cardinality(Charged(n)) * Tries <= BurstLimit * Tries
    BY <2>1, <2>2, <2>6 DEF Window
  <2>8. spawned[n] = Cardinality(Spawns(n)) /\ Cardinality(Spawns(n)) \in Nat
    BY <2>1, FiniteWindow DEF Window
  <2> QED
    BY <2>1, <2>2, <2>4, <2>5, <2>7, <2>8
<1> QED
  BY <1>1, Invariance, PTL

(* A server has one live reconnect attempt, unless a disconnect overtook   *)
(* one.                                                                    *)
THEOREM OneAttemptCorrect == Spec => []OneAttempt
<1>1. IInv => OneAttempt
  <2> SUFFICES ASSUME IInv, NEW a \in DOMAIN attempts, NEW b \in DOMAIN attempts,
                      attempts[a].kind = "reconnect", attempts[b].kind = "reconnect",
                      attempts[a].srv = attempts[b].srv, Live(a), Live(b),
                      attempts[a].srv \notin overtaken
               PROVE  a = b
    BY DEF OneAttempt
  <2>1. attempts[a].srv \in Servers
    BY Looked DEF IInv, ServerInv
  <2>2. Alone(attempts[a].srv)
    BY <2>1 DEF IInv, ServerInv, Server, Calm
  <2>3. {a, b} \subseteq Revivals(attempts[a].srv)
    BY DEF Revivals, Of
  <2> QED
    BY <2>2, <2>3 DEF Alone
<1> QED
  BY <1>1, Invariance, PTL

(* No open transport is left behind, and a quiet manager holds none that   *)
(* is closed.                                                              *)
THEOREM NoZombieCorrect == Spec => []NoZombie
<1>1. IInv => NoZombie
  <2> SUFFICES ASSUME IInv, NEW c \in DOMAIN conns, NEW n, n = conns[c].srv
               PROVE  /\ conns[c].st = "open" /\ conn[n] # c => conns[c].late \/ n \in overtaken
                      /\ conn[n] = c /\ Quiet(n) => conns[c].st # "closed"
    BY DEF NoZombie
  <2>1. TypeOK /\ n \in Servers /\ c # 0
    BY Looked DEF IInv, ServerInv, Connection
  <2>2. Server(n) /\ c \in Links(n)
    BY <2>1 DEF IInv, ServerInv, Links
  <2>3. conns[c].st = "open" /\ conn[n] # c => conns[c].late \/ n \in overtaken
    BY <2>2 DEF Server, Calm, Owned
  <2>4. ASSUME conn[n] = c, Quiet(n) PROVE conns[c].st # "closed"
    <3>1. ~Closing(n)
      BY <2>4 DEF Quiet, Closing
    <3>2. Revivals(n) = {}
      BY <2>4 DEF Quiet, Revivals, Of
    <3> QED
      BY <2>1, <2>2, <2>4, <3>1, <3>2 DEF Server, Doomed
  <2> QED
    BY <2>3, <2>4
<1> QED
  BY <1>1, Invariance, PTL

=============================================================================
