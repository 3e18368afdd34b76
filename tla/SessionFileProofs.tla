-------------------------- MODULE SessionFileProofs --------------------------
(***************************************************************************)
(* Proofs about session files, for every number of entries, sessions,      *)
(* operations, failures and starts.                                        *)
(***************************************************************************)
EXTENDS SessionFile, FiniteSetTheorems, SequenceTheorems, TLAPS

-----------------------------------------------------------------------------
(* The inductive invariant.                                                *)

(* The tasks that are inside an atomic rewrite, and the commands.          *)
Inside   == {t \in ToSet(tasks) : t.at # "queued"}
Commands == {t \in ToSet(tasks) : t.op \in {"drain", "close"}}

OneInside(ts)  == \A i, j \in DOMAIN ts : ts[i].at # "queued" /\ ts[j].at # "queued" => i = j
OneCommand(ts) ==
  \A i, j \in DOMAIN ts :
    ts[i].op \in {"drain", "close"} /\ ts[j].op \in {"drain", "close"} => i = j

(* A command waits alone, in a manager that is live; one that begins a     *)
(* session has a name left, and one that switches names another session.   *)
(* Only rewrites are carried out in steps, and a crash leaves no task.     *)
Fits(t) ==
  /\ t.op \in {"drain", "close"} => mode = "live"
  /\ t.op = "drain" =>
       \/ /\ t.next \in {"new", "fork"}
          /\ created < MaxSessions
       \/ /\ t.next = "switch"
          /\ t.file \in (1..created) \ {session}
  /\ t.at # "queued" => t.op = "rewrite" /\ t.file \in 1..created

ChainInv ==
  /\ OneCommand(tasks)
  /\ \A t \in ToSet(tasks) : Fits(t)
  /\ mode = "down" => tasks = <<>>

(* A session that was not named yet has left no trace, and no two backups  *)
(* of a session have the same name.                                        *)
Distinct(q) == \A k, l \in DOMAIN q : q[k].name = q[l].name => k = l

FreshInv ==
  /\ session \in 1..created
  /\ \A s \in Sessions : s > created =>
       primary[s] = <<>> /\ backup[s] = <<>> /\ promised[s] = [lines |-> {}, rev |-> 0]
  /\ \A s \in Sessions : Distinct(backup[s])

(* What a file of session s may hold: its header and some of its entries,  *)
(* in order, or nothing after a rewrite in place that failed.              *)
Ascending(lines) == \A a, b \in DOMAIN lines : a < b => lines[a] < lines[b]

Good(s, c) == c.hdr = s /\ Ascending(c.lines) /\ ToSet(c.lines) \subseteq owned[s]
Fair(s, c) == Good(s, c) \/ (torn /\ c = Blank)

FilesGood ==
  \A s \in Sessions :
    /\ \A k \in DOMAIN primary[s] : Fair(s, primary[s][k])
    /\ \A k \in DOMAIN backup[s] : Fair(s, backup[s][k].text)
    /\ owned[s] \subseteq 1..recorded

(* What is written over the file of s loses nothing of what was promised.  *)
Covers(c, s) == ~torn => promised[s].lines \subseteq ToSet(c.lines) /\ promised[s].rev <= c.rev

MemoryGood ==
  /\ Ascending(entries) /\ ToSet(entries) \subseteq 1..recorded
  /\ mode \in {"live", "closed"} => Good(session, Body(entries)) /\ Covers(Body(entries), session)
  /\ mode = "loading" => primary[session] # <<>> /\ Inside = {}

(* When the next entry takes the hot path, the file ends where it belongs. *)
Synced ==
  mode = "live" /\ ~diskFailure /\ ~Cold /\ Inside = {} =>
    /\ primary[session] # <<>>
    /\ primary[session][1].hdr = session /\ primary[session][1].lines = entries

(* The one rewrite under way is that of the session in memory; the old     *)
(* file is on its path or is its newest backup, until the body replaces it. *)
Replaces(t) ==
  /\ mode \in {"live", "closed"} /\ t.file = session
  /\ Good(session, t.body) /\ Covers(t.body, session)
  /\ ToSet(t.body.lines) \subseteq ToSet(entries) /\ t.body.rev <= rev
  /\ mode = "live" /\ ~diskFailure => t.body.lines = entries
  /\ t.at \in {"retry", "rollback"} /\ primary[session] = <<>> =>
       backup[session] # <<>> /\ Last(backup[session]).name = t.moved
  /\ t.at \in {"retry", "rollback"} /\ primary[session] # <<>> =>
       \A k \in DOMAIN backup[session] : backup[session][k].name # t.moved
  /\ t.at = "unlink" => primary[session] = <<t.body>>

WindowGood == OneInside(tasks) /\ \A t \in Inside : Replaces(t)

(* A session that is about to be loaded has a file.                        *)
SwitchGood == \A t \in ToSet(tasks) : t.op = "drain" /\ t.next = "switch" => primary[t.file] # <<>>

AllStored == ~torn => \A s \in Sessions : Stored(s)

CleanInv == FilesGood /\ MemoryGood /\ Synced /\ WindowGood /\ SwitchGood /\ AllStored

ShapeInv == TypeOK /\ ChainInv /\ FreshInv

IInv == ShapeInv /\ (~overlap => CleanInv)

-----------------------------------------------------------------------------
(* Sequences.                                                              *)

(* RemoveAt closes the gap.                                                *)
LEMMA Removed ==
  ASSUME NEW S, NEW s \in Seq(S), NEW i \in DOMAIN s
  PROVE  /\ RemoveAt(s, i) \in Seq(S)
         /\ Len(RemoveAt(s, i)) = Len(s) - 1
         /\ \A j \in 1..(Len(s) - 1) :
              RemoveAt(s, i)[j] = IF j < i THEN s[j] ELSE s[j + 1]
<1>1. Len(s) \in Nat /\ DOMAIN s = 1..Len(s) /\ i \in 1..Len(s)
  BY LenProperties
<1>2. \A j \in 1..Len(s) : s[j] \in S
  BY ElementOfSeq
<1> DEFINE u == SubSeq(s, 1, i - 1)
           v == SubSeq(s, i + 1, Len(s))
<1>3. u \in Seq(S) /\ Len(u) = i - 1 /\ \A j \in 1..(i - 1) : u[j] = s[j]
  BY <1>1, <1>2, SubSeqProperties
<1>4. v \in Seq(S) /\ Len(v) = Len(s) - i /\ \A j \in 1..(Len(s) - i) : v[j] = s[j + i]
  <2>1. /\ v \in Seq(S)
        /\ Len(v) = IF i + 1 <= Len(s) THEN Len(s) - (i + 1) + 1 ELSE 0
        /\ \A j \in 1..(Len(s) - (i + 1) + 1) : v[j] = s[(i + 1) + j - 1]
    BY <1>1, <1>2, SubSeqProperties, i + 1 \in Int, \A k \in (i + 1)..Len(s) : s[k] \in S
  <2> QED
    BY <1>1, <2>1
<1> HIDE DEF u, v
<1>5. /\ u \o v \in Seq(S) /\ Len(u \o v) = Len(s) - 1
      /\ \A j \in 1..(Len(s) - 1) : (u \o v)[j] = IF j < i THEN s[j] ELSE s[j + 1]
  <2>1. /\ u \o v \in Seq(S) /\ Len(u \o v) = Len(u) + Len(v)
        /\ \A j \in 1..(Len(u) + Len(v)) :
             (u \o v)[j] = IF j <= Len(u) THEN u[j] ELSE v[j - Len(u)]
    BY <1>3, <1>4, ConcatProperties
  <2>2. ASSUME NEW j \in 1..(Len(s) - 1)
        PROVE  (u \o v)[j] = IF j < i THEN s[j] ELSE s[j + 1]
    <3>1. (u \o v)[j] = IF j <= i - 1 THEN u[j] ELSE v[j - (i - 1)]
      BY <1>1, <1>3, <1>4, <2>1
    <3>2. CASE j < i
      BY <1>1, <1>3, <3>1, <3>2
    <3>3. CASE ~(j < i)
      <4>1. j - (i - 1) \in 1..(Len(s) - i) /\ (j - (i - 1)) + i = j + 1 /\ ~(j <= i - 1)
        BY <1>1, <3>3
      <4> QED
        BY <1>4, <3>1, <3>3, <4>1
    <3> QED
      BY <3>2, <3>3
  <2> QED
    BY <1>1, <1>3, <1>4, <2>1, <2>2
<1>6. RemoveAt(s, i) = u \o v
  BY <1>1 DEF RemoveAt, u, v
<1> QED
  BY <1>1, <1>5, <1>6

(* The place that a place of RemoveAt(s, i) had in s.                      *)
Old(i, j) == IF j < i THEN j ELSE j + 1

(* RemoveAt by places: each place had another one before, none of them i.  *)
LEMMA Settled ==
  ASSUME NEW S, NEW s \in Seq(S), NEW i \in DOMAIN s
  PROVE  LET r == RemoveAt(s, i) IN
         /\ r \in Seq(S)
         /\ \A j \in DOMAIN r : Old(i, j) \in DOMAIN s /\ Old(i, j) # i /\ r[j] = s[Old(i, j)]
         /\ \A j, l \in DOMAIN r : Old(i, j) = Old(i, l) => j = l
         /\ \A k \in DOMAIN s : k # i => \E j \in DOMAIN r : k = Old(i, j)
<1> DEFINE r == RemoveAt(s, i)
           n == Len(s)
<1>1. n \in Nat /\ DOMAIN s = 1..n /\ i \in 1..n
  BY LenProperties
<1>2. /\ r \in Seq(S) /\ Len(r) = n - 1
      /\ \A j \in 1..(n - 1) : r[j] = IF j < i THEN s[j] ELSE s[j + 1]
  BY Removed
<1>3. DOMAIN r = 1..(n - 1)
  BY <1>1, <1>2, LenProperties
<1> HIDE DEF r, n
<1>4. \A j \in 1..(n - 1) : Old(i, j) \in 1..n /\ Old(i, j) # i /\ r[j] = s[Old(i, j)]
  BY <1>1, <1>2 DEF Old
<1>5. \A j, l \in 1..(n - 1) : Old(i, j) = Old(i, l) => j = l
  BY <1>1 DEF Old
<1>6. ASSUME NEW k \in 1..n, k # i PROVE \E j \in 1..(n - 1) : k = Old(i, j)
  <2>1. CASE k < i
    BY <1>1, <1>6, <2>1 DEF Old
  <2>2. CASE k > i
    <3>1. k - 1 \in 1..(n - 1) /\ Old(i, k - 1) = k
      BY <1>1, <1>6, <2>2 DEF Old
    <3> QED
      BY <3>1
  <2> QED
    BY <1>1, <1>6, <2>1, <2>2
<1> QED
  BY <1>1, <1>2, <1>3, <1>4, <1>5, <1>6 DEF r

(* RemoveAt, by what the sequence holds.                                   *)
LEMMA SettledSet ==
  ASSUME NEW S, NEW s \in Seq(S), NEW i \in DOMAIN s
  PROVE  /\ ToSet(RemoveAt(s, i)) \subseteq ToSet(s)
         /\ ToSet(s) \subseteq ToSet(RemoveAt(s, i)) \cup {s[i]}
<1> DEFINE r == RemoveAt(s, i)
<1>1. /\ \A j \in DOMAIN r : Old(i, j) \in DOMAIN s /\ r[j] = s[Old(i, j)]
      /\ \A k \in DOMAIN s : k # i => \E j \in DOMAIN r : k = Old(i, j)
  BY Settled
<1> HIDE DEF r
<1>2. ToSet(r) \subseteq ToSet(s)
  BY <1>1 DEF ToSet
<1>3. ASSUME NEW k \in DOMAIN s PROVE s[k] \in ToSet(r) \cup {s[i]}
  <2>1. CASE k # i
    <3>1. PICK j \in DOMAIN r : k = Old(i, j)
      BY <1>1, <2>1
    <3> QED
      BY <1>1, <3>1 DEF ToSet
  <2> QED
    BY <2>1
<1> QED
  BY <1>2, <1>3 DEF ToSet, r

(* One element more.                                                       *)
LEMMA Added ==
  ASSUME NEW S, NEW s \in Seq(S), NEW e \in S
  PROVE  LET r == Append(s, e) IN
         /\ r \in Seq(S) /\ r # <<>> /\ Last(r) = e /\ Len(r) = Len(s) + 1 /\ r[Len(s) + 1] = e
         /\ ToSet(r) = ToSet(s) \cup {e}
         /\ \A k \in DOMAIN r : (k \in DOMAIN s /\ r[k] = s[k]) \/ (k = Len(s) + 1 /\ r[k] = e)
         /\ \A k \in DOMAIN s : k \in DOMAIN r /\ r[k] = s[k] /\ k < Len(s) + 1
         /\ Len(s) + 1 \in DOMAIN r
<1> DEFINE r == Append(s, e)
           n == Len(s)
<1>1. n \in Nat /\ DOMAIN s = 1..n
  BY LenProperties
<1>2. r \in Seq(S) /\ r # <<>> /\ Len(r) = n + 1 /\ r[n + 1] = e /\ \A k \in 1..n : r[k] = s[k]
  BY AppendProperties
<1>3. DOMAIN r = 1..(n + 1)
  BY <1>1, <1>2, LenProperties
<1> HIDE DEF r, n
<1>4. \A k \in 1..(n + 1) : k \in 1..n \/ k = n + 1
  BY <1>1
<1>5. ToSet(r) \subseteq ToSet(s) \cup {e}
  BY <1>1, <1>2, <1>3, <1>4 DEF ToSet
<1>6. ToSet(s) \subseteq ToSet(r) /\ e \in ToSet(r)
  BY <1>1, <1>2, <1>3 DEF ToSet
<1>7. Last(r) = e
  BY <1>2 DEF Last
<1> QED
  BY <1>1, <1>2, <1>3, <1>4, <1>5, <1>6, <1>7 DEF r, n

(* One element changed.                                                    *)
LEMMA Changed ==
  ASSUME NEW S, NEW s \in Seq(S), NEW i \in DOMAIN s, NEW e \in S
  PROVE  LET r == [s EXCEPT ![i] = e] IN
         /\ r \in Seq(S) /\ DOMAIN r = DOMAIN s
         /\ r[i] = e /\ \A k \in DOMAIN s : k # i => r[k] = s[k]
         /\ ToSet(r) \subseteq ToSet(s) \cup {e} /\ e \in ToSet(r)
<1> DEFINE r == [s EXCEPT ![i] = e]
<1>1. Len(s) \in Nat /\ DOMAIN s = 1..Len(s)
  BY LenProperties
<1>2. r \in Seq(S) /\ Len(r) = Len(s) /\ \A j \in 1..Len(s) : r[j] = IF j = i THEN e ELSE s[j]
  BY <1>1, ExceptSeq
<1>3. DOMAIN r = DOMAIN s
  BY <1>1, <1>2, LenProperties
<1> HIDE DEF r
<1> QED
  BY <1>1, <1>2, <1>3 DEF ToSet, r

(* The newest backup becomes the file again.                               *)
LEMMA Shortened ==
  ASSUME NEW S, NEW s \in Seq(S), s # <<>>
  PROVE  /\ Len(s) \in DOMAIN s /\ Last(s) = s[Len(s)] /\ Last(s) \in S
         /\ Front(s) \in Seq(S) /\ DOMAIN Front(s) = DOMAIN s \ {Len(s)}
         /\ \A k \in DOMAIN Front(s) : Front(s)[k] = s[k]
<1> DEFINE n == Len(s)
           r == SubSeq(s, 1, n - 1)
<1>1. n \in Nat \ {0} /\ DOMAIN s = 1..n /\ \A k \in 1..n : s[k] \in S
  BY EmptySeq, LenProperties, ElementOfSeq
<1>2. /\ r \in Seq(S) /\ Len(r) = (IF 1 <= n - 1 THEN (n - 1) - 1 + 1 ELSE 0)
      /\ \A k \in 1..((n - 1) - 1 + 1) : r[k] = s[1 + k - 1]
  BY <1>1, SubSeqProperties, 1 \in Int, n - 1 \in Int, \A k \in 1..(n - 1) : s[k] \in S
<1>3. DOMAIN r = 1..Len(r) /\ Len(r) = n - 1
  BY <1>1, <1>2, LenProperties
<1> HIDE DEF r
<1>4. ASSUME NEW k \in 1..(n - 1) PROVE r[k] = s[k]
  <2>1. 1 + k - 1 = k /\ k \in 1..((n - 1) - 1 + 1)
    BY <1>1
  <2> QED
    BY <1>2, <2>1
<1>5. 1..(n - 1) = (1..n) \ {n}
  BY <1>1
<1> QED
  BY <1>1, <1>2, <1>3, <1>4, <1>5 DEF Last, Front, r

(* A path to an earlier entry.                                             *)
LEMMA Prefix ==
  ASSUME NEW S, NEW s \in Seq(S), NEW n \in DOMAIN s
  PROVE  LET r == SubSeq(s, 1, n) IN
         /\ r \in Seq(S) /\ DOMAIN r \subseteq DOMAIN s /\ \A k \in DOMAIN r : r[k] = s[k]
         /\ ToSet(r) \subseteq ToSet(s)
<1> DEFINE r == SubSeq(s, 1, n)
<1>1. Len(s) \in Nat /\ DOMAIN s = 1..Len(s) /\ n \in 1..Len(s) /\ \A k \in 1..Len(s) : s[k] \in S
  BY LenProperties, ElementOfSeq
<1>2. /\ r \in Seq(S) /\ Len(r) = (IF 1 <= n THEN n - 1 + 1 ELSE 0)
      /\ \A k \in 1..(n - 1 + 1) : r[k] = s[1 + k - 1]
  BY <1>1, SubSeqProperties, 1 \in Int, n \in Int, \A k \in 1..n : s[k] \in S
<1>3. DOMAIN r = 1..n
  BY <1>1, <1>2, LenProperties
<1> HIDE DEF r
<1>4. \A k \in 1..n : k \in DOMAIN s /\ r[k] = s[k]
  BY <1>1, <1>2
<1> QED
  BY <1>2, <1>3, <1>4 DEF ToSet, r

-----------------------------------------------------------------------------
(* Types.                                                                  *)

\* The bounds are numbers.
LEMMA Bounds ==
  /\ MaxEntries \in Nat /\ MaxSessions \in Nat /\ MaxSessions >= 1 /\ MaxOps \in Nat
  /\ MaxErrors \in Nat /\ MaxStarts \in Nat /\ Sessions = 1..MaxSessions
BY SessionAssumption DEF Sessions

\* What the manager holds in memory.
MemoryType ==
  /\ mode \in {"live", "loading", "closed", "down"}
  /\ session \in Sessions /\ header \in Sessions
  /\ entries \in Seq(Entries)
  /\ rev \in Nat
  /\ fileIsCurrent \in BOOLEAN /\ rewriteRequired \in BOOLEAN /\ forceFileCreation \in BOOLEAN
  /\ writer \in Writers
  /\ diskEpoch \in Nat /\ tail \in Nat
  /\ diskFailure \in BOOLEAN

\* What the directory holds.
FilesType ==
  /\ primary \in [Sessions -> Seq(Content)] /\ \A s \in Sessions : Len(primary[s]) <= 1
  /\ backup \in [Sessions -> Seq(Backup)]

\* The counters and the history.
CountType ==
  /\ ops \in 0..MaxOps /\ errors \in 0..MaxErrors /\ starts \in 0..MaxStarts
  /\ recorded \in 0..MaxEntries /\ created \in Sessions
  /\ owned \in [Sessions -> SUBSET Entries]
  /\ promised \in [Sessions -> [lines : SUBSET Entries, rev : Nat]]
  /\ overlap \in BOOLEAN /\ torn \in BOOLEAN

(* The type invariant in parts.                                            *)
LEMMA TypeParts == TypeOK <=> MemoryType /\ tasks \in Seq(Task) /\ FilesType /\ CountType
BY DEF TypeOK, MemoryType, FilesType, CountType, flags

(* The same, after a step.                                                 *)
LEMMA TypePartsAfter ==
  TypeOK' <=> MemoryType' /\ tasks' \in Seq(Task) /\ FilesType' /\ CountType'
BY DEF TypeOK, MemoryType, FilesType, CountType, flags

(* The fields of a file.                                                   *)
LEMMA ContentFields ==
  ASSUME NEW c \in Content
  PROVE  /\ c.hdr \in 0..MaxSessions /\ c.rev \in Nat /\ c.lines \in Seq(Entries)
         /\ c = [hdr |-> c.hdr, rev |-> c.rev, lines |-> c.lines]
         /\ ToSet(c.lines) \subseteq Entries
<1>1. /\ c.hdr \in 0..MaxSessions /\ c.rev \in Nat /\ c.lines \in Seq(Entries)
      /\ c = [hdr |-> c.hdr, rev |-> c.rev, lines |-> c.lines]
  BY DEF Content
<1>2. ToSet(c.lines) \subseteq Entries
  BY <1>1, LenProperties, ElementOfSeq DEF ToSet
<1> QED
  BY <1>1, <1>2

(* An empty file is a file.                                                *)
LEMMA BlankType == Blank \in Content /\ Blank.hdr = 0 /\ Blank.lines = <<>> /\ Blank.rev = 0
BY Bounds, EmptySeq DEF Blank, Content

(* The header, a revision and some entries make a file.                    *)
LEMMA MadeContent ==
  ASSUME NEW h \in Sessions, NEW r \in Nat, NEW l \in Seq(Entries)
  PROVE  LET c == [hdr |-> h, rev |-> r, lines |-> l] IN
         c \in Content /\ c.hdr = h /\ c.rev = r /\ c.lines = l
BY Bounds DEF Content

(* What is in memory makes a file.                                         *)
LEMMA BodyType ==
  ASSUME MemoryType
  PROVE  /\ Body(entries) \in Content
         /\ Body(entries).hdr = header /\ Body(entries).rev = rev /\ Body(entries).lines = entries
BY MadeContent DEF Body, MemoryType

(* A session has one file or none.                                         *)
LEMMA FileThere ==
  ASSUME FilesType, NEW s \in Sessions
  PROVE  /\ primary[s] \in Seq(Content) /\ backup[s] \in Seq(Backup)
         /\ primary[s] # <<>> => /\ primary[s][1] \in Content /\ DOMAIN primary[s] = {1}
                                 /\ primary[s] = <<primary[s][1]>>
         /\ primary[s] = <<>> => DOMAIN primary[s] = {}
         /\ OnPath(s) \in Content
<1> DEFINE p == primary[s]
<1>1. p \in Seq(Content) /\ Len(p) <= 1 /\ backup[s] \in Seq(Backup)
  BY DEF FilesType
<1> HIDE DEF p
<1>2. ASSUME p # <<>>
      PROVE  p[1] \in Content /\ DOMAIN p = {1} /\ p = <<p[1]>>
  <2>1. Len(p) = 1
    <3>1. Len(p) \in Nat \ {0}
      BY <1>1, <1>2, EmptySeq
    <3>2. \A n \in Nat \ {0} : n <= 1 => n = 1
      OBVIOUS
    <3> QED
      BY <1>1, <3>1, <3>2
  <2>2. p[1] \in Content /\ DOMAIN p = {1}
    <3>1. DOMAIN p = 1..1 /\ 1 \in 1..Len(p)
      BY <1>1, <2>1, LenProperties
    <3> QED
      BY <1>1, <3>1, ElementOfSeq
  <2>3. p = <<p[1]>>
    BY <1>1, <2>1, <2>2
  <2> QED
    BY <2>2, <2>3
<1>3. p = <<>> => DOMAIN p = {}
  OBVIOUS
<1>4. OnPath(s) \in Content
  BY <1>2, BlankType DEF OnPath, p
<1> QED
  BY <1>1, <1>2, <1>3, <1>4 DEF p

(* A sequence of one file.                                                 *)
LEMMA OneFile ==
  ASSUME NEW c \in Content
  PROVE  <<c>> \in Seq(Content) /\ <<c>> # <<>> /\ Len(<<c>>) = 1 /\ <<c>>[1] = c /\ DOMAIN <<c>> = {1}
OBVIOUS

(* The kinds of writers.                                                   *)
LEMMA WriterKinds ==
  /\ NoWriter \in Writers
  /\ \A s \in Sessions : AtPrimary(s) \in Writers /\ Nameless(s) \in Writers
  /\ \A s \in Sessions, n \in Nat : AtBackup(s, n) \in Writers
BY DEF Writers, AtPrimary, Nameless, AtBackup

(* A name for a backup is never used up.                                   *)
LEMMA FreshName ==
  ASSUME TypeOK, NEW s \in Sessions
  PROVE  /\ Snowflake(s) \in Nat
         /\ \A k \in DOMAIN backup[s] : backup[s][k].name # Snowflake(s)
<1> DEFINE q == backup[s]
           b == Len(q)
           m == Len(tasks)
           Unused(n) == /\ \A k \in DOMAIN q : q[k].name # n
                        /\ \A j \in DOMAIN tasks : tasks[j].moved # n
<1>1. b \in Nat /\ DOMAIN q = 1..b /\ m \in Nat /\ DOMAIN tasks = 1..m
  BY TypeParts, FileThere, LenProperties
<1>2. Snowflake(s) = CHOOSE n \in 1..(b + m + 1) : Unused(n)
  BY DEF Snowflake
<1> HIDE DEF q, b, m
<1>3. \E n \in 1..(b + m + 1) : Unused(n)
  <2> SUFFICES ASSUME \A n \in 1..(b + m + 1) : ~Unused(n) PROVE FALSE
    OBVIOUS
  <2> DEFINE InQ(n) == \E k \in 1..b : q[k].name = n
             K(n) == CHOOSE k \in 1..b : q[k].name = n
             J(n) == CHOOSE j \in 1..m : tasks[j].moved = n
             g == [n \in 1..(b + m + 1) |-> IF InQ(n) THEN K(n) ELSE b + J(n)]
  <2>1. ASSUME NEW n \in 1..(b + m + 1)
        PROVE  /\ InQ(n) => K(n) \in 1..b /\ q[K(n)].name = n
               /\ ~InQ(n) => J(n) \in 1..m /\ tasks[J(n)].moved = n
    <3>1. ~InQ(n) => \E j \in 1..m : tasks[j].moved = n
      BY <1>1
    <3> QED
      BY <3>1
  <2>2. ASSUME NEW n \in 1..(b + m + 1)
        PROVE  \/ g[n] \in 1..b /\ q[g[n]].name = n
               \/ \E j \in 1..m : g[n] = b + j /\ tasks[j].moved = n
    <3>1. CASE InQ(n)
      BY <2>1, <3>1
    <3>2. CASE ~InQ(n)
      BY <2>1, <3>2
    <3> QED
      BY <3>1, <3>2
  <2>3. DOMAIN g = 1..(b + m + 1)
    OBVIOUS
  <2> HIDE DEF g
  <2>4. g \in [1..(b + m + 1) -> 1..(b + m)]
    <3>1. g = [n \in 1..(b + m + 1) |-> g[n]]
      BY DEF g
    <3>2. \A j \in 1..m : b + j \in 1..(b + m)
      BY <1>1
    <3>3. \A j \in 1..b : j \in 1..(b + m)
      BY <1>1
    <3> QED
      BY <2>2, <3>1, <3>2, <3>3
  <2>5. /\ IsFiniteSet(1..(b + m + 1)) /\ Cardinality(1..(b + m + 1)) = b + m + 1
        /\ IsFiniteSet(1..(b + m)) /\ Cardinality(1..(b + m)) = b + m
    <3>1. 1 \in Int /\ b + m \in Int /\ b + m + 1 \in Int /\ b + m >= 0
      BY <1>1
    <3>2. /\ IsFiniteSet(1..(b + m + 1))
          /\ Cardinality(1..(b + m + 1)) = IF 1 > b + m + 1 THEN 0 ELSE (b + m + 1) - 1 + 1
      BY <3>1, FS_Interval
    <3>3. /\ IsFiniteSet(1..(b + m))
          /\ Cardinality(1..(b + m)) = IF 1 > b + m THEN 0 ELSE (b + m) - 1 + 1
      BY <3>1, FS_Interval
    <3> QED
      BY <3>1, <3>2, <3>3
  <2>6. \E n, l \in 1..(b + m + 1) : n # l /\ g[n] = g[l]
    <3> DEFINE big == 1..(b + m + 1)
               small == 1..(b + m)
    <3>1. b + m < b + m + 1
      BY <1>1
    <3>2. IsFiniteSet(big) /\ IsFiniteSet(small) /\ Cardinality(small) < Cardinality(big)
      BY <2>5, <3>1
    <3>3. g \in [big -> small]
      BY <2>4
    <3> HIDE DEF big, small
    <3>4. \E n, l \in big : n # l /\ g[n] = g[l]
      BY <3>2, <3>3, FS_PigeonHole
    <3> QED
      BY <3>4 DEF big
  <2>7. PICK n, l \in 1..(b + m + 1) : n # l /\ g[n] = g[l]
    BY <2>6
  <2>8. \A j, k \in 1..m : b + j = b + k => j = k
    BY <1>1
  <2>9. \A j \in 1..m : b + j \notin 1..b
    BY <1>1
  <2> QED
    BY <2>2, <2>7, <2>8, <2>9
<1> HIDE DEF Unused
<1>4. Snowflake(s) \in 1..(b + m + 1) /\ Unused(Snowflake(s))
  BY <1>2, <1>3
<1> QED
  BY <1>1, <1>4 DEF Unused, q

-----------------------------------------------------------------------------
(* Tasks.                                                                  *)

(* The sets say what the guards of the model ask of the list.              *)
LEMMA TaskSets ==
  /\ InWindow <=> Inside # {}
  /\ NoCommand <=> Commands = {}
BY DEF InWindow, Inside, NoCommand, Commands, ToSet

(* What is scheduled is a task that waits.                                 *)
LEMMA Scheduled ==
  ASSUME MemoryType, NEW op \in {"rewrite", "flush", "drain", "close"},
         NEW next \in {"none", "new", "fork", "switch"}
  PROVE  LET t == NewTask(op, next) IN
         /\ t \in Task /\ t.op = op /\ t.next = next /\ t.at = "queued" /\ t.file = 0
         /\ t.epoch = diskEpoch /\ t.chain = tail
BY BlankType, Bounds DEF NewTask, MemoryType, Task

(* The fields of a task.                                                   *)
LEMMA TaskFields ==
  ASSUME NEW t \in Task
  PROVE  /\ t.op \in {"rewrite", "flush", "drain", "close"} /\ t.chain \in Nat /\ t.epoch \in Nat
         /\ t.next \in {"none", "new", "fork", "switch"}
         /\ t.at \in {"queued", "replacing", "eperm", "retry", "rollback", "unlink"}
         /\ t.file \in 0..MaxSessions /\ t.body \in Content /\ t.moved \in Nat
BY DEF Task

(* A task of the list.                                                     *)
LEMMA TaskOf ==
  ASSUME tasks \in Seq(Task), NEW i \in DOMAIN tasks
  PROVE  tasks[i] \in Task /\ tasks[i] \in ToSet(tasks)
BY LenProperties, ElementOfSeq DEF ToSet

(* One task more, at the end of the list.                                  *)
LEMMA TaskAppended ==
  ASSUME tasks \in Seq(Task), NEW t \in Task, t.at = "queued", tasks' = Append(tasks, t)
  PROVE  /\ tasks' \in Seq(Task) /\ ToSet(tasks') = ToSet(tasks) \cup {t}
         /\ Inside' = Inside
         /\ OneInside(tasks) => OneInside(tasks')
         /\ OneCommand(tasks) /\ (t.op \in {"drain", "close"} => NoCommand) => OneCommand(tasks')
<1> DEFINE n == Len(tasks) + 1
<1>1. /\ tasks' \in Seq(Task) /\ ToSet(tasks') = ToSet(tasks) \cup {t}
      /\ \A k \in DOMAIN tasks' :
           (k \in DOMAIN tasks /\ tasks'[k] = tasks[k]) \/ (k = n /\ tasks'[k] = t)
  BY Added
<1> HIDE DEF n
<1>2. Inside' = Inside
  BY <1>1 DEF Inside
<1>3. OneInside(tasks) => OneInside(tasks')
  BY <1>1 DEF OneInside
<1>4. ASSUME OneCommand(tasks), t.op \in {"drain", "close"} => NoCommand
      PROVE  OneCommand(tasks')
  BY <1>1, <1>4 DEF OneCommand, NoCommand
<1> QED
  BY <1>1, <1>2, <1>3, <1>4

(* A task settles.                                                         *)
LEMMA TaskSettled ==
  ASSUME tasks \in Seq(Task), NEW i \in DOMAIN tasks, tasks' = RemoveAt(tasks, i)
  PROVE  /\ tasks' \in Seq(Task) /\ ToSet(tasks') \subseteq ToSet(tasks)
         /\ Len(tasks') = Len(tasks) - 1
         /\ OneInside(tasks) => OneInside(tasks')
         /\ OneCommand(tasks) => OneCommand(tasks')
         /\ tasks[i].at = "queued" => Inside' = Inside
         /\ tasks[i].at # "queued" /\ OneInside(tasks) => Inside' = {}
         /\ tasks[i].op \in {"drain", "close"} /\ OneCommand(tasks) => Commands' = {}
<1>1. /\ tasks' \in Seq(Task)
      /\ \A j \in DOMAIN tasks' :
           Old(i, j) \in DOMAIN tasks /\ Old(i, j) # i /\ tasks'[j] = tasks[Old(i, j)]
      /\ \A j, l \in DOMAIN tasks' : Old(i, j) = Old(i, l) => j = l
  BY Settled
<1>2. ToSet(tasks') \subseteq ToSet(tasks) /\ ToSet(tasks) \subseteq ToSet(tasks') \cup {tasks[i]}
  BY SettledSet
<1>3. Len(tasks') = Len(tasks) - 1
  BY Removed
<1>4. OneInside(tasks) => OneInside(tasks')
  BY <1>1 DEF OneInside
<1>5. OneCommand(tasks) => OneCommand(tasks')
  BY <1>1 DEF OneCommand
<1>6. tasks[i].at = "queued" => Inside' = Inside
  BY <1>2 DEF Inside
<1>7. tasks[i].at # "queued" /\ OneInside(tasks) => Inside' = {}
  BY <1>1 DEF Inside, OneInside, ToSet
<1>8. tasks[i].op \in {"drain", "close"} /\ OneCommand(tasks) => Commands' = {}
  BY <1>1 DEF Commands, OneCommand, ToSet
<1> QED
  BY <1>1, <1>2, <1>3, <1>4, <1>5, <1>6, <1>7, <1>8

(* A rewrite goes on, or begins while there is no other.                   *)
LEMMA TaskChanged ==
  ASSUME tasks \in Seq(Task), NEW i \in DOMAIN tasks, NEW r \in Task, r.op = tasks[i].op,
         tasks' = [tasks EXCEPT ![i] = r]
  PROVE  /\ tasks' \in Seq(Task) /\ ToSet(tasks') \subseteq ToSet(tasks) \cup {r}
         /\ OneCommand(tasks) => OneCommand(tasks')
         /\ (tasks[i].at # "queued" /\ OneInside(tasks)) \/ Inside = {} =>
              OneInside(tasks') /\ Inside' \subseteq {r} /\ (r.at # "queued" => Inside' = {r})
<1>1. /\ tasks' \in Seq(Task) /\ DOMAIN tasks' = DOMAIN tasks
      /\ tasks'[i] = r /\ \A k \in DOMAIN tasks : k # i => tasks'[k] = tasks[k]
      /\ ToSet(tasks') \subseteq ToSet(tasks) \cup {r} /\ r \in ToSet(tasks')
  BY Changed
<1>2. OneCommand(tasks) => OneCommand(tasks')
  BY <1>1 DEF OneCommand
<1>3. ASSUME (tasks[i].at # "queued" /\ OneInside(tasks)) \/ Inside = {}
      PROVE  OneInside(tasks') /\ Inside' \subseteq {r} /\ (r.at # "queued" => Inside' = {r})
  <2>1. \A k \in DOMAIN tasks : k # i => tasks'[k].at = "queued"
    BY <1>1, <1>3 DEF OneInside, Inside, ToSet
  <2>2. OneInside(tasks')
    BY <1>1, <2>1 DEF OneInside
  <2>3. Inside' \subseteq {r}
    BY <1>1, <2>1 DEF Inside, ToSet
  <2>4. r.at # "queued" => r \in Inside'
    BY <1>1 DEF Inside
  <2> QED
    BY <2>2, <2>3, <2>4
<1> QED
  BY <1>1, <1>2, <1>3

(* The next step of a rewrite.                                             *)
LEMMA TaskGoes ==
  ASSUME tasks \in Seq(Task), NEW i \in DOMAIN tasks,
         NEW at \in {"replacing", "eperm", "retry", "rollback", "unlink"}, Goto(i, at)
  PROVE  \E r \in Task : /\ tasks' = [tasks EXCEPT ![i] = r] /\ r.at = at
                         /\ r.op = tasks[i].op /\ r.file = tasks[i].file /\ r.body = tasks[i].body
                         /\ r.moved = tasks[i].moved /\ r.next = tasks[i].next
<1> DEFINE r == [tasks[i] EXCEPT !.at = at]
<1>1. r \in Task /\ r.at = at /\ r.op = tasks[i].op /\ r.file = tasks[i].file
      /\ r.body = tasks[i].body /\ r.moved = tasks[i].moved /\ r.next = tasks[i].next
  BY TaskOf DEF Task
<1>2. tasks' = [tasks EXCEPT ![i] = r]
  BY DEF Goto
<1> QED
  BY <1>1, <1>2

(* A rewrite takes its body.                                               *)
LEMMA TaskBegins ==
  ASSUME tasks \in Seq(Task), MemoryType, NEW i \in DOMAIN tasks,
         tasks' = [tasks EXCEPT ![i].at = "replacing", ![i].file = session,
                                ![i].body = Body(entries)]
  PROVE  \E r \in Task : /\ tasks' = [tasks EXCEPT ![i] = r] /\ r.at = "replacing"
                         /\ r.op = tasks[i].op /\ r.file = session /\ r.body = Body(entries)
                         /\ r.next = tasks[i].next
<1> DEFINE r == [tasks[i] EXCEPT !.at = "replacing", !.file = session, !.body = Body(entries)]
<1>1. session \in 0..MaxSessions /\ Body(entries) \in Content
  BY BodyType, Bounds DEF MemoryType
<1>2. r \in Task /\ r.at = "replacing" /\ r.op = tasks[i].op /\ r.file = session
      /\ r.body = Body(entries) /\ r.next = tasks[i].next
  BY <1>1, TaskOf DEF Task
<1>3. tasks' = [tasks EXCEPT ![i] = r]
  BY LenProperties
<1> QED
  BY <1>2, <1>3

(* A rewrite has moved the old file aside.                                 *)
LEMMA TaskMoves ==
  ASSUME tasks \in Seq(Task), NEW i \in DOMAIN tasks, NEW name \in Nat,
         tasks' = [tasks EXCEPT ![i].at = "retry", ![i].moved = name]
  PROVE  \E r \in Task : /\ tasks' = [tasks EXCEPT ![i] = r] /\ r.at = "retry"
                         /\ r.op = tasks[i].op /\ r.file = tasks[i].file
                         /\ r.body = tasks[i].body /\ r.moved = name /\ r.next = tasks[i].next
<1> DEFINE r == [tasks[i] EXCEPT !.at = "retry", !.moved = name]
<1>1. r \in Task /\ r.at = "retry" /\ r.op = tasks[i].op /\ r.file = tasks[i].file
      /\ r.body = tasks[i].body /\ r.moved = name /\ r.next = tasks[i].next
  BY TaskOf DEF Task
<1>2. tasks' = [tasks EXCEPT ![i] = r]
  BY LenProperties
<1> QED
  BY <1>1, <1>2

-----------------------------------------------------------------------------
(* The directory and the promises.                                         *)

(* A file is written, or replaced.                                         *)
LEMMA FileWritten ==
  ASSUME FilesType, NEW s \in Sessions, NEW c \in Content, primary' = [primary EXCEPT ![s] = <<c>>]
  PROVE  /\ primary' \in [Sessions -> Seq(Content)] /\ \A x \in Sessions : Len(primary'[x]) <= 1
         /\ primary'[s] = <<c>> /\ primary'[s] # <<>> /\ primary'[s][1] = c
         /\ DOMAIN primary'[s] = {1}
         /\ \A x \in Sessions : x # s => primary'[x] = primary[x]
<1>1. <<c>> \in Seq(Content) /\ <<c>> # <<>> /\ Len(<<c>>) = 1 /\ <<c>>[1] = c /\ DOMAIN <<c>> = {1}
  BY OneFile
<1> DEFINE one == <<c>>
<1>2. one \in Seq(Content) /\ one # <<>> /\ Len(one) = 1 /\ one[1] = c /\ DOMAIN one = {1}
      /\ primary' = [primary EXCEPT ![s] = one]
  BY <1>1
<1> HIDE DEF one
<1>3. primary' \in [Sessions -> Seq(Content)] /\ primary'[s] = one
      /\ \A x \in Sessions : x # s => primary'[x] = primary[x]
  BY <1>2 DEF FilesType
<1>4. ASSUME NEW x \in Sessions PROVE Len(primary'[x]) <= 1
  BY <1>2, <1>3 DEF FilesType
<1> QED
  BY <1>2, <1>3, <1>4 DEF one

(* A file is moved away.                                                   *)
LEMMA FileGone ==
  ASSUME FilesType, NEW s \in Sessions, primary' = [primary EXCEPT ![s] = <<>>]
  PROVE  /\ primary' \in [Sessions -> Seq(Content)] /\ \A x \in Sessions : Len(primary'[x]) <= 1
         /\ primary'[s] = <<>>
         /\ \A x \in Sessions : x # s => primary'[x] = primary[x]
<1>1. <<>> \in Seq(Content) /\ Len(<<>>) = 0
  BY EmptySeq
<1>2. primary' \in [Sessions -> Seq(Content)] /\ primary'[s] = <<>>
      /\ \A x \in Sessions : x # s => primary'[x] = primary[x]
  BY <1>1 DEF FilesType
<1>3. ASSUME NEW x \in Sessions PROVE Len(primary'[x]) <= 1
  BY <1>1, <1>2 DEF FilesType
<1> QED
  BY <1>2, <1>3

(* The backups of one session change.                                      *)
LEMMA BackupsSet ==
  ASSUME FilesType, NEW s \in Sessions, NEW q \in Seq(Backup), backup' = [backup EXCEPT ![s] = q]
  PROVE  /\ backup' \in [Sessions -> Seq(Backup)] /\ backup'[s] = q
         /\ \A x \in Sessions : x # s => backup'[x] = backup[x]
BY DEF FilesType

(* A new backup has a new name.                                            *)
LEMMA BackupAdded ==
  ASSUME TypeOK, NEW s \in Sessions, NEW c \in Content, Distinct(backup[s])
  PROVE  LET b == [name |-> Snowflake(s), text |-> c]
             q == Append(backup[s], b)
         IN /\ q \in Seq(Backup) /\ Distinct(q) /\ q # <<>> /\ Last(q) = b
            /\ \A k \in DOMAIN q : q[k].text = c \/ \E l \in DOMAIN backup[s] : q[k] = backup[s][l]
<1> DEFINE b == [name |-> Snowflake(s), text |-> c]
           q == Append(backup[s], b)
<1>1. b \in Backup /\ b.name = Snowflake(s) /\ b.text = c
  BY FreshName DEF Backup
<1>2. backup[s] \in Seq(Backup)
  BY TypeParts, FileThere
<1> HIDE DEF b
<1>3. /\ q \in Seq(Backup) /\ q # <<>> /\ Last(q) = b
      /\ \A k \in DOMAIN q : (k \in DOMAIN backup[s] /\ q[k] = backup[s][k])
                             \/ (k = Len(backup[s]) + 1 /\ q[k] = b)
  BY <1>1, <1>2, Added
<1> HIDE DEF q
<1>4. Distinct(q)
  BY <1>1, <1>3, FreshName DEF Distinct
<1>5. \A k \in DOMAIN q : q[k].text = c \/ \E l \in DOMAIN backup[s] : q[k] = backup[s][l]
  BY <1>1, <1>3
<1> QED
  BY <1>3, <1>4, <1>5 DEF b, q

(* A backup is taken away.                                                 *)
LEMMA BackupTaken ==
  ASSUME NEW q \in Seq(Backup), NEW i \in DOMAIN q, Distinct(q)
  PROVE  LET r == RemoveAt(q, i) IN
         /\ r \in Seq(Backup) /\ Distinct(r)
         /\ \A k \in DOMAIN r : \E l \in DOMAIN q : r[k] = q[l]
<1> DEFINE r == RemoveAt(q, i)
<1>1. /\ r \in Seq(Backup)
      /\ \A j \in DOMAIN r : Old(i, j) \in DOMAIN q /\ r[j] = q[Old(i, j)]
      /\ \A j, l \in DOMAIN r : Old(i, j) = Old(i, l) => j = l
  BY Settled
<1> HIDE DEF r
<1>2. Distinct(r)
  BY <1>1 DEF Distinct
<1> QED
  BY <1>1, <1>2 DEF r

(* What recoverOrphanedBackups does, session by session: it changes only   *)
(* what is missing, and nothing of what a start would load.                *)
LEMMA Repaired ==
  ASSUME FilesType, RecoverOrphanedBackups, \A s \in Sessions : Distinct(backup[s])
  PROVE  /\ FilesType'
         /\ \A s \in Sessions :
              /\ Distinct(backup'[s])
              /\ Recovered(s)' = Recovered(s)
              /\ primary[s] # <<>> => primary'[s] = primary[s] /\ backup'[s] = backup[s]
              /\ backup[s] = <<>> => primary'[s] = primary[s] /\ backup'[s] = backup[s]
              /\ backup[s] # <<>> => primary'[s] # <<>>
              /\ \A k \in DOMAIN primary'[s] :
                   primary'[s] = primary[s]
                   \/ \E l \in DOMAIN backup[s] : primary'[s][k] = backup[s][l].text
              /\ \A k \in DOMAIN backup'[s] : \E l \in DOMAIN backup[s] : backup'[s][k] = backup[s][l]
              /\ primary[s] = <<>> =>
                   \A k \in DOMAIN backup'[s] : backup'[s][k].name # Last(backup[s]).name
<1>1. /\ DOMAIN primary' = Sessions /\ DOMAIN backup' = Sessions
      /\ \A s \in Sessions :
           /\ primary'[s] = IF Orphaned(s) THEN <<Last(backup[s]).text>> ELSE primary[s]
           /\ backup'[s] = IF Orphaned(s) THEN Front(backup[s]) ELSE backup[s]
      /\ primary' = [s \in Sessions |-> primary'[s]] /\ backup' = [s \in Sessions |-> backup'[s]]
  BY DEF RecoverOrphanedBackups
<1> SUFFICES
      ASSUME NEW s \in Sessions
      PROVE  /\ primary'[s] \in Seq(Content) /\ Len(primary'[s]) <= 1
             /\ backup'[s] \in Seq(Backup)
             /\ Distinct(backup'[s])
             /\ Recovered(s)' = Recovered(s)
             /\ primary[s] # <<>> => primary'[s] = primary[s] /\ backup'[s] = backup[s]
             /\ backup[s] = <<>> => primary'[s] = primary[s] /\ backup'[s] = backup[s]
             /\ backup[s] # <<>> => primary'[s] # <<>>
             /\ \A k \in DOMAIN primary'[s] :
                  primary'[s] = primary[s]
                  \/ \E l \in DOMAIN backup[s] : primary'[s][k] = backup[s][l].text
             /\ \A k \in DOMAIN backup'[s] : \E l \in DOMAIN backup[s] : backup'[s][k] = backup[s][l]
             /\ primary[s] = <<>> =>
                  \A k \in DOMAIN backup'[s] : backup'[s][k].name # Last(backup[s]).name
  BY <1>1 DEF FilesType
<1>2. CASE ~Orphaned(s)
  <2>1. primary'[s] = primary[s] /\ backup'[s] = backup[s]
    BY <1>1, <1>2
  <2>2. primary[s] = <<>> => backup[s] = <<>>
    BY <1>2 DEF Orphaned
  <2> QED
    BY <2>1, <2>2 DEF FilesType, Recovered, OnPath
<1>3. CASE Orphaned(s)
  <2> DEFINE q == backup[s]
             n == Len(q)
             c == q[n].text
  <2>1. q \in Seq(Backup) /\ q # <<>> /\ primary[s] = <<>>
    BY <1>3 DEF FilesType, Orphaned
  <2>2. /\ n \in DOMAIN q /\ Last(q) = q[n] /\ Last(q) \in Backup
        /\ Front(q) \in Seq(Backup) /\ DOMAIN Front(q) = DOMAIN q \ {n}
        /\ \A k \in DOMAIN Front(q) : Front(q)[k] = q[k]
    BY <2>1, Shortened
  <2>3. c \in Content /\ Last(q).text = c
    BY <2>2 DEF Backup
  <2>4. primary'[s] = <<c>> /\ backup'[s] = Front(q)
    BY <1>1, <1>3, <2>3
  <2>5. Distinct(q)
    OBVIOUS
  <2> HIDE DEF q, n, c
  <2>6. <<c>> \in Seq(Content) /\ <<c>> # <<>> /\ Len(<<c>>) = 1 /\ <<c>>[1] = c /\ DOMAIN <<c>> = {1}
    BY <2>3, OneFile
  <2>7. Distinct(Front(q)) /\ \A k \in DOMAIN Front(q) : Front(q)[k].name # Last(q).name
    BY <2>2, <2>5 DEF Distinct
  <2>8. Recovered(s) = c
    BY <2>1, <2>3 DEF Recovered, q
  <2>9. Recovered(s)' = c
    BY <2>4, <2>6 DEF Recovered, OnPath
  <2>10. \A k \in DOMAIN primary'[s] : \E l \in DOMAIN q : primary'[s][k] = q[l].text
    <3>1. \A k \in DOMAIN primary'[s] : primary'[s][k] = c
      BY <2>4, <2>6
    <3> QED
      BY <2>2, <3>1 DEF c
  <2>11. /\ primary'[s] \in Seq(Content) /\ Len(primary'[s]) <= 1 /\ backup'[s] \in Seq(Backup)
         /\ Distinct(backup'[s]) /\ primary'[s] # <<>>
         /\ \A k \in DOMAIN backup'[s] : \E l \in DOMAIN q : backup'[s][k] = q[l]
         /\ \A k \in DOMAIN backup'[s] : backup'[s][k].name # Last(q).name
    BY <2>2, <2>4, <2>6, <2>7
  <2> QED
    BY <2>1, <2>8, <2>9, <2>10, <2>11 DEF q
<1> QED
  BY <1>2, <1>3

(* A report extends the promise of one session.                            *)
LEMMA Promised ==
  ASSUME CountType, NEW s \in Sessions, NEW c, c.rev \in Nat, c.lines \in Seq(Entries), Promise(s, c)
  PROVE  /\ promised' \in [Sessions -> [lines : SUBSET Entries, rev : Nat]]
         /\ promised'[s].lines = promised[s].lines \cup ToSet(c.lines)
         /\ promised'[s].rev = (IF c.rev > promised[s].rev THEN c.rev ELSE promised[s].rev)
         /\ \A x \in Sessions : x # s => promised'[x] = promised[x]
<1> DEFINE p == [lines |-> promised[s].lines \cup ToSet(c.lines),
                 rev   |-> IF c.rev > promised[s].rev THEN c.rev ELSE promised[s].rev]
<1>1. promised[s].lines \subseteq Entries /\ promised[s].rev \in Nat
  BY DEF CountType
<1>2. ToSet(c.lines) \subseteq Entries
  BY LenProperties, ElementOfSeq DEF ToSet
<1>3. p \in [lines : SUBSET Entries, rev : Nat]
  BY <1>1, <1>2
<1>4. promised' = [promised EXCEPT ![s] = p]
  BY DEF Promise
<1> QED
  BY <1>3, <1>4 DEF CountType

-----------------------------------------------------------------------------
(* The shape of the state: types, commands and names.                      *)

(* While the session and the mode stay, only a new task can disturb the    *)
(* commands.                                                               *)
LEMMA ChainSame ==
  ASSUME ChainInv, UNCHANGED <<mode, session, created>>, OneCommand(tasks'),
         \A t \in ToSet(tasks') : t \in ToSet(tasks) \/ Fits(t)', mode = "down" => tasks' = <<>>
  PROVE  ChainInv'
<1>1. ASSUME NEW t \in ToSet(tasks), Fits(t) PROVE Fits(t)'
  BY <1>1 DEF Fits
<1> QED
  BY <1>1 DEF ChainInv

(* Without a command the session and the mode may change.                  *)
LEMMA ChainQuiet ==
  ASSUME ChainInv, created \in Nat, created' \in Nat, created <= created', mode' = "down" => tasks' = <<>>,
         \A t \in ToSet(tasks') : /\ t.op \notin {"drain", "close"}
                                  /\ t \in ToSet(tasks) \/ t.at = "queued"
  PROVE  ChainInv'
<1>1. OneCommand(tasks')
  BY DEF OneCommand, ToSet
<1>2. ASSUME NEW t \in ToSet(tasks') PROVE Fits(t)'
  <2>1. t.op \notin {"drain", "close"}
    OBVIOUS
  <2>2. ASSUME t.at # "queued" PROVE t.op = "rewrite" /\ t.file \in 1..created'
    BY <2>2 DEF ChainInv, Fits
  <2> QED
    BY <2>1, <2>2 DEF Fits
<1> QED
  BY <1>1, <1>2 DEF ChainInv

(* What has no name yet is left alone.                                     *)
LEMMA FreshSame ==
  ASSUME FreshInv, created \in Nat, created' \in Nat, created <= created', session' \in 1..created',
         \A s \in Sessions : s > created' =>
           primary'[s] = primary[s] /\ backup'[s] = backup[s] /\ promised'[s] = promised[s],
         \A s \in Sessions : Distinct(backup'[s])
  PROVE  FreshInv'
<1>1. ASSUME NEW s \in Sessions, s > created'
      PROVE  primary'[s] = <<>> /\ backup'[s] = <<>> /\ promised'[s] = [lines |-> {}, rev |-> 0]
  <2>1. s > created
    BY <1>1, Bounds
  <2> QED
    BY <1>1, <2>1 DEF FreshInv
<1> QED
  BY <1>1 DEF FreshInv

(* The common case: nothing of the directory changes.                      *)
LEMMA FreshStill ==
  ASSUME FreshInv, CountType, CountType', created <= created', session' \in 1..created',
         UNCHANGED <<primary, backup, promised>>
  PROVE  FreshInv'
<1>1. created \in Nat /\ created' \in Nat
  BY Bounds DEF CountType
<1> QED
  BY <1>1, FreshSame DEF FreshInv

(* The parts of the shape.                                                 *)
LEMMA Parts ==
  ASSUME ShapeInv
  PROVE  /\ TypeOK /\ MemoryType /\ tasks \in Seq(Task) /\ FilesType /\ CountType
         /\ ChainInv /\ FreshInv
         /\ created \in Nat /\ session \in 1..created /\ session \in Sessions
         /\ \A s \in Sessions : Distinct(backup[s])
<1>1. TypeOK /\ ChainInv /\ FreshInv
  BY DEF ShapeInv
<1>2. MemoryType /\ tasks \in Seq(Task) /\ FilesType /\ CountType
  BY <1>1, TypeParts
<1>3. created \in Nat
  BY <1>2, Bounds DEF CountType
<1> QED
  BY <1>1, <1>2, <1>3 DEF FreshInv, MemoryType

(* Operations that only schedule work, and tasks that only settle.         *)
LEMMA ShapeScheduled ==
  ASSUME ShapeInv, UNCHANGED <<mode, session, header, entries, writer, diskEpoch, diskFailure,
                               tail, primary, backup, recorded, created, owned, promised>>,
         MemoryType', CountType', mode # "down",
         \/ tasks' = tasks
         \/ \E t \in Task : /\ tasks' = Append(tasks, t) /\ t.at = "queued" /\ Fits(t)
                            /\ t.op \in {"drain", "close"} => NoCommand
         \/ \E i \in DOMAIN tasks : tasks' = RemoveAt(tasks, i)
  PROVE  ShapeInv'
<1>1. /\ MemoryType /\ tasks \in Seq(Task) /\ FilesType /\ CountType /\ ChainInv /\ FreshInv
      /\ OneCommand(tasks)
  BY Parts DEF ChainInv
<1>2. /\ tasks' \in Seq(Task) /\ OneCommand(tasks')
      /\ \A t \in ToSet(tasks') : t \in ToSet(tasks) \/ Fits(t)
  <2>1. CASE tasks' = tasks
    BY <1>1, <2>1
  <2>2. CASE \E t \in Task : /\ tasks' = Append(tasks, t) /\ t.at = "queued" /\ Fits(t)
                             /\ t.op \in {"drain", "close"} => NoCommand
    BY <1>1, <2>2, TaskAppended
  <2>3. CASE \E i \in DOMAIN tasks : tasks' = RemoveAt(tasks, i)
    <3>1. PICK i \in DOMAIN tasks : tasks' = RemoveAt(tasks, i)
      BY <2>3
    <3>2. tasks' \in Seq(Task) /\ OneCommand(tasks') /\ ToSet(tasks') \subseteq ToSet(tasks)
      BY <1>1, <3>1, TaskSettled
    <3> QED
      BY <3>2
  <2> QED
    BY <2>1, <2>2, <2>3
<1>3. FilesType'
  BY <1>1 DEF FilesType
<1>4. TypeOK'
  BY <1>2, <1>3, TypePartsAfter
<1>5. \A t : Fits(t) => Fits(t)'
  BY DEF Fits
<1>6. ChainInv'
  BY <1>1, <1>2, <1>5, ChainSame
<1>7. FreshInv'
  <2>1. created <= created' /\ session' \in 1..created'
    BY <1>1, Bounds DEF FreshInv, CountType
  <2> QED
    BY <1>1, <2>1, FreshStill
<1> QED
  BY <1>4, <1>6, <1>7 DEF ShapeInv

(* The operations that only schedule work.                                 *)
LEMMA ShapeOperation ==
  ASSUME ShapeInv, RewriteEntries \/ SetSessionName \/ EnsureOnDisk \/ Flush \/ NewSession \/ Fork \/ Close
  PROVE  ShapeInv'
<1>1. MemoryType /\ tasks \in Seq(Task) /\ FilesType /\ CountType
  BY Parts
<1>2. /\ UNCHANGED unchangedByOp /\ mode # "down" /\ ops < MaxOps /\ ops' = ops + 1
      /\ fileIsCurrent' = fileIsCurrent /\ rewriteRequired' = rewriteRequired
      /\ forceFileCreation' \in {forceFileCreation, TRUE} /\ rev' \in {rev, rev + 1}
  BY DEF RewriteEntries, SetSessionName, EnsureOnDisk, Flush, NewSession, Fork, Close, Command,
         Operation, AnyTime, flags
<1>3. MemoryType'
  <2>1. rev' \in Nat
    BY <1>1, <1>2 DEF MemoryType
  <2>2. forceFileCreation' \in BOOLEAN
    BY <1>1, <1>2, Zenon DEF MemoryType
  <2> QED
    BY <1>1, <1>2, <2>1, <2>2 DEF MemoryType, unchangedByOp
<1>4. CountType'
  BY <1>1, <1>2, Bounds DEF CountType, unchangedByOp
<1>5. \/ tasks' = tasks
      \/ \E op \in {"rewrite", "flush"} : Schedule(op, "none")
      \/ NoCommand /\ mode = "live" /\ Schedule("close", "none")
      \/ /\ NoCommand /\ mode = "live" /\ created < MaxSessions
         /\ \E next \in {"new", "fork"} : Schedule("drain", next)
  BY DEF RewriteEntries, SetSessionName, EnsureOnDisk, Flush, NewSession, Fork, Close, Command, Operation
<1>6. \/ tasks' = tasks
      \/ \E t \in Task : /\ tasks' = Append(tasks, t) /\ t.at = "queued" /\ Fits(t)
                         /\ t.op \in {"drain", "close"} => NoCommand
  <2>1. ASSUME NEW op \in {"rewrite", "flush"}, Schedule(op, "none")
        PROVE  \E t \in Task : /\ tasks' = Append(tasks, t) /\ t.at = "queued" /\ Fits(t)
                               /\ t.op \in {"drain", "close"} => NoCommand
    <3>1. NewTask(op, "none") \in Task /\ NewTask(op, "none").op = op
          /\ NewTask(op, "none").at = "queued"
      BY <1>1, Scheduled
    <3> QED
      BY <2>1, <3>1 DEF Schedule, Fits
  <2>2. ASSUME NoCommand, mode = "live", Schedule("close", "none")
        PROVE  \E t \in Task : /\ tasks' = Append(tasks, t) /\ t.at = "queued" /\ Fits(t)
                               /\ t.op \in {"drain", "close"} => NoCommand
    <3>1. NewTask("close", "none") \in Task /\ NewTask("close", "none").op = "close"
          /\ NewTask("close", "none").at = "queued"
      BY <1>1, Scheduled
    <3> QED
      BY <2>2, <3>1 DEF Schedule, Fits
  <2>3. ASSUME NoCommand, mode = "live", created < MaxSessions,
               NEW next \in {"new", "fork"}, Schedule("drain", next)
        PROVE  \E t \in Task : /\ tasks' = Append(tasks, t) /\ t.at = "queued" /\ Fits(t)
                               /\ t.op \in {"drain", "close"} => NoCommand
    <3>1. NewTask("drain", next) \in Task /\ NewTask("drain", next).op = "drain"
          /\ NewTask("drain", next).at = "queued" /\ NewTask("drain", next).next = next
      BY <1>1, Scheduled
    <3> QED
      BY <2>3, <3>1 DEF Schedule, Fits
  <2> QED
    BY <1>5, <2>1, <2>2, <2>3
<1> QED
  BY <1>2, <1>3, <1>4, <1>6, ShapeScheduled DEF unchangedByOp

(* Tasks that settle without an effect.                                    *)
LEMMA ShapeNoEffect ==
  ASSUME ShapeInv, NEW i \in DOMAIN tasks, SkipTask(i) \/ RunFlush(i)
  PROVE  ShapeInv'
<1>1. MemoryType /\ tasks \in Seq(Task) /\ FilesType /\ CountType /\ mode # "down"
  BY Parts DEF ChainInv
<1>2. /\ tasks' = RemoveAt(tasks, i)
      /\ UNCHANGED <<mode, session, flags, writer, diskFailure, tail, primary, backup,
                     errors, created, promised, overlap, unchangedByTask>>
  BY DEF SkipTask, RunFlush, Settle
<1>3. MemoryType' /\ CountType'
  BY <1>1, <1>2 DEF MemoryType, CountType, unchangedByTask, flags
<1> QED
  BY <1>1, <1>2, <1>3, ShapeScheduled DEF unchangedByTask

(* A close ends the work of the manager.                                   *)
LEMMA ShapeClose ==
  ASSUME ShapeInv, NEW i \in DOMAIN tasks, RunClose(i)
  PROVE  ShapeInv'
<1>1. MemoryType /\ tasks \in Seq(Task) /\ FilesType /\ CountType /\ ChainInv /\ FreshInv
      /\ created \in Nat
  BY Parts
<1>2. /\ tasks' = RemoveAt(tasks, i) /\ tasks[i].op = "close"
      /\ writer' = NoWriter /\ fileIsCurrent' = TRUE /\ mode' = "closed"
      /\ UNCHANGED <<session, rewriteRequired, forceFileCreation, diskFailure, tail,
                     primary, backup, errors, created, promised, overlap, unchangedByTask>>
  BY DEF RunClose, Settle, Runs
<1>3. /\ tasks' \in Seq(Task) /\ ToSet(tasks') \subseteq ToSet(tasks)
      /\ Commands' = {}
  BY <1>1, <1>2, TaskSettled DEF ChainInv
<1>4. MemoryType'
  BY <1>1, <1>2 DEF MemoryType, unchangedByTask, Writers
<1>5. CountType' /\ FilesType'
  BY <1>1, <1>2 DEF CountType, FilesType, unchangedByTask
<1>6. ChainInv'
  <2>1. \A t \in ToSet(tasks') : t.op \notin {"drain", "close"} /\ t \in ToSet(tasks)
    BY <1>3 DEF Commands
  <2> QED
    BY <1>1, <1>2, <2>1, ChainQuiet
<1>7. FreshInv'
  BY <1>1, <1>2, <1>5, FreshStill DEF FreshInv
<1> QED
  BY <1>3, <1>4, <1>5, <1>6, <1>7, TypePartsAfter DEF ShapeInv

(* A rewrite in place.                                                     *)
LEMMA RewroteTypes ==
  ASSUME FilesType, CountType, MemoryType, NEW s \in Sessions, NEW c \in Content,
         RewriteSynchronously(s, c), backup' = backup
  PROVE  /\ writer' \in Writers /\ diskEpoch' \in Nat /\ tail' \in Nat
         /\ fileIsCurrent' \in BOOLEAN /\ rewriteRequired' \in BOOLEAN /\ diskFailure' \in BOOLEAN
         /\ overlap' \in BOOLEAN /\ torn' \in BOOLEAN /\ errors' \in 0..MaxErrors
         /\ promised' \in [Sessions -> [lines : SUBSET Entries, rev : Nat]]
         /\ FilesType'
         /\ \A x \in Sessions : x # s => primary'[x] = primary[x] /\ promised'[x] = promised[x]
<1>1. writer' \in Writers /\ diskEpoch' \in Nat /\ tail' \in Nat /\ overlap' \in BOOLEAN
  BY DEF RewriteSynchronously, MemoryType, Writers, CountType
<1>2. c.rev \in Nat /\ c.lines \in Seq(Entries)
  BY ContentFields
<1>3. CASE /\ primary' = [primary EXCEPT ![s] = <<c>>]
           /\ fileIsCurrent' = TRUE /\ rewriteRequired' = FALSE
           /\ Promise(s, c)
           /\ UNCHANGED <<diskFailure, errors, torn>>
  <2>1. /\ primary' \in [Sessions -> Seq(Content)] /\ \A x \in Sessions : Len(primary'[x]) <= 1
        /\ \A x \in Sessions : x # s => primary'[x] = primary[x]
    BY <1>3, FileWritten
  <2>2. /\ promised' \in [Sessions -> [lines : SUBSET Entries, rev : Nat]]
        /\ \A x \in Sessions : x # s => promised'[x] = promised[x]
    BY <1>2, <1>3, Promised
  <2>3. FilesType'
    BY <2>1 DEF FilesType
  <2> QED
    BY <1>1, <1>3, <2>1, <2>2, <2>3 DEF MemoryType, CountType
<1>4. CASE /\ Fails
           /\ diskFailure' = TRUE
           /\ UNCHANGED <<fileIsCurrent, rewriteRequired, promised>>
           /\ \/ UNCHANGED <<primary, torn>>
              \/ primary' = [primary EXCEPT ![s] = <<Blank>>] /\ torn' = TRUE
  <2>1. errors' \in 0..MaxErrors
    BY <1>4, Bounds DEF Fails, CountType
  <2>2. /\ primary' \in [Sessions -> Seq(Content)] /\ \A x \in Sessions : Len(primary'[x]) <= 1
        /\ \A x \in Sessions : x # s => primary'[x] = primary[x]
        /\ torn' \in BOOLEAN
    <3>1. CASE UNCHANGED <<primary, torn>>
      BY <3>1 DEF FilesType, CountType
    <3>2. CASE primary' = [primary EXCEPT ![s] = <<Blank>>] /\ torn' = TRUE
      BY <3>2, BlankType, FileWritten
    <3> QED
      BY <1>4, <3>1, <3>2
  <2>3. FilesType'
    BY <2>2 DEF FilesType
  <2> QED
    BY <1>1, <1>4, <2>1, <2>2, <2>3 DEF MemoryType, CountType
<1> QED
  BY <1>3, <1>4 DEF RewriteSynchronously

(* A title or a Ctrl-C written in place.                                   *)
LEMMA ShapeFlushSync ==
  ASSUME ShapeInv, FlushSync
  PROVE  ShapeInv'
<1>1. /\ MemoryType /\ tasks \in Seq(Task) /\ FilesType /\ CountType /\ ChainInv /\ FreshInv
      /\ created \in Nat /\ session \in 1..created /\ session \in Sessions
      /\ \A s \in Sessions : Distinct(backup[s])
  BY Parts
<1>2. /\ mode \in {"live", "loading"} /\ ops < MaxOps /\ ops' = ops + 1
      /\ RewriteSynchronously(session, Body(entries))
      /\ UNCHANGED <<mode, session, header, entries, rev, forceFileCreation, tasks, backup,
                     starts, recorded, created, owned>>
  BY DEF FlushSync, AnyTime
<1>3. Body(entries) \in Content
  BY <1>1, BodyType
<1>4. /\ writer' \in Writers /\ diskEpoch' \in Nat /\ tail' \in Nat
      /\ fileIsCurrent' \in BOOLEAN /\ rewriteRequired' \in BOOLEAN /\ diskFailure' \in BOOLEAN
      /\ overlap' \in BOOLEAN /\ torn' \in BOOLEAN /\ errors' \in 0..MaxErrors
      /\ promised' \in [Sessions -> [lines : SUBSET Entries, rev : Nat]]
      /\ FilesType'
      /\ \A x \in Sessions : x # session => primary'[x] = primary[x] /\ promised'[x] = promised[x]
  BY <1>1, <1>2, <1>3, RewroteTypes
<1>5. MemoryType'
  BY <1>1, <1>2, <1>4 DEF MemoryType
<1>6. CountType'
  BY <1>1, <1>2, <1>4, Bounds DEF CountType
<1>7. ChainInv'
  BY <1>1, <1>2, ChainSame DEF ChainInv
<1>8. FreshInv'
  <2>1. created' = created /\ session' = session /\ backup' = backup
    BY <1>2
  <2>2. \A s \in Sessions : s > created => s # session
    BY <1>1, Bounds
  <2> QED
    BY <1>1, <1>4, <2>1, <2>2, FreshSame
<1> QED
  BY <1>1, <1>2, <1>4, <1>5, <1>6, <1>7, <1>8, TypePartsAfter DEF ShapeInv

(* A branch begins a session.                                              *)
LEMMA ShapeBranch ==
  ASSUME ShapeInv, CreateBranchedSession
  PROVE  ShapeInv'
<1>1. /\ MemoryType /\ tasks \in Seq(Task) /\ FilesType /\ CountType /\ ChainInv /\ FreshInv
      /\ created \in Nat /\ session \in 1..created /\ session \in Sessions
      /\ \A s \in Sessions : Distinct(backup[s])
  BY Parts
<1> DEFINE s == created + 1
<1>2. PICK n \in DOMAIN entries :
        /\ created' = s /\ session' = s /\ header' = s
        /\ entries' = SubSeq(entries, 1, n)
        /\ rev' = 0 /\ forceFileCreation' = TRUE
        /\ owned' = [owned EXCEPT ![s] = ToSet(SubSeq(entries, 1, n))]
        /\ RewriteSynchronously(s, [hdr |-> s, rev |-> 0, lines |-> SubSeq(entries, 1, n)])
  BY DEF CreateBranchedSession
<1>3. /\ mode = "live" /\ ops < MaxOps /\ ops' = ops + 1 /\ NoCommand /\ created < MaxSessions
      /\ UNCHANGED <<mode, tasks, backup, starts, recorded>>
  BY DEF CreateBranchedSession, Operation
<1>4. s \in Sessions /\ s \in Nat /\ s > created /\ s \in 1..s
  BY <1>1, <1>3, Bounds
<1> HIDE DEF s
<1> DEFINE c == [hdr |-> s, rev |-> 0, lines |-> SubSeq(entries, 1, n)]
<1>5. entries' \in Seq(Entries) /\ c \in Content /\ ToSet(entries') \subseteq Entries
  <2>1. SubSeq(entries, 1, n) \in Seq(Entries) /\ ToSet(SubSeq(entries, 1, n)) \subseteq ToSet(entries)
    BY <1>1, Prefix DEF MemoryType
  <2>2. ToSet(entries) \subseteq Entries
    BY <1>1, LenProperties, ElementOfSeq DEF MemoryType, ToSet
  <2> QED
    BY <1>2, <1>4, <2>1, <2>2, MadeContent
<1>6. /\ writer' \in Writers /\ diskEpoch' \in Nat /\ tail' \in Nat
      /\ fileIsCurrent' \in BOOLEAN /\ rewriteRequired' \in BOOLEAN /\ diskFailure' \in BOOLEAN
      /\ overlap' \in BOOLEAN /\ torn' \in BOOLEAN /\ errors' \in 0..MaxErrors
      /\ promised' \in [Sessions -> [lines : SUBSET Entries, rev : Nat]]
      /\ FilesType'
      /\ \A x \in Sessions : x # s => primary'[x] = primary[x] /\ promised'[x] = promised[x]
  BY <1>1, <1>2, <1>3, <1>4, <1>5, RewroteTypes
<1>7. MemoryType'
  BY <1>1, <1>2, <1>3, <1>4, <1>5, <1>6 DEF MemoryType
<1>8. owned' \in [Sessions -> SUBSET Entries]
  BY <1>1, <1>2, <1>5 DEF CountType
<1>9. CountType'
  BY <1>1, <1>2, <1>3, <1>4, <1>6, <1>8, Bounds DEF CountType
<1>10. ChainInv'
  <2>1. \A t \in ToSet(tasks') : t.op \notin {"drain", "close"} /\ t \in ToSet(tasks)
    BY <1>3, TaskSets DEF Commands
  <2>2. created <= created' /\ created' \in Nat /\ mode' # "down"
    BY <1>1, <1>2, <1>3, <1>4
  <2> QED
    BY <1>1, <2>1, <2>2, ChainQuiet
<1>11. FreshInv'
  <2>1. created <= created' /\ created' \in Nat /\ session' \in 1..created' /\ backup' = backup
    BY <1>1, <1>2, <1>3, <1>4
  <2>2. \A x \in Sessions : x > created' => x # s
    BY <1>2, <1>4, Bounds
  <2> QED
    BY <1>1, <1>6, <2>1, <2>2, FreshSame
<1> QED
  BY <1>1, <1>3, <1>6, <1>7, <1>9, <1>10, <1>11, TypePartsAfter DEF ShapeInv

(* The hot path writes one line, and keeps the names of the backups.       *)
LEMMA LineAppended ==
  ASSUME MemoryType, FilesType, CountType, NEW e \in Entries, entries' \in Seq(Entries), AppendLine(e)
  PROVE  /\ writer' \in Writers /\ overlap' \in BOOLEAN
         /\ FilesType'
         /\ promised' \in [Sessions -> [lines : SUBSET Entries, rev : Nat]]
         /\ \A x \in Sessions : x # session =>
              primary'[x] = primary[x] /\ backup'[x] = backup[x] /\ promised'[x] = promised[x]
         /\ \A x \in Sessions : Distinct(backup[x]) => Distinct(backup'[x])
<1> DEFINE s == session
           w == IF writer = NoWriter THEN AtPrimary(s) ELSE writer
           old == IF primary[s] = <<>> THEN Blank ELSE primary[s][1]
           new == [old EXCEPT !.lines = Append(@, e)]
           line(k) == IF w.at = "backup" /\ w.name = backup[s][k].name
                      THEN [backup[s][k] EXCEPT !.text.lines = Append(@, e)]
                      ELSE backup[s][k]
           q == [k \in DOMAIN backup[s] |-> line(k)]
<1>1. /\ writer' = w /\ overlap' = (overlap \/ InWindow \/ w.at # "primary")
      /\ primary' = [primary EXCEPT ![s] = IF w.at # "primary" THEN @ ELSE <<new>>]
      /\ backup' = [backup EXCEPT ![s] = q]
      /\ Promise(s, [rev |-> 0, lines |-> entries'])
  BY DEF AppendLine
<1>2. s \in Sessions /\ w \in Writers
  BY WriterKinds DEF MemoryType
<1>3. old \in Content
  BY <1>2, FileThere, BlankType
<1>4. new \in Content
  <2>1. Append(old.lines, e) \in Seq(Entries)
    BY <1>3, ContentFields, AppendProperties
  <2> QED
    BY <1>3, <2>1 DEF Content
<1> HIDE DEF new, old
<1>5. ASSUME NEW k \in DOMAIN backup[s] PROVE line(k) \in Backup /\ line(k).name = backup[s][k].name
  <2>1. backup[s][k] \in Backup
    BY <1>2, FileThere, LenProperties, ElementOfSeq
  <2>2. backup[s][k].text \in Content
    BY <2>1 DEF Backup
  <2>3. Append(backup[s][k].text.lines, e) \in Seq(Entries)
    BY <2>2, ContentFields, AppendProperties
  <2> DEFINE d == [backup[s][k].text EXCEPT !.lines = Append(@, e)]
             b == [backup[s][k] EXCEPT !.text = d]
  <2>4. d \in Content
    BY <2>2, <2>3 DEF Content
  <2>5. [backup[s][k] EXCEPT !.text.lines = Append(@, e)] = b
    OBVIOUS
  <2> HIDE DEF d
  <2>6. b \in Backup /\ b.name = backup[s][k].name
    BY <2>1, <2>4 DEF Backup
  <2> QED
    BY <2>1, <2>5, <2>6
<1> HIDE DEF line, w
<1>6. q \in Seq(Backup) /\ DOMAIN q = DOMAIN backup[s]
      /\ \A k \in DOMAIN q : q[k].name = backup[s][k].name
  <2>1. Len(backup[s]) \in Nat /\ DOMAIN backup[s] = 1..Len(backup[s])
    BY <1>2, FileThere, LenProperties
  <2>2. q \in [1..Len(backup[s]) -> Backup]
    BY <1>5, <2>1
  <2> QED
    BY <1>5, <2>1, <2>2, SeqDef
<1> HIDE DEF q
<1>7. /\ backup' \in [Sessions -> Seq(Backup)] /\ backup'[s] = q
      /\ \A x \in Sessions : x # s => backup'[x] = backup[x]
  BY <1>1, <1>2, <1>6, BackupsSet
<1>8. ASSUME NEW x \in Sessions, Distinct(backup[x]) PROVE Distinct(backup'[x])
  <2>1. CASE x = s
    <3>1. Distinct(backup[s])
      BY <1>8, <2>1
    <3>2. Distinct(q)
      BY <1>6, <3>1 DEF Distinct
    <3> QED
      BY <1>7, <2>1, <3>2
  <2>2. CASE x # s
    BY <1>7, <1>8, <2>2
  <2> QED
    BY <2>1, <2>2
<1>9. /\ primary' \in [Sessions -> Seq(Content)] /\ \A x \in Sessions : Len(primary'[x]) <= 1
      /\ \A x \in Sessions : x # s => primary'[x] = primary[x]
  <2>1. CASE w.at = "primary"
    <3>1. primary' = [primary EXCEPT ![s] = <<new>>]
      BY <1>1, <2>1
    <3> QED
      BY <1>2, <1>4, <3>1, FileWritten
  <2>2. CASE w.at # "primary"
    <3>1. primary' = primary
      BY <1>1, <2>2 DEF FilesType
    <3> QED
      BY <3>1 DEF FilesType
  <2> QED
    BY <2>1, <2>2
<1>10. FilesType'
  BY <1>7, <1>9 DEF FilesType
<1>11. /\ promised' \in [Sessions -> [lines : SUBSET Entries, rev : Nat]]
       /\ \A x \in Sessions : x # s => promised'[x] = promised[x]
  <2> DEFINE c == [rev |-> 0, lines |-> entries']
  <2>1. c.rev \in Nat /\ c.lines \in Seq(Entries) /\ Promise(s, c)
    BY <1>1
  <2> HIDE DEF c
  <2> QED
    BY <1>2, <2>1, Promised
<1> QED
  BY <1>1, <1>2, <1>7, <1>8, <1>9, <1>10, <1>11 DEF CountType

(* An entry.                                                               *)
LEMMA ShapeRecord ==
  ASSUME ShapeInv, RecordEntry
  PROVE  ShapeInv'
<1>1. /\ MemoryType /\ tasks \in Seq(Task) /\ FilesType /\ CountType /\ ChainInv /\ FreshInv
      /\ created \in Nat /\ session \in 1..created /\ session \in Sessions
      /\ \A s \in Sessions : Distinct(backup[s])
  BY Parts
<1> DEFINE e == recorded + 1
<1>2. /\ mode = "live" /\ recorded < MaxEntries /\ recorded' = e /\ entries' = Append(entries, e)
      /\ owned' = [owned EXCEPT ![session] = @ \cup {e}]
      /\ AppendToSessionFile(e)
      /\ UNCHANGED <<mode, session, header, rev, forceFileCreation, tasks, ops, starts, created>>
  BY DEF RecordEntry
<1>3. e \in Entries /\ e \in 0..MaxEntries
  BY <1>1, <1>2, Bounds DEF CountType, Entries
<1> HIDE DEF e
<1>4. entries' \in Seq(Entries)
  BY <1>1, <1>2, <1>3, Added DEF MemoryType
<1>5. owned' \in [Sessions -> SUBSET Entries]
  BY <1>1, <1>2, <1>3 DEF CountType
<1>6. /\ writer' \in Writers /\ diskEpoch' \in Nat /\ tail' \in Nat
      /\ fileIsCurrent' \in BOOLEAN /\ rewriteRequired' \in BOOLEAN /\ diskFailure' \in BOOLEAN
      /\ overlap' \in BOOLEAN /\ torn' \in BOOLEAN /\ errors' \in 0..MaxErrors
      /\ promised' \in [Sessions -> [lines : SUBSET Entries, rev : Nat]]
      /\ FilesType'
      /\ \A x \in Sessions : x # session =>
           primary'[x] = primary[x] /\ backup'[x] = backup[x] /\ promised'[x] = promised[x]
      /\ \A x \in Sessions : Distinct(backup'[x])
  <2>1. CASE UNCHANGED <<writer, primary, backup, promised, diskEpoch, tail, rewriteRequired,
                         diskFailure, errors, torn>>
             /\ fileIsCurrent' \in {fileIsCurrent, FALSE}
             /\ overlap' \in {overlap, overlap \/ InWindow}
    <3>1. fileIsCurrent' \in BOOLEAN /\ overlap' \in BOOLEAN
      BY <1>1, <2>1, Zenon DEF MemoryType, CountType
    <3> QED
      BY <1>1, <2>1, <3>1 DEF MemoryType, CountType, FilesType
  <2>2. CASE RewriteSynchronously(session, Body(entries')) /\ backup' = backup
    <3>1. Body(entries') \in Content
      BY <1>1, <1>4, MadeContent DEF Body, MemoryType
    <3> QED
      BY <1>1, <2>2, <3>1, RewroteTypes
  <2>3. CASE AppendLine(e)
    <3>1. UNCHANGED <<diskEpoch, tail, fileIsCurrent, rewriteRequired, diskFailure, errors, torn>>
      BY <2>3 DEF AppendLine
    <3> QED
      BY <1>1, <1>3, <1>4, <2>3, <3>1, LineAppended DEF MemoryType, CountType
  <2>4. CASE AppendLineFails
    <3>1. errors' \in 0..MaxErrors
      BY <1>1, <2>4, Bounds DEF AppendLineFails, Fails, CountType
    <3> QED
      BY <1>1, <2>4, <3>1 DEF AppendLineFails, MemoryType, CountType, FilesType
  <2> QED
    BY <1>2, <2>1, <2>2, <2>3, <2>4, Zenon DEF AppendToSessionFile
<1>7. MemoryType'
  BY <1>1, <1>2, <1>4, <1>6 DEF MemoryType
<1>8. CountType'
  BY <1>1, <1>2, <1>3, <1>5, <1>6 DEF CountType
<1>9. ChainInv'
  BY <1>1, <1>2, ChainSame DEF ChainInv
<1>10. FreshInv'
  <2>1. created' = created /\ session' = session
    BY <1>2
  <2>2. \A s \in Sessions : s > created => s # session
    BY <1>1, Bounds
  <2> QED
    BY <1>1, <1>6, <2>1, <2>2, FreshSame
<1> QED
  BY <1>1, <1>2, <1>6, <1>7, <1>8, <1>9, <1>10, TypePartsAfter DEF ShapeInv

(* A writer whose backup becomes the file again.                           *)
LEMMA WriterNamed ==
  ASSUME NEW w \in Writers, w.at = "backup"
  PROVE  AtPrimary(w.file) \in Writers
<1>1. w # NoWriter
  BY DEF NoWriter
<1>2. w \in [file : Sessions, at : {"primary", "backup", "gone"}, name : Nat]
  BY <1>1 DEF Writers
<1>3. w.file \in Sessions
  BY <1>2
<1> QED
  BY <1>3, WriterKinds

(* A session is chosen from a listing that has repaired the directory.     *)
LEMMA ShapeSwitch ==
  ASSUME ShapeInv, SwitchSession
  PROVE  ShapeInv'
<1>1. /\ MemoryType /\ tasks \in Seq(Task) /\ FilesType /\ CountType /\ ChainInv /\ FreshInv
      /\ created \in Nat /\ session \in 1..created /\ session \in Sessions
      /\ \A s \in Sessions : Distinct(backup[s])
  BY Parts
<1>2. PICK s \in 1..created :
        s # session /\ tasks' = Append(tasks, [NewTask("drain", "switch") EXCEPT !.file = s])
  BY DEF SwitchSession
<1>3. /\ mode = "live" /\ ops < MaxOps /\ ops' = ops + 1 /\ NoCommand
      /\ RecoverOrphanedBackups
      /\ UNCHANGED <<mode, session, header, entries, rev, flags, diskEpoch, diskFailure, tail,
                     errors, starts, recorded, created, owned, promised, overlap, torn>>
  BY DEF SwitchSession, Operation
<1>4. writer' \in Writers
  <2>1. ASSUME writer.at = "backup" PROVE AtPrimary(writer.file) \in Writers
    BY <1>1, <2>1, WriterNamed DEF MemoryType
  <2> QED
    BY <1>1, <2>1 DEF SwitchSession, MemoryType
<1>5. [NewTask("drain", "switch") EXCEPT !.file = s] \in Task
      /\ [NewTask("drain", "switch") EXCEPT !.file = s].op = "drain"
      /\ [NewTask("drain", "switch") EXCEPT !.file = s].at = "queued"
      /\ [NewTask("drain", "switch") EXCEPT !.file = s].next = "switch"
      /\ [NewTask("drain", "switch") EXCEPT !.file = s].file = s
  <2>1. NewTask("drain", "switch") \in Task /\ NewTask("drain", "switch").op = "drain"
        /\ NewTask("drain", "switch").at = "queued" /\ NewTask("drain", "switch").next = "switch"
    BY <1>1, Scheduled
  <2>2. s \in 0..MaxSessions
    BY <1>1, Bounds DEF CountType
  <2> QED
    BY <2>1, <2>2 DEF Task
<1>12. PICK t \in Task : /\ tasks' = Append(tasks, t)
                         /\ t.op = "drain" /\ t.at = "queued" /\ t.next = "switch" /\ t.file = s
  BY <1>2, <1>5
<1>6. tasks' \in Seq(Task) /\ ToSet(tasks') = ToSet(tasks) \cup {t} /\ OneCommand(tasks')
  BY <1>1, <1>3, <1>12, TaskAppended DEF ChainInv
<1>7. MemoryType'
  BY <1>1, <1>3, <1>4 DEF MemoryType, flags
<1>8. CountType'
  BY <1>1, <1>3, Bounds DEF CountType
<1>9. /\ FilesType'
      /\ \A x \in Sessions :
           /\ Distinct(backup'[x])
           /\ backup[x] = <<>> => primary'[x] = primary[x] /\ backup'[x] = backup[x]
  BY <1>1, <1>3, Repaired
<1>10. ChainInv'
  <2>1. Fits(t)'
    BY <1>2, <1>3, <1>12 DEF Fits
  <2> QED
    BY <1>1, <1>3, <1>6, <2>1, ChainSame
<1>11. FreshInv'
  <2>1. ASSUME NEW x \in Sessions, x > created' PROVE backup[x] = <<>>
    BY <1>1, <1>3, <2>1 DEF FreshInv
  <2> QED
    BY <1>1, <1>3, <1>9, <2>1, FreshSame
<1> QED
  BY <1>6, <1>7, <1>8, <1>9, <1>10, <1>11, TypePartsAfter DEF ShapeInv

(* A drain ends and its caller changes the session.                        *)
LEMMA ShapeDrain ==
  ASSUME ShapeInv, NEW i \in DOMAIN tasks, RunDrain(i)
  PROVE  ShapeInv'
<1>1. /\ MemoryType /\ tasks \in Seq(Task) /\ FilesType /\ CountType /\ ChainInv /\ FreshInv
      /\ created \in Nat /\ session \in 1..created /\ session \in Sessions
      /\ \A s \in Sessions : Distinct(backup[s])
  BY Parts
<1> DEFINE s == created + 1
<1>7. PICK t : t = tasks[i]
  OBVIOUS
<1>2. /\ t.op = "drain" /\ writer' = NoWriter /\ tail' = tail + 1 /\ diskFailure' = FALSE
      /\ overlap' = (overlap \/ Len(tasks) > 1)
      /\ UNCHANGED <<diskEpoch, primary, backup, ops, errors, starts, recorded, promised, torn>>
  BY <1>7 DEF RunDrain
<1>3. t \in Task /\ Fits(t)
  BY <1>1, <1>7, TaskOf DEF ChainInv
<1>4. \/ t.next \in {"new", "fork"} /\ created < MaxSessions
      \/ t.next = "switch" /\ t.file \in (1..created) \ {session}
  BY <1>2, <1>3 DEF Fits
<1>5. CASE t.next = "new" \/ t.next = "fork"
  <2>1. s \in Sessions /\ s \in Nat /\ created < s /\ created <= s /\ s \in 1..s
    BY <1>1, <1>4, <1>5, Bounds
  <2>2. /\ session' = s /\ header' = s /\ created' = s
        /\ fileIsCurrent' = FALSE /\ rewriteRequired' = FALSE /\ forceFileCreation' \in BOOLEAN
        /\ mode' = mode
        /\ \/ entries' = <<>> /\ rev' = 0 /\ owned' = owned
           \/ /\ entries' = entries /\ rev' = rev /\ owned' = [owned EXCEPT ![s] = ToSet(entries)]
    BY <1>5, <1>7 DEF RunDrain, ResetTo
  <2>11. \/ tasks' = RemoveAt(tasks, i)
         \/ tasks' = Append(RemoveAt(tasks, i),
                            [NewTask("rewrite", "none") EXCEPT !.chain = tail + 1])
    BY <1>5, <1>7 DEF RunDrain, ResetTo, Settle
  <2> HIDE DEF s
  <2> DEFINE q == RemoveAt(tasks, i)
             n == [NewTask("rewrite", "none") EXCEPT !.chain = tail + 1]
  <2>3. /\ q \in Seq(Task)
        /\ \A x \in ToSet(q) : x \in ToSet(tasks) /\ x.op \notin {"drain", "close"}
    <3>1. /\ q \in Seq(Task)
          /\ \A j \in DOMAIN q :
               Old(i, j) \in DOMAIN tasks /\ Old(i, j) # i /\ q[j] = tasks[Old(i, j)]
      BY <1>1, Settled
    <3> HIDE DEF q
    <3>2. ASSUME NEW j \in DOMAIN q
          PROVE  q[j] \in ToSet(tasks) /\ q[j].op \notin {"drain", "close"}
      BY <1>1, <1>2, <1>7, <3>1 DEF ChainInv, OneCommand, ToSet
    <3> QED
      BY <3>1, <3>2 DEF ToSet
  <2>4. n \in Task /\ n.op = "rewrite" /\ n.at = "queued"
    <3>1. NewTask("rewrite", "none") \in Task /\ NewTask("rewrite", "none").op = "rewrite"
          /\ NewTask("rewrite", "none").at = "queued"
      BY <1>1, Scheduled
    <3>2. tail + 1 \in Nat
      BY <1>1 DEF MemoryType
    <3> QED
      BY <3>1, <3>2 DEF Task
  <2> HIDE DEF q, n
  <2>5. /\ tasks' \in Seq(Task)
        /\ \A x \in ToSet(tasks') : /\ x.op \notin {"drain", "close"}
                                    /\ x \in ToSet(tasks) \/ x.at = "queued"
    <3>1. tasks' = q \/ tasks' = Append(q, n)
      BY <2>11 DEF q, n
    <3>2. Append(q, n) \in Seq(Task) /\ ToSet(Append(q, n)) = ToSet(q) \cup {n}
      BY <2>3, <2>4, Added
    <3> QED
      BY <2>3, <2>4, <3>1, <3>2
  <2>6. MemoryType'
    <3>1. entries' \in Seq(Entries) /\ rev' \in Nat
      <4>1. <<>> \in Seq(Entries) /\ 0 \in Nat
        BY EmptySeq
      <4>2. entries \in Seq(Entries) /\ rev \in Nat
        BY <1>1 DEF MemoryType
      <4> QED
        BY <2>2, <4>1, <4>2, Zenon
    <3> QED
      <4>1. tail' \in Nat /\ diskEpoch' \in Nat /\ writer' \in Writers /\ diskFailure' \in BOOLEAN
        <5>1. tail' \in Nat
          BY <1>1, <1>2 DEF MemoryType
        <5>2. diskEpoch' \in Nat
          BY <1>1, <1>2 DEF MemoryType
        <5>3. writer' \in Writers
          BY <1>2, WriterKinds
        <5>4. diskFailure' \in BOOLEAN
          BY <1>2
        <5> QED
          BY <5>1, <5>2, <5>3, <5>4
      <4>2. session' \in Sessions /\ header' \in Sessions
        BY <2>1, <2>2
      <4>3. fileIsCurrent' \in BOOLEAN /\ rewriteRequired' \in BOOLEAN
        BY <2>2
      <4>4. mode' \in {"live", "loading", "closed", "down"}
        BY <1>1, <2>2 DEF MemoryType
      <4> QED
        BY <2>2, <3>1, <4>1, <4>2, <4>3, <4>4 DEF MemoryType
  <2>7. CountType'
    <3>1. owned' \in [Sessions -> SUBSET Entries]
      <4>1. ToSet(entries) \subseteq Entries
        BY <1>1, LenProperties, ElementOfSeq DEF MemoryType, ToSet
      <4> QED
        BY <1>1, <2>2, <4>1 DEF CountType
    <3> QED
      BY <1>1, <1>2, <2>1, <2>2, <3>1 DEF CountType
  <2>8. ChainInv'
    <3>1. mode' # "down"
      BY <1>1, <2>2 DEF ChainInv
    <3> QED
      BY <1>1, <2>1, <2>2, <2>5, <3>1, ChainQuiet
  <2>9. FreshInv'
    BY <1>1, <1>2, <2>1, <2>2, <2>7, FreshStill
  <2>10. FilesType'
    BY <1>1, <1>2 DEF FilesType
  <2> QED
    BY <2>5, <2>6, <2>7, <2>8, <2>9, <2>10, TypePartsAfter DEF ShapeInv
<1>6. CASE t.next = "switch"
  <2>1. /\ session' = t.file /\ mode' = "loading" /\ tasks' = RemoveAt(tasks, i)
        /\ UNCHANGED <<header, entries, rev, flags, created, owned>>
    BY <1>6, <1>7 DEF RunDrain, Settle
  <2>2. t.file \in 1..created /\ t.file \in Sessions
    BY <1>1, <1>4, <1>6, Bounds DEF CountType
  <2>3. tasks' \in Seq(Task) /\ ToSet(tasks') \subseteq ToSet(tasks) /\ Commands' = {}
    BY <1>1, <1>2, <1>7, <2>1, TaskSettled DEF ChainInv
  <2>4. MemoryType' /\ CountType' /\ FilesType'
    <3>1. MemoryType'
      <4>1. tail' \in Nat /\ diskEpoch' \in Nat /\ writer' \in Writers /\ diskFailure' \in BOOLEAN
        <5>1. tail' \in Nat
          BY <1>1, <1>2 DEF MemoryType
        <5>2. diskEpoch' \in Nat
          BY <1>1, <1>2 DEF MemoryType
        <5>3. writer' \in Writers
          BY <1>2, WriterKinds
        <5>4. diskFailure' \in BOOLEAN
          BY <1>2
        <5> QED
          BY <5>1, <5>2, <5>3, <5>4
      <4> QED
        BY <1>1, <2>1, <2>2, <4>1 DEF MemoryType, flags
    <3> QED
      BY <1>1, <1>2, <2>1, <3>1 DEF CountType, FilesType
  <2>5. ChainInv'
    <3>1. \A x \in ToSet(tasks') : x.op \notin {"drain", "close"} /\ x \in ToSet(tasks)
      BY <2>3 DEF Commands
    <3> QED
      BY <1>1, <2>1, <3>1, ChainQuiet
  <2>6. FreshInv'
    BY <1>1, <1>2, <2>1, <2>2, <2>4, FreshStill
  <2> QED
    BY <2>3, <2>4, <2>5, <2>6, TypePartsAfter DEF ShapeInv
<1> QED
  BY <1>4, <1>5, <1>6

(* A new manager, or a switch, adopts a file: it begins with its entries,  *)
(* or with none and a rewrite.                                             *)
LEMMA Adopted ==
  ASSUME MemoryType, tasks \in Seq(Task), CountType, diskEpoch' \in Nat,
         NEW s \in Sessions, NEW c \in Content, NEW chain \in Nat, NEW failure \in BOOLEAN,
         Adopt(s, c, chain, failure)
  PROVE  /\ session' = s /\ header' \in Sessions /\ entries' \in Seq(Entries) /\ rev' \in Nat
         /\ fileIsCurrent' \in BOOLEAN /\ rewriteRequired' \in BOOLEAN
         /\ forceFileCreation' \in BOOLEAN /\ diskFailure' \in BOOLEAN /\ tail' \in Nat
         /\ owned' \in [Sessions -> SUBSET Entries]
         /\ \/ tasks' = tasks
            \/ \E t \in Task : tasks' = Append(tasks, t) /\ t.at = "queued" /\ t.op = "rewrite"
<1>1. /\ c.hdr \in 0..MaxSessions /\ c.rev \in Nat /\ c.lines \in Seq(Entries)
      /\ ToSet(c.lines) \subseteq Entries
  BY ContentFields
<1>2. CASE c.hdr # 0
  <2>1. /\ session' = s /\ header' = c.hdr /\ entries' = c.lines /\ rev' = c.rev
        /\ owned' = [owned EXCEPT ![s] = @ \cup ToSet(c.lines)]
        /\ fileIsCurrent' = TRUE /\ rewriteRequired' \in BOOLEAN /\ forceFileCreation' = TRUE
        /\ diskFailure' = failure /\ tail' = chain /\ tasks' = tasks
    BY <1>2 DEF Adopt
  <2>2. header' \in Sessions
    BY <1>1, <1>2, <2>1, Bounds
  <2>3. owned' \in [Sessions -> SUBSET Entries]
    BY <1>1, <2>1 DEF CountType
  <2> QED
    BY <1>1, <2>1, <2>2, <2>3
<1>3. CASE c.hdr = 0
  <2>1. /\ session' = s /\ header' = s /\ entries' = <<>> /\ rev' = 0
        /\ fileIsCurrent' = FALSE /\ rewriteRequired' = FALSE /\ forceFileCreation' = TRUE
        /\ diskFailure' = FALSE /\ tail' = chain + 1 /\ owned' = owned
        /\ tasks' = Append(tasks, [NewTask("rewrite", "none") EXCEPT !.chain = tail',
                                                                    !.epoch = diskEpoch'])
    BY <1>3 DEF Adopt, ResetTo
  <2>2. tail' \in Nat
    BY <2>1
  <2>3. PICK n \in Task : n = NewTask("rewrite", "none") /\ n.op = "rewrite" /\ n.at = "queued"
    BY Scheduled
  <2>4. [n EXCEPT !.chain = tail', !.epoch = diskEpoch'] \in Task
        /\ [n EXCEPT !.chain = tail', !.epoch = diskEpoch'].op = "rewrite"
        /\ [n EXCEPT !.chain = tail', !.epoch = diskEpoch'].at = "queued"
    BY <2>2, <2>3 DEF Task
  <2>5. \E t \in Task : tasks' = Append(tasks, t) /\ t.at = "queued" /\ t.op = "rewrite"
    BY <2>1, <2>3, <2>4
  <2>6. owned' \in [Sessions -> SUBSET Entries]
    BY <2>1 DEF CountType
  <2>7. entries' \in Seq(Entries) /\ rev' \in Nat
    BY <2>1, EmptySeq, Zenon, 0 \in Nat
  <2> QED
    BY <2>1, <2>2, <2>5, <2>6, <2>7
<1> QED
  BY <1>2, <1>3

(* The second half of a switch.                                            *)
LEMMA ShapeLoad ==
  ASSUME ShapeInv, Load
  PROVE  ShapeInv'
<1>1. /\ MemoryType /\ tasks \in Seq(Task) /\ FilesType /\ CountType /\ ChainInv /\ FreshInv
      /\ created \in Nat /\ session \in 1..created /\ session \in Sessions
      /\ \A s \in Sessions : Distinct(backup[s])
  BY Parts
<1>2. /\ mode = "loading" /\ mode' = "live"
      /\ UNCHANGED <<writer, diskEpoch, primary, backup, bounds, promised, overlap, torn>>
      /\ Adopt(session, OnPath(session), tail, diskFailure)
  BY DEF Load
<1>3. OnPath(session) \in Content
  BY <1>1, FileThere
<1>4. /\ session' = session /\ header' \in Sessions /\ entries' \in Seq(Entries) /\ rev' \in Nat
      /\ fileIsCurrent' \in BOOLEAN /\ rewriteRequired' \in BOOLEAN
      /\ forceFileCreation' \in BOOLEAN /\ diskFailure' \in BOOLEAN /\ tail' \in Nat
      /\ owned' \in [Sessions -> SUBSET Entries]
      /\ \/ tasks' = tasks
         \/ \E t \in Task : tasks' = Append(tasks, t) /\ t.at = "queued" /\ t.op = "rewrite"
  BY <1>1, <1>2, <1>3, Adopted DEF MemoryType
<1>5. MemoryType'
  BY <1>1, <1>2, <1>4 DEF MemoryType
<1>6. CountType' /\ FilesType'
  BY <1>1, <1>2, <1>4 DEF CountType, FilesType, bounds
<1>7. tasks' \in Seq(Task)
      /\ \A t \in ToSet(tasks') : t \in ToSet(tasks) \/ (t.at = "queued" /\ t.op = "rewrite")
  <2>1. CASE tasks' = tasks
    BY <1>1, <2>1
  <2>2. CASE \E t \in Task : tasks' = Append(tasks, t) /\ t.at = "queued" /\ t.op = "rewrite"
    <3>1. PICK t \in Task : tasks' = Append(tasks, t) /\ t.at = "queued" /\ t.op = "rewrite"
      BY <2>2
    <3>2. tasks' \in Seq(Task) /\ ToSet(tasks') = ToSet(tasks) \cup {t}
      BY <1>1, <3>1, TaskAppended
    <3> QED
      BY <3>1, <3>2
  <2> QED
    BY <1>4, <2>1, <2>2
<1>8. ChainInv'
  <2>1. \A t \in ToSet(tasks) : t.op \notin {"drain", "close"}
    BY <1>1, <1>2 DEF ChainInv, Fits
  <2>2. \A t \in ToSet(tasks') : /\ t.op \notin {"drain", "close"}
                                 /\ t \in ToSet(tasks) \/ t.at = "queued"
    BY <1>7, <2>1
  <2>3. created' = created
    BY <1>2 DEF bounds
  <2> QED
    BY <1>1, <1>2, <2>2, <2>3, ChainQuiet
<1>9. FreshInv'
  <2>1. created' = created
    BY <1>2 DEF bounds
  <2> QED
    BY <1>1, <1>2, <1>4, <1>6, <2>1, FreshStill
<1> QED
  BY <1>5, <1>6, <1>7, <1>8, <1>9, TypePartsAfter DEF ShapeInv

(* A crash.                                                                *)
LEMMA ShapeCrash ==
  ASSUME ShapeInv, Crash
  PROVE  ShapeInv'
<1>1. /\ MemoryType /\ tasks \in Seq(Task) /\ FilesType /\ CountType /\ ChainInv /\ FreshInv
      /\ created \in Nat /\ session \in 1..created /\ session \in Sessions
  BY Parts
<1>2. /\ mode' = "down" /\ tasks' = <<>> /\ writer' = NoWriter
      /\ session' = session /\ header' = session /\ entries' = <<>> /\ rev' = 0
      /\ fileIsCurrent' = FALSE /\ rewriteRequired' = FALSE /\ diskFailure' = FALSE
      /\ forceFileCreation' = FALSE /\ diskEpoch' = 0 /\ tail' = 0
      /\ UNCHANGED <<primary, backup, bounds, owned, promised, overlap, torn>>
  BY DEF Crash, ResetTo
<1>3. entries' \in Seq(Entries) /\ tasks' \in Seq(Task)
  BY <1>2, EmptySeq, Zenon
<1>4. writer' \in Writers
  BY <1>2, WriterKinds
<1>5. MemoryType'
  BY <1>1, <1>2, <1>3, <1>4 DEF MemoryType
<1>6. CountType' /\ FilesType'
  BY <1>1, <1>2 DEF CountType, FilesType, bounds
<1>7. ChainInv'
  <2>1. \A t : t \notin ToSet(tasks')
    BY <1>2 DEF ToSet
  <2>2. created' = created
    BY <1>2 DEF bounds
  <2> QED
    BY <1>1, <1>2, <2>1, <2>2, ChainQuiet
<1>8. FreshInv'
  <2>1. created' = created
    BY <1>2 DEF bounds
  <2> QED
    BY <1>1, <1>2, <1>6, <2>1, FreshStill
<1> QED
  BY <1>3, <1>5, <1>6, <1>7, <1>8, TypePartsAfter DEF ShapeInv

(* A start.                                                                *)
LEMMA ShapeStart ==
  ASSUME ShapeInv, Start
  PROVE  ShapeInv'
<1>1. /\ MemoryType /\ tasks \in Seq(Task) /\ FilesType /\ CountType /\ ChainInv /\ FreshInv
      /\ created \in Nat /\ session \in 1..created /\ session \in Sessions
      /\ \A s \in Sessions : Distinct(backup[s])
  BY Parts
<1>2. /\ tasks = <<>> /\ starts < MaxStarts /\ starts' = starts + 1
      /\ mode' = "live" /\ writer' = NoWriter /\ diskEpoch' = 0
      /\ UNCHANGED <<ops, errors, recorded, promised, overlap, torn>>
  BY DEF Start
<1>3. /\ FilesType'
      /\ \A x \in Sessions : Distinct(backup'[x])
      /\ \A x \in Sessions : x > created => primary'[x] = <<>> /\ backup'[x] = <<>>
  <2>1. \A x \in Sessions : x > created => primary[x] = <<>> /\ backup[x] = <<>>
    BY <1>1 DEF FreshInv
  <2>2. CASE UNCHANGED <<primary, backup>>
    BY <1>1, <2>1, <2>2 DEF FilesType
  <2>3. CASE RecoverOrphanedBackups
    <3>1. /\ FilesType'
          /\ \A x \in Sessions :
               /\ Distinct(backup'[x])
               /\ backup[x] = <<>> => primary'[x] = primary[x] /\ backup'[x] = backup[x]
      BY <1>1, <2>3, Repaired
    <3> QED
      BY <2>1, <3>1
  <2> QED
    BY <2>2, <2>3 DEF Start
<1>4. /\ session' \in Sessions /\ header' \in Sessions /\ entries' \in Seq(Entries) /\ rev' \in Nat
      /\ fileIsCurrent' \in BOOLEAN /\ rewriteRequired' \in BOOLEAN
      /\ forceFileCreation' \in BOOLEAN /\ diskFailure' \in BOOLEAN /\ tail' \in Nat
      /\ owned' \in [Sessions -> SUBSET Entries]
      /\ created' \in Sessions /\ created <= created' /\ session' <= created'
      /\ \/ tasks' = tasks
         \/ \E t \in Task : tasks' = Append(tasks, t) /\ t.at = "queued" /\ t.op = "rewrite"
  <2>1. ASSUME NEW s \in Sessions, primary'[s] # <<>>, Adopt(s, primary'[s][1], 0, FALSE),
               created' = created
        PROVE  <1>4
    <3>6. PICK c : c = primary'[s][1]
      OBVIOUS
    <3>1. c \in Content
      <4>1. primary'[s] \in Seq(Content) /\ primary'[s] # <<>>
        BY <1>3, <2>1 DEF FilesType
      <4>2. Len(primary'[s]) \in Nat \ {0}
        BY <4>1, EmptySeq
      <4>3. 1 \in 1..Len(primary'[s])
        BY <4>2
      <4> QED
        BY <3>6, <4>1, <4>3, ElementOfSeq
    <3>2. Adopt(s, c, 0, FALSE)
      BY <2>1, <3>6
    <3>3. s <= created
      BY <1>1, <1>3, <2>1, Bounds
    <3>4. diskEpoch' \in Nat /\ 0 \in Nat /\ FALSE \in BOOLEAN
      BY <1>2
    <3>5. created \in Sessions
      BY <1>1 DEF CountType
    <3> QED
      <4>1. /\ session' = s /\ header' \in Sessions /\ entries' \in Seq(Entries) /\ rev' \in Nat
            /\ fileIsCurrent' \in BOOLEAN /\ rewriteRequired' \in BOOLEAN
            /\ forceFileCreation' \in BOOLEAN /\ diskFailure' \in BOOLEAN /\ tail' \in Nat
            /\ owned' \in [Sessions -> SUBSET Entries]
            /\ \/ tasks' = tasks
               \/ \E t \in Task : tasks' = Append(tasks, t) /\ t.at = "queued" /\ t.op = "rewrite"
        BY <1>1, <3>1, <3>2, <3>4, Adopted
      <4>2. created' \in Sessions /\ created <= created' /\ session' <= created'
        BY <1>1, <2>1, <3>3, <3>5, <4>1
      <4> QED
        BY <2>1, <4>1, <4>2
  <2>2. ASSUME created < MaxSessions, created' = created + 1, ResetTo(created + 1),
               forceFileCreation' = FALSE, tail' = 0, UNCHANGED <<tasks, owned>>
        PROVE  <1>4
    <3>1. created + 1 \in Sessions
      BY <1>1, <2>2, Bounds
    <3>2. entries' \in Seq(Entries) /\ rev' \in Nat
      BY <2>2, EmptySeq, Zenon, 0 \in Nat DEF ResetTo
    <3> QED
      <4>1. /\ session' = created + 1 /\ header' = created + 1
            /\ fileIsCurrent' = FALSE /\ rewriteRequired' = FALSE /\ diskFailure' = FALSE
        BY <2>2 DEF ResetTo
      <4>2. created' \in Sessions /\ created <= created' /\ session' <= created'
        BY <1>1, <2>2, <3>1, <4>1
      <4>3. owned' \in [Sessions -> SUBSET Entries]
        BY <1>1, <2>2 DEF CountType
      <4> QED
        BY <2>2, <3>1, <3>2, <4>1, <4>2, <4>3
  <2>3. \/ primary[session] # <<>> /\ Adopt(session, primary[session][1], 0, FALSE)
           /\ UNCHANGED <<created, primary>>
        \/ /\ created' = created
           /\ \E s \in Sessions : primary'[s] # <<>> /\ Adopt(s, primary'[s][1], 0, FALSE)
        \/ /\ created < MaxSessions /\ created' = created + 1
           /\ ResetTo(created + 1) /\ forceFileCreation' = FALSE
           /\ tail' = 0 /\ UNCHANGED <<tasks, owned>>
    BY DEF Start
  <2> QED
    BY <1>1, <2>1, <2>2, <2>3
<1>5. tasks' \in Seq(Task)
      /\ \A t \in ToSet(tasks') : t.op = "rewrite" /\ t.at = "queued"
  <2>1. ToSet(tasks) = {}
    BY <1>2 DEF ToSet
  <2> QED
    BY <1>1, <1>4, <2>1, TaskAppended
<1>6. MemoryType'
  <2>1. writer' \in Writers
    BY <1>2, WriterKinds
  <2> QED
    BY <1>2, <1>4, <2>1 DEF MemoryType
<1>7. CountType'
  BY <1>1, <1>2, <1>4, Bounds DEF CountType
<1>8. ChainInv'
  <2>1. created' \in Nat
    BY <1>4, Bounds
  <2> QED
    BY <1>1, <1>2, <1>4, <1>5, <2>1, ChainQuiet
<1>9. FreshInv'
  <2>1. created' \in Nat /\ session' \in 1..created'
    BY <1>4, Bounds
  <2>2. \A x \in Sessions : x > created' => x > created
    BY <1>1, <1>4, Bounds
  <2>3. \A x \in Sessions : x > created' =>
          primary'[x] = primary[x] /\ backup'[x] = backup[x] /\ promised'[x] = promised[x]
    BY <1>1, <1>2, <1>3, <2>2 DEF FreshInv
  <2> QED
    BY <1>1, <1>3, <1>4, <2>1, <2>3, FreshSame
<1> QED
  BY <1>3, <1>5, <1>6, <1>7, <1>8, <1>9, TypePartsAfter DEF ShapeInv

(* A rewrite begins.                                                       *)
LEMMA ShapeBegin ==
  ASSUME ShapeInv, NEW i \in DOMAIN tasks, BeginRewrite(i)
  PROVE  ShapeInv'
<1>1. /\ MemoryType /\ tasks \in Seq(Task) /\ FilesType /\ CountType /\ ChainInv /\ FreshInv
      /\ created \in Nat /\ session \in 1..created /\ session \in Sessions
  BY Parts
<1>2. /\ tasks[i].op = "rewrite" /\ writer' = NoWriter
      /\ tasks' = [tasks EXCEPT ![i].at = "replacing", ![i].file = session, ![i].body = Body(entries)]
      /\ overlap' = (overlap \/ InWindow \/ mode = "loading")
      /\ UNCHANGED <<mode, session, flags, diskFailure, tail, primary, backup, errors,
                     created, promised, unchangedByTask>>
  BY DEF BeginRewrite, Runs
<1>3. PICK r \in Task : /\ tasks' = [tasks EXCEPT ![i] = r] /\ r.at = "replacing"
                        /\ r.op = tasks[i].op /\ r.file = session
  BY <1>1, <1>2, TaskBegins
<1>4. tasks' \in Seq(Task) /\ ToSet(tasks') \subseteq ToSet(tasks) \cup {r} /\ OneCommand(tasks')
  BY <1>1, <1>3, TaskChanged DEF ChainInv
<1>5. writer' \in Writers
  BY <1>2, WriterKinds
<1>6. MemoryType'
  BY <1>1, <1>2, <1>5 DEF MemoryType, unchangedByTask, flags
<1>7. CountType'
  <2>1. overlap' \in BOOLEAN
    BY <1>2
  <2> QED
    BY <1>1, <1>2, <2>1 DEF CountType, unchangedByTask
<1>8. FilesType'
  BY <1>1, <1>2 DEF FilesType
<1>9. ChainInv'
  <2>1. Fits(r)'
    BY <1>1, <1>2, <1>3 DEF Fits
  <2>2. mode # "down"
    BY <1>1 DEF ChainInv
  <2> QED
    BY <1>1, <1>2, <1>4, <2>1, <2>2, ChainSame
<1>10. FreshInv'
  BY <1>1, <1>2, <1>7, FreshStill
<1> QED
  BY <1>4, <1>6, <1>7, <1>8, <1>9, <1>10, TypePartsAfter DEF ShapeInv

(* A step inside a rewrite touches the files of one session that has a     *)
(* name.                                                                   *)
LEMMA ShapeStep ==
  ASSUME ShapeInv, NEW i \in DOMAIN tasks, tasks[i].at # "queued",
         UNCHANGED <<mode, session, forceFileCreation, tail, created, overlap, unchangedByTask>>,
         writer' \in Writers, errors' \in 0..MaxErrors, fileIsCurrent' \in BOOLEAN,
         rewriteRequired' \in BOOLEAN, diskFailure' \in BOOLEAN, FilesType',
         promised' \in [Sessions -> [lines : SUBSET Entries, rev : Nat]],
         \A x \in Sessions : x # tasks[i].file =>
           primary'[x] = primary[x] /\ backup'[x] = backup[x] /\ promised'[x] = promised[x],
         \A x \in Sessions : Distinct(backup'[x]),
         \/ tasks' = RemoveAt(tasks, i)
         \/ \E r \in Task : /\ tasks' = [tasks EXCEPT ![i] = r]
                            /\ r.op = tasks[i].op /\ r.file = tasks[i].file
  PROVE  ShapeInv'
<1>1. /\ MemoryType /\ tasks \in Seq(Task) /\ FilesType /\ CountType /\ ChainInv /\ FreshInv
      /\ created \in Nat /\ session \in 1..created /\ session \in Sessions
  BY Parts
<1>2. tasks[i].op = "rewrite" /\ tasks[i].file \in 1..created /\ mode # "down"
  BY <1>1, TaskOf DEF ChainInv, Fits
<1>3. /\ tasks' \in Seq(Task) /\ OneCommand(tasks')
      /\ \A t \in ToSet(tasks') : t \in ToSet(tasks) \/ Fits(t)'
  <2>1. CASE tasks' = RemoveAt(tasks, i)
    BY <1>1, <2>1, TaskSettled DEF ChainInv
  <2>2. ASSUME NEW r \in Task, tasks' = [tasks EXCEPT ![i] = r],
               r.op = tasks[i].op, r.file = tasks[i].file
        PROVE  <1>3
    <3>1. tasks' \in Seq(Task) /\ ToSet(tasks') \subseteq ToSet(tasks) \cup {r} /\ OneCommand(tasks')
      BY <1>1, <2>2, TaskChanged DEF ChainInv
    <3>2. Fits(r)'
      BY <1>2, <2>2 DEF Fits
    <3> QED
      BY <3>1, <3>2
  <2> QED
    BY <2>1, <2>2
<1>4. MemoryType'
  BY <1>1 DEF MemoryType, unchangedByTask
<1>5. CountType'
  BY <1>1 DEF CountType, unchangedByTask
<1>6. ChainInv'
  BY <1>1, <1>2, <1>3, ChainSame
<1>7. FreshInv'
  <2>1. \A x \in Sessions : x > created => x # tasks[i].file
    BY <1>1, <1>2, Bounds
  <2> QED
    BY <1>1, <2>1, FreshSame
<1> QED
  BY <1>3, <1>4, <1>5, <1>6, <1>7, TypePartsAfter DEF ShapeInv

(* The types of what a rewrite leaves when it is over.                     *)
LEMMA Finished ==
  ASSUME ShapeInv, NEW i \in DOMAIN tasks, tasks[i].at # "queued",
         Promise(tasks[i].file, tasks[i].body)
  PROVE  /\ tasks[i].file \in Sessions /\ tasks[i].body \in Content
         /\ promised' \in [Sessions -> [lines : SUBSET Entries, rev : Nat]]
         /\ \A x \in Sessions : x # tasks[i].file => promised'[x] = promised[x]
<1>1. /\ tasks \in Seq(Task) /\ CountType /\ ChainInv /\ created \in Nat
  BY Parts
<1>2. tasks[i].file \in 1..created /\ tasks[i] \in Task
  BY <1>1, TaskOf DEF ChainInv, Fits
<1>3. tasks[i].file \in Sessions /\ tasks[i].body \in Content
  BY <1>1, <1>2, TaskFields, Bounds DEF CountType
<1>4. tasks[i].body.rev \in Nat /\ tasks[i].body.lines \in Seq(Entries)
  BY <1>3, ContentFields
<1> QED
  BY <1>1, <1>3, <1>4, Promised

(* The file a rewrite is about.                                            *)
LEMMA FileOf ==
  ASSUME ShapeInv, NEW i \in DOMAIN tasks, tasks[i].at # "queued"
  PROVE  /\ tasks[i] \in Task /\ tasks[i].file \in Sessions /\ tasks[i].body \in Content
         /\ tasks[i].file \in 1..created
<1>1. tasks \in Seq(Task) /\ CountType /\ ChainInv /\ created \in Nat
  BY Parts
<1>2. tasks[i].file \in 1..created /\ tasks[i] \in Task
  BY <1>1, TaskOf DEF ChainInv, Fits
<1> QED
  BY <1>1, <1>2, TaskFields, Bounds DEF CountType

(* The body takes the place of the file.                                   *)
LEMMA ReplacedTypes ==
  ASSUME ShapeInv, NEW i \in DOMAIN tasks, tasks[i].at # "queued", Replaced(i)
  PROVE  /\ writer' \in Writers
         /\ primary' \in [Sessions -> Seq(Content)] /\ \A x \in Sessions : Len(primary'[x]) <= 1
         /\ primary'[tasks[i].file] = <<tasks[i].body>>
         /\ \A x \in Sessions : x # tasks[i].file => primary'[x] = primary[x]
<1>1. FilesType /\ MemoryType
  BY Parts
<1>2. tasks[i].file \in Sessions /\ tasks[i].body \in Content
  BY FileOf
<1>3. writer' \in Writers
  BY <1>1, <1>2, WriterKinds DEF Replaced, Renamed, MemoryType
<1> QED
  BY <1>1, <1>2, <1>3, FileWritten DEF Replaced

(* Outcomes that leave the directory alone.                                *)
LEMMA ShapeStay ==
  ASSUME ShapeInv, NEW i \in DOMAIN tasks, tasks[i].at # "queued",
         UNCHANGED <<mode, session, forceFileCreation, tail, created, overlap, unchangedByTask>>,
         UNCHANGED <<fileIsCurrent, rewriteRequired, writer, primary, backup, promised>>,
         errors' = errors \/ Fails, diskFailure' \in BOOLEAN,
         \/ tasks' = RemoveAt(tasks, i)
         \/ \E r \in Task : /\ tasks' = [tasks EXCEPT ![i] = r]
                            /\ r.op = tasks[i].op /\ r.file = tasks[i].file
  PROVE  ShapeInv'
<1>1. MemoryType /\ FilesType /\ CountType /\ \A s \in Sessions : Distinct(backup[s])
  BY Parts
<1>2. errors' \in 0..MaxErrors
  BY <1>1, Bounds DEF Fails, CountType
<1>3. FilesType'
  BY <1>1 DEF FilesType
<1>4. /\ writer' \in Writers /\ fileIsCurrent' \in BOOLEAN /\ rewriteRequired' \in BOOLEAN
      /\ promised' \in [Sessions -> [lines : SUBSET Entries, rev : Nat]]
  BY <1>1 DEF MemoryType, CountType
<1>5. \A x \in Sessions : Distinct(backup'[x])
  BY <1>1
<1> QED
  BY <1>2, <1>3, <1>4, <1>5, ShapeStep

(* Outcomes that end with the body in place.                               *)
LEMMA ShapeReplaced ==
  ASSUME ShapeInv, NEW i \in DOMAIN tasks, tasks[i].at # "queued",
         Replaced(i), Finish(i), UNCHANGED backup
  PROVE  ShapeInv'
<1>1. MemoryType /\ FilesType /\ CountType /\ \A s \in Sessions : Distinct(backup[s])
  BY Parts
<1>2. /\ writer' \in Writers
      /\ primary' \in [Sessions -> Seq(Content)] /\ \A x \in Sessions : Len(primary'[x]) <= 1
      /\ \A x \in Sessions : x # tasks[i].file => primary'[x] = primary[x]
  BY ReplacedTypes
<1>3. /\ Promise(tasks[i].file, tasks[i].body) /\ tasks' = RemoveAt(tasks, i)
      /\ fileIsCurrent' = TRUE /\ rewriteRequired' = FALSE
      /\ UNCHANGED <<mode, session, forceFileCreation, diskFailure, tail, errors, created,
                     overlap, unchangedByTask>>
  BY DEF Finish, Settle
<1>4. /\ promised' \in [Sessions -> [lines : SUBSET Entries, rev : Nat]]
      /\ \A x \in Sessions : x # tasks[i].file => promised'[x] = promised[x]
  BY <1>3, Finished
<1>5. FilesType'
  BY <1>1, <1>2 DEF FilesType
<1>6. errors' \in 0..MaxErrors /\ diskFailure' \in BOOLEAN
  BY <1>1, <1>3 DEF CountType, MemoryType
<1>7. fileIsCurrent' \in BOOLEAN /\ rewriteRequired' \in BOOLEAN
  BY <1>3
<1>8. UNCHANGED <<mode, session, forceFileCreation, tail, created, overlap, unchangedByTask>>
  BY <1>3
<1> QED
  BY <1>1, <1>2, <1>3, <1>4, <1>5, <1>6, <1>7, <1>8, ShapeStep

(* A failure.                                                              *)
LEMMA ShapeFailed ==
  ASSUME ShapeInv, NEW i \in DOMAIN tasks, tasks[i].at # "queued",
         errors' = errors \/ Fails, Reject(i), UNCHANGED <<writer, primary, backup>>
  PROVE  ShapeInv'
<1>1. /\ tasks' = RemoveAt(tasks, i) /\ diskFailure' \in BOOLEAN
      /\ UNCHANGED <<mode, session, forceFileCreation, tail, created, overlap, unchangedByTask>>
      /\ UNCHANGED <<fileIsCurrent, rewriteRequired, promised>>
  BY DEF Reject, Settle, flags
<1> QED
  BY <1>1, ShapeStay

(* The rename over the old file.                                           *)
LEMMA ShapeReplace ==
  ASSUME ShapeInv, NEW i \in DOMAIN tasks, Replace(i)
  PROVE  ShapeInv'
<1>1. tasks[i].at = "replacing" /\ tasks[i].at # "queued"
  BY DEF Replace
<1>2. CASE Replaced(i) /\ Finish(i) /\ UNCHANGED backup
  BY <1>1, <1>2, ShapeReplaced
<1>3. CASE Fails /\ Reject(i) /\ UNCHANGED <<writer, primary, backup>>
  BY <1>1, <1>3, ShapeFailed
<1>4. CASE /\ Goto(i, "eperm")
           /\ UNCHANGED <<mode, session, flags, writer, diskFailure, tail, primary, backup,
                          errors, created, promised, overlap, unchangedByTask>>
  <2>1. \E r \in Task : /\ tasks' = [tasks EXCEPT ![i] = r]
                        /\ r.op = tasks[i].op /\ r.file = tasks[i].file
    BY <1>4, Parts, TaskGoes
  <2>2. diskFailure' \in BOOLEAN
    BY <1>4, Parts DEF MemoryType
  <2>3. /\ UNCHANGED <<mode, session, forceFileCreation, tail, created, overlap, unchangedByTask>>
        /\ UNCHANGED <<fileIsCurrent, rewriteRequired, writer, primary, backup, promised>>
        /\ errors' = errors
    BY <1>4 DEF flags
  <2> QED
    BY <1>1, <2>1, <2>2, <2>3, ShapeStay
<1> QED
  BY <1>2, <1>3, <1>4 DEF Replace

(* The old file is moved aside.                                            *)
LEMMA ShapeMoveAside ==
  ASSUME ShapeInv, NEW i \in DOMAIN tasks, MoveAside(i)
  PROVE  ShapeInv'
<1> DEFINE s == tasks[i].file
           name == Snowflake(s)
           c == primary[s][1]
           q == Append(backup[s], [name |-> name, text |-> c])
<1>1. tasks[i].at = "eperm" /\ tasks[i].at # "queued"
  BY DEF MoveAside
<1>2. CASE Replaced(i) /\ Finish(i) /\ UNCHANGED backup
  BY <1>1, <1>2, ShapeReplaced
<1>3. CASE Fails /\ Reject(i) /\ UNCHANGED <<writer, primary, backup>>
  BY <1>1, <1>3, ShapeFailed
<1>4. CASE /\ primary[s] # <<>>
           /\ primary' = [primary EXCEPT ![s] = <<>>]
           /\ backup' = [backup EXCEPT ![s] = Append(@, [name |-> name, text |-> c])]
           /\ Renamed(AtPrimary(s), AtBackup(s, name))
           /\ tasks' = [tasks EXCEPT ![i].at = "retry", ![i].moved = name]
           /\ UNCHANGED <<mode, session, flags, diskFailure, tail, errors, created,
                          promised, overlap, unchangedByTask>>
  <2>1. /\ TypeOK /\ MemoryType /\ tasks \in Seq(Task) /\ FilesType /\ CountType
        /\ \A x \in Sessions : Distinct(backup[x])
    BY Parts
  <2>2. s \in Sessions
    BY <1>1, FileOf
  <2>3. name \in Nat /\ c \in Content
    BY <1>4, <2>1, <2>2, FreshName, FileThere
  <2>4. q \in Seq(Backup) /\ Distinct(q)
    BY <2>1, <2>2, <2>3, BackupAdded
  <2>5. \E r \in Task : /\ tasks' = [tasks EXCEPT ![i] = r]
                        /\ r.op = tasks[i].op /\ r.file = tasks[i].file
    BY <1>4, <2>1, <2>3, TaskMoves
  <2>6. writer' \in Writers
    BY <1>4, <2>1, <2>2, <2>3, WriterKinds DEF Renamed, MemoryType
  <2>7. backup' = [backup EXCEPT ![s] = q]
    BY <1>4
  <2> HIDE DEF s, name, c, q
  <2>8. /\ primary' \in [Sessions -> Seq(Content)] /\ \A x \in Sessions : Len(primary'[x]) <= 1
        /\ \A x \in Sessions : x # s => primary'[x] = primary[x]
    BY <1>4, <2>1, <2>2, FileGone
  <2>9. /\ backup' \in [Sessions -> Seq(Backup)] /\ backup'[s] = q
        /\ \A x \in Sessions : x # s => backup'[x] = backup[x]
    BY <2>1, <2>2, <2>4, <2>7, BackupsSet
  <2>10. FilesType'
    BY <2>8, <2>9 DEF FilesType
  <2>11. \A x \in Sessions : Distinct(backup'[x])
    BY <2>1, <2>4, <2>9
  <2>12. /\ UNCHANGED <<mode, session, forceFileCreation, tail, created, overlap, unchangedByTask>>
         /\ UNCHANGED <<fileIsCurrent, rewriteRequired, diskFailure, errors, promised>>
    BY <1>4 DEF flags
  <2>13. /\ errors' \in 0..MaxErrors /\ fileIsCurrent' \in BOOLEAN
         /\ rewriteRequired' \in BOOLEAN /\ diskFailure' \in BOOLEAN
         /\ promised' \in [Sessions -> [lines : SUBSET Entries, rev : Nat]]
    BY <2>1, <2>12 DEF MemoryType, CountType
  <2>14. \A x \in Sessions : x # tasks[i].file =>
           primary'[x] = primary[x] /\ backup'[x] = backup[x] /\ promised'[x] = promised[x]
    BY <2>8, <2>9, <2>12 DEF s
  <2> QED
    BY <1>1, <2>5, <2>6, <2>10, <2>11, <2>12, <2>13, <2>14, ShapeStep
<1> QED
  BY <1>2, <1>3, <1>4 DEF MoveAside

(* The second attempt at the rename.                                       *)
LEMMA ShapeRetry ==
  ASSUME ShapeInv, NEW i \in DOMAIN tasks, RetryReplace(i)
  PROVE  ShapeInv'
<1>1. /\ tasks[i].at = "retry" /\ tasks[i].at # "queued"
      /\ UNCHANGED <<mode, session, flags, diskFailure, tail, backup, created, promised,
                     overlap, unchangedByTask>>
  BY DEF RetryReplace
<1>2. /\ MemoryType /\ tasks \in Seq(Task) /\ FilesType /\ CountType
      /\ \A x \in Sessions : Distinct(backup[x])
  BY Parts
<1>3. \E r \in Task : /\ tasks' = [tasks EXCEPT ![i] = r]
                      /\ r.op = tasks[i].op /\ r.file = tasks[i].file
  BY <1>2, TaskGoes DEF RetryReplace
<1>4. /\ UNCHANGED <<mode, session, forceFileCreation, tail, created, overlap, unchangedByTask>>
      /\ UNCHANGED <<fileIsCurrent, rewriteRequired, diskFailure, promised, backup>>
  BY <1>1 DEF flags
<1>5. /\ fileIsCurrent' \in BOOLEAN /\ rewriteRequired' \in BOOLEAN /\ diskFailure' \in BOOLEAN
      /\ promised' \in [Sessions -> [lines : SUBSET Entries, rev : Nat]]
  BY <1>2, <1>4 DEF MemoryType, CountType
<1>6. CASE Replaced(i) /\ UNCHANGED errors
  <2>1. /\ writer' \in Writers
        /\ primary' \in [Sessions -> Seq(Content)] /\ \A x \in Sessions : Len(primary'[x]) <= 1
        /\ \A x \in Sessions : x # tasks[i].file => primary'[x] = primary[x]
    BY <1>1, <1>6, ReplacedTypes
  <2>2. FilesType' /\ errors' \in 0..MaxErrors
    BY <1>1, <1>2, <1>6, <2>1 DEF FilesType, CountType
  <2>3. \A x \in Sessions : Distinct(backup'[x])
    BY <1>1, <1>2
  <2> QED
    BY <1>1, <1>3, <1>4, <1>5, <2>1, <2>2, <2>3, ShapeStep
<1>7. CASE Fails /\ UNCHANGED <<writer, primary>>
  BY <1>1, <1>3, <1>4, <1>5, <1>7, ShapeStay
<1> QED
  BY <1>6, <1>7 DEF RetryReplace

(* The old file is moved back.                                             *)
LEMMA ShapeRollback ==
  ASSUME ShapeInv, NEW i \in DOMAIN tasks, Rollback(i)
  PROVE  ShapeInv'
<1> DEFINE s == tasks[i].file
<1>1. tasks[i].at = "rollback" /\ tasks[i].at # "queued" /\ Reject(i)
  BY DEF Rollback
<1>2. CASE UNCHANGED <<errors, writer, primary, backup>>
  BY <1>1, <1>2, ShapeFailed
<1>3. CASE Fails /\ UNCHANGED <<writer, primary, backup>>
  BY <1>1, <1>3, ShapeFailed
<1>4. ASSUME NEW k \in Moved(i),
             primary' = [primary EXCEPT ![s] = <<backup[s][k].text>>],
             backup' = [backup EXCEPT ![s] = RemoveAt(@, k)],
             writer' = CASE writer = AtBackup(s, tasks[i].moved) -> AtPrimary(s)
                         [] writer = AtPrimary(s)                -> Nameless(s)
                         [] OTHER                                -> writer,
             UNCHANGED errors
      PROVE  ShapeInv'
  <2>1. /\ MemoryType /\ FilesType /\ CountType /\ \A x \in Sessions : Distinct(backup[x])
    BY Parts
  <2>2. s \in Sessions
    BY <1>1, FileOf
  <2>3. writer' \in Writers
    BY <1>4, <2>1, <2>2, WriterKinds DEF MemoryType
  <2>4. backup[s] \in Seq(Backup) /\ k \in DOMAIN backup[s]
    BY <2>1, <2>2, FileThere DEF Moved
  <2>5. backup[s][k].text \in Content
    <3>1. backup[s][k] \in Backup
      BY <2>4, LenProperties, ElementOfSeq
    <3> QED
      BY <3>1 DEF Backup
  <2>6. /\ primary' \in [Sessions -> Seq(Content)] /\ \A x \in Sessions : Len(primary'[x]) <= 1
        /\ \A x \in Sessions : x # s => primary'[x] = primary[x]
    BY <1>4, <2>1, <2>2, <2>5, FileWritten
  <2> DEFINE q == RemoveAt(backup[s], k)
  <2>7. q \in Seq(Backup) /\ Distinct(q)
    BY <2>1, <2>2, <2>4, BackupTaken
  <2>8. backup' = [backup EXCEPT ![s] = q]
    BY <1>4
  <2> HIDE DEF q, s
  <2>9. /\ backup' \in [Sessions -> Seq(Backup)] /\ backup'[s] = q
        /\ \A x \in Sessions : x # s => backup'[x] = backup[x]
    BY <2>1, <2>2, <2>7, <2>8, BackupsSet
  <2>10. FilesType'
    BY <2>6, <2>9 DEF FilesType
  <2>11. \A x \in Sessions : Distinct(backup'[x])
    BY <2>1, <2>7, <2>9
  <2>12. /\ diskFailure' = TRUE /\ tasks' = RemoveAt(tasks, i)
         /\ UNCHANGED <<mode, session, forceFileCreation, tail, created, overlap, unchangedByTask>>
         /\ UNCHANGED <<fileIsCurrent, rewriteRequired, promised>>
    BY <1>1 DEF Reject, Settle, flags
  <2>13. /\ errors' \in 0..MaxErrors /\ fileIsCurrent' \in BOOLEAN
         /\ rewriteRequired' \in BOOLEAN /\ diskFailure' \in BOOLEAN
         /\ promised' \in [Sessions -> [lines : SUBSET Entries, rev : Nat]]
    BY <1>4, <2>1, <2>12 DEF MemoryType, CountType
  <2>14. \A x \in Sessions : x # tasks[i].file =>
           primary'[x] = primary[x] /\ backup'[x] = backup[x] /\ promised'[x] = promised[x]
    BY <2>6, <2>9, <2>12 DEF s
  <2> QED
    BY <1>1, <2>3, <2>10, <2>11, <2>12, <2>13, <2>14, ShapeStep
<1> QED
  BY <1>2, <1>3, <1>4 DEF Rollback

(* The old file is deleted.                                                *)
LEMMA ShapeUnlink ==
  ASSUME ShapeInv, NEW i \in DOMAIN tasks, Unlink(i)
  PROVE  ShapeInv'
<1> DEFINE s == tasks[i].file
<1>1. tasks[i].at = "unlink" /\ tasks[i].at # "queued"
  BY DEF Unlink
<1>2. /\ MemoryType /\ FilesType /\ CountType /\ \A x \in Sessions : Distinct(backup[x])
  BY Parts
<1>3. /\ Promise(s, tasks[i].body) /\ tasks' = RemoveAt(tasks, i)
      /\ fileIsCurrent' = TRUE /\ rewriteRequired' = FALSE
      /\ UNCHANGED <<mode, session, forceFileCreation, diskFailure, tail, created,
                     overlap, unchangedByTask>>
      /\ primary' = primary
      /\ errors' = errors \/ Fails
  BY DEF Unlink, Finish, Settle
<1>4. s \in Sessions
  BY <1>1, FileOf
<1>5. /\ writer' \in Writers /\ backup' \in [Sessions -> Seq(Backup)]
      /\ \A x \in Sessions : x # s => backup'[x] = backup[x]
      /\ \A x \in Sessions : Distinct(backup'[x])
  <2>1. CASE UNCHANGED <<writer, backup>>
    BY <1>2, <2>1 DEF MemoryType, FilesType
  <2>2. ASSUME NEW k \in Moved(i), backup' = [backup EXCEPT ![s] = RemoveAt(@, k)],
               Renamed(AtBackup(s, tasks[i].moved), Nameless(s))
        PROVE  <1>5
    <3>1. backup[s] \in Seq(Backup) /\ k \in DOMAIN backup[s]
      BY <1>2, <1>4, FileThere DEF Moved
    <3> DEFINE q == RemoveAt(backup[s], k)
    <3>2. q \in Seq(Backup) /\ Distinct(q)
      BY <1>2, <1>4, <3>1, BackupTaken
    <3>3. backup' = [backup EXCEPT ![s] = q]
      BY <2>2
    <3>4. writer' \in Writers
      BY <1>2, <1>4, <2>2, WriterKinds DEF Renamed, MemoryType
    <3> HIDE DEF q, s
    <3>5. /\ backup' \in [Sessions -> Seq(Backup)] /\ backup'[s] = q
          /\ \A x \in Sessions : x # s => backup'[x] = backup[x]
      BY <1>2, <1>4, <3>2, <3>3, BackupsSet
    <3> QED
      BY <1>2, <3>2, <3>4, <3>5
  <2> QED
    BY <2>1, <2>2 DEF Unlink
<1>6. /\ promised' \in [Sessions -> [lines : SUBSET Entries, rev : Nat]]
      /\ \A x \in Sessions : x # s => promised'[x] = promised[x]
  BY <1>1, <1>3, Finished
<1>7. FilesType'
  BY <1>2, <1>3, <1>5 DEF FilesType
<1>8. /\ errors' \in 0..MaxErrors /\ diskFailure' \in BOOLEAN /\ fileIsCurrent' \in BOOLEAN
      /\ rewriteRequired' \in BOOLEAN
  <2>1. errors' \in 0..MaxErrors
    <3>1. errors \in 0..MaxErrors
      BY <1>2 DEF CountType
    <3>2. errors' = errors \/ (errors < MaxErrors /\ errors' = errors + 1)
      BY <1>3 DEF Fails
    <3> QED
      BY <3>1, <3>2, Bounds
  <2>2. diskFailure' \in BOOLEAN
    BY <1>2, <1>3 DEF MemoryType
  <2> QED
    BY <1>3, <2>1, <2>2
<1> QED
  BY <1>1, <1>3, <1>5, <1>6, <1>7, <1>8, ShapeStep

(* Nothing has happened yet.                                               *)
LEMMA ShapeInit ==
  ASSUME Init
  PROVE  ShapeInv
<1>1. entries \in Seq(Entries) /\ tasks \in Seq(Task)
  BY EmptySeq, Zenon DEF Init
<1>2. <<>> \in Seq(Content) /\ <<>> \in Seq(Backup) /\ Len(<<>>) = 0
  BY EmptySeq
<1>3. writer \in Writers
  BY WriterKinds DEF Init
<1>4. MemoryType
  <2>1. 1 \in Sessions
    BY Bounds
  <2> QED
    BY <1>1, <1>3, <2>1 DEF Init, MemoryType
<1>5. FilesType
  <2>1. \A s \in Sessions : primary[s] = <<>>
    BY DEF Init
  <2>2. primary \in [Sessions -> Seq(Content)] /\ backup \in [Sessions -> Seq(Backup)]
    BY <1>2 DEF Init
  <2>3. \A s \in Sessions : Len(primary[s]) <= 1
    BY <1>2, <2>1
  <2> QED
    BY <2>2, <2>3 DEF FilesType
<1>6. CountType
  <2>1. created \in Sessions /\ 0 \in 0..MaxOps /\ 0 \in 0..MaxErrors /\ 0 \in 0..MaxStarts
        /\ 0 \in 0..MaxEntries
    BY Bounds DEF Init
  <2>2. owned \in [Sessions -> SUBSET Entries]
    BY DEF Init
  <2>3. promised \in [Sessions -> [lines : SUBSET Entries, rev : Nat]]
    BY DEF Init
  <2> QED
    BY <2>1, <2>2, <2>3 DEF Init, CountType
<1>7. ChainInv
  BY DEF Init, ChainInv, OneCommand, ToSet
<1>8. FreshInv
  BY DEF Init, FreshInv, Distinct
<1> QED
  BY <1>1, <1>4, <1>5, <1>6, <1>7, <1>8, TypeParts DEF ShapeInv

(* Every step keeps the shape.                                             *)
LEMMA ShapeNext ==
  ASSUME ShapeInv, [Next]_vars
  PROVE  ShapeInv'
<1>1. CASE UNCHANGED vars
  <2>1. UNCHANGED <<mode, session, header, entries, rev, flags, writer, diskEpoch, diskFailure,
                    tail, tasks, primary, backup, bounds, owned, promised, overlap, torn>>
    BY <1>1 DEF vars
  <2>2. TypeOK'
    BY <2>1, Parts, TypePartsAfter DEF MemoryType, FilesType, CountType, flags, bounds
  <2>3. ChainInv'
    BY <2>1, Parts DEF ChainInv, Fits, bounds
  <2>4. FreshInv'
    BY <2>1, Parts DEF FreshInv, bounds
  <2> QED
    BY <2>2, <2>3, <2>4 DEF ShapeInv
<1>2. ASSUME NEW i \in DOMAIN tasks, TaskStep(i) PROVE ShapeInv'
  BY <1>2, ShapeNoEffect, ShapeClose, ShapeDrain, ShapeBegin, ShapeReplace, ShapeMoveAside,
     ShapeRetry, ShapeRollback, ShapeUnlink DEF TaskStep
<1>3. CASE Next
  BY <1>2, <1>3, ShapeRecord, ShapeOperation, ShapeFlushSync, ShapeSwitch, ShapeBranch,
     ShapeLoad, ShapeCrash, ShapeStart DEF Next
<1> QED
  BY <1>1, <1>3

-----------------------------------------------------------------------------
(* While nothing has overtaken scheduled work.                             *)

(* What fits a file goes on fitting it.                                    *)
LEMMA FairStays ==
  ASSUME NEW s \in Sessions, NEW c, Fair(s, c), owned[s] \subseteq owned'[s], torn => torn'
  PROVE  Fair(s, c)'
BY DEF Fair, Good

(* The files stay and the histories grow; a session that begins has none.  *)
LEMMA FilesGrow ==
  ASSUME FilesGood, UNCHANGED <<primary, backup>>, torn' = torn,
         \A s \in Sessions : owned'[s] \subseteq 1..recorded',
         \A s \in Sessions : owned[s] \subseteq owned'[s] \/ (primary[s] = <<>> /\ backup[s] = <<>>)
  PROVE  FilesGood'
<1>1. ASSUME NEW s \in Sessions, owned[s] \subseteq owned'[s]
      PROVE  (/\ \A k \in DOMAIN primary[s] : Fair(s, primary[s][k])
              /\ \A k \in DOMAIN backup[s] : Fair(s, backup[s][k].text))'
  <2>1. \A c : Fair(s, c) => Fair(s, c)'
    BY <1>1, FairStays
  <2> QED
    BY <2>1 DEF FilesGood
<1>2. ASSUME NEW s \in Sessions, primary[s] = <<>>, backup[s] = <<>>
      PROVE  (/\ \A k \in DOMAIN primary[s] : Fair(s, primary[s][k])
              /\ \A k \in DOMAIN backup[s] : Fair(s, backup[s][k].text))'
  <2>1. DOMAIN primary'[s] = {} /\ DOMAIN backup'[s] = {}
    BY <1>2
  <2> QED
    BY <2>1
<1>3. (\A s \in Sessions :
         /\ \A k \in DOMAIN primary[s] : Fair(s, primary[s][k])
         /\ \A k \in DOMAIN backup[s] : Fair(s, backup[s][k].text))'
  BY <1>1, <1>2
<1> QED
  BY <1>3 DEF FilesGood

(* Files move and change, within what they may hold.                       *)
LEMMA FilesMove ==
  ASSUME FilesGood, UNCHANGED <<owned, recorded, torn>>,
         \A s \in Sessions : \A k \in DOMAIN primary'[s] : Fair(s, primary'[s][k]),
         \A s \in Sessions : \A k \in DOMAIN backup'[s] : Fair(s, backup'[s][k].text)
  PROVE  FilesGood'
<1>1. \A s \in Sessions : \A c : Fair(s, c) => Fair(s, c)'
  BY DEF Fair, Good
<1> QED
  BY <1>1 DEF FilesGood

(* Nothing that was promised is lost where a start loads the same.         *)
LEMMA StoredSame ==
  ASSUME AllStored, UNCHANGED <<promised, torn>>, \A s \in Sessions : Recovered(s)' = Recovered(s)
  PROVE  AllStored'
BY DEF AllStored, Stored

(* Only one session is written and promised.                               *)
LEMMA StoredOne ==
  ASSUME AllStored, torn' = torn, NEW s \in Sessions, ~torn => Stored(s)',
         \A x \in Sessions : x # s => promised'[x] = promised[x] /\ Recovered(x)' = Recovered(x)
  PROVE  AllStored'
<1>1. ASSUME NEW x \in Sessions, ~torn' PROVE Stored(x)'
  <2>1. CASE x = s
    BY <1>1, <2>1
  <2>2. CASE x # s
    BY <1>1, <2>2 DEF AllStored, Stored
  <2> QED
    BY <2>1, <2>2
<1> QED
  BY <1>1 DEF AllStored

(* What a start loads depends on the files of the session alone.           *)
LEMMA RecoveredSame ==
  ASSUME NEW s \in Sessions, primary'[s] = primary[s], backup'[s] = backup[s]
  PROVE  Recovered(s)' = Recovered(s)
BY DEF Recovered, OnPath

(* A file on its path is what a start loads.                               *)
LEMMA RecoveredPath ==
  ASSUME NEW s \in Sessions, primary[s] # <<>>
  PROVE  Recovered(s) = primary[s][1]
BY DEF Recovered, OnPath

(* The same, after a step.                                                 *)
LEMMA RecoveredPathAfter ==
  ASSUME NEW s \in Sessions, primary'[s] # <<>>
  PROVE  Recovered(s)' = primary'[s][1]
BY DEF Recovered, OnPath

(* Scheduling work and settling it without an effect.                      *)
LEMMA CleanQuiet ==
  ASSUME ShapeInv, CleanInv,
         UNCHANGED <<mode, session, header, entries, fileIsCurrent, rewriteRequired, diskFailure,
                     primary, backup, recorded, owned, promised, torn>>,
         rev' \in Nat, rev <= rev', Inside' = Inside, OneInside(tasks'),
         \A t \in ToSet(tasks') : t \in ToSet(tasks) \/ t.op # "drain" \/ t.next # "switch"
  PROVE  CleanInv'
<1>0. MemoryType /\ CountType /\ tasks \in Seq(Task) /\ session \in Sessions
  BY Parts
<1>1. FilesGood' /\ AllStored'
  BY FilesGrow, StoredSame DEF CleanInv, FilesGood, Recovered, OnPath
<1>2. MemoryGood'
  <2>1. Good(session, Body(entries)) => Good(session, Body(entries))'
    BY DEF Good, Body
  <2>2. Covers(Body(entries), session) => Covers(Body(entries), session)'
    <3>1. promised[session].rev \in Nat /\ rev \in Nat
      BY <1>0 DEF CountType, MemoryType
    <3>2. promised[session].rev <= rev => promised[session].rev <= rev'
      BY <3>1
    <3> QED
      BY <3>2 DEF Covers, Body
  <2> QED
    BY <2>1, <2>2 DEF CleanInv, MemoryGood
<1>3. Synced'
  BY DEF CleanInv, Synced, Cold
<1>4. WindowGood'
  <2>1. ASSUME NEW t \in Inside PROVE Replaces(t)'
    <3>1. Replaces(t) /\ t \in Task
      BY <1>0, LenProperties, ElementOfSeq DEF CleanInv, WindowGood, Inside, ToSet
    <3>2. t.body.rev <= rev'
      <4>1. t.body.rev \in Nat /\ rev \in Nat
        BY <1>0, <3>1, TaskFields, ContentFields DEF MemoryType
      <4> QED
        BY <3>1, <4>1 DEF Replaces
    <3>3. Covers(t.body, session)' /\ Good(session, t.body)'
      BY <3>1 DEF Replaces, Covers, Good
    <3> QED
      BY <3>1, <3>2, <3>3 DEF Replaces
  <2> QED
    BY <2>1 DEF WindowGood
<1>5. SwitchGood'
  BY DEF CleanInv, SwitchGood
<1> QED
  BY <1>1, <1>2, <1>3, <1>4, <1>5 DEF CleanInv

(* The operations that only schedule work.                                 *)
LEMMA CleanOperation ==
  ASSUME ShapeInv, CleanInv,
         RewriteEntries \/ SetSessionName \/ EnsureOnDisk \/ Flush \/ NewSession \/ Fork \/ Close
  PROVE  CleanInv'
<1>1. MemoryType /\ tasks \in Seq(Task)
  BY Parts
<1>2. /\ UNCHANGED unchangedByOp /\ fileIsCurrent' = fileIsCurrent
      /\ rewriteRequired' = rewriteRequired /\ rev' \in {rev, rev + 1}
  BY DEF RewriteEntries, SetSessionName, EnsureOnDisk, Flush, NewSession, Fork, Close, Command,
         Operation, flags
<1>3. \/ tasks' = tasks
      \/ \E op \in {"rewrite", "flush", "drain", "close"}, next \in {"none", "new", "fork"} :
           Schedule(op, next)
  BY DEF RewriteEntries, SetSessionName, EnsureOnDisk, Flush, NewSession, Fork, Close, Command
<1>4. /\ Inside' = Inside /\ OneInside(tasks')
      /\ \A t \in ToSet(tasks') : t \in ToSet(tasks) \/ t.op # "drain" \/ t.next # "switch"
  <2>1. CASE tasks' = tasks
    BY <2>1 DEF Inside, CleanInv, WindowGood
  <2>2. ASSUME NEW op \in {"rewrite", "flush", "drain", "close"},
               NEW next \in {"none", "new", "fork"}, Schedule(op, next)
        PROVE  <1>4
    <3>1. PICK t \in Task : tasks' = Append(tasks, t) /\ t.at = "queued" /\ t.next = next
      BY <1>1, <2>2, Scheduled DEF Schedule
    <3>2. ToSet(tasks') = ToSet(tasks) \cup {t} /\ Inside' = Inside
          /\ (OneInside(tasks) => OneInside(tasks'))
      BY <1>1, <3>1, TaskAppended
    <3> QED
      BY <3>1, <3>2 DEF CleanInv, WindowGood
  <2> QED
    BY <1>3, <2>1, <2>2
<1>5. rev' \in Nat /\ rev <= rev'
  BY <1>1, <1>2 DEF MemoryType
<1> QED
  BY <1>2, <1>4, <1>5, CleanQuiet DEF unchangedByOp

(* Tasks that settle without an effect.                                    *)
LEMMA CleanNoEffect ==
  ASSUME ShapeInv, CleanInv, NEW i \in DOMAIN tasks, SkipTask(i) \/ RunFlush(i)
  PROVE  CleanInv'
<1>1. MemoryType /\ tasks \in Seq(Task)
  BY Parts
<1>2. /\ tasks[i].at = "queued" /\ tasks' = RemoveAt(tasks, i)
      /\ UNCHANGED <<mode, session, flags, writer, diskFailure, tail, primary, backup,
                     errors, created, promised, overlap, unchangedByTask>>
  BY DEF SkipTask, RunFlush, Settle, Ready, Runs
<1>3. /\ Inside' = Inside /\ ToSet(tasks') \subseteq ToSet(tasks)
      /\ OneInside(tasks) => OneInside(tasks')
  BY <1>1, <1>2, TaskSettled
<1>4. rev' \in Nat /\ rev <= rev'
  BY <1>1, <1>2 DEF MemoryType, unchangedByTask
<1>5. OneInside(tasks')
  BY <1>3 DEF CleanInv, WindowGood
<1>6. UNCHANGED <<mode, session, header, entries, fileIsCurrent, rewriteRequired, diskFailure,
                  primary, backup, recorded, owned, promised, torn>>
  BY <1>2 DEF unchangedByTask, flags
<1> QED
  BY <1>3, <1>4, <1>5, <1>6, CleanQuiet

(* A close: what a rewrite under way still does is good as before.         *)
LEMMA CleanClose ==
  ASSUME ShapeInv, CleanInv, NEW i \in DOMAIN tasks, RunClose(i)
  PROVE  CleanInv'
<1>1. /\ MemoryType /\ tasks \in Seq(Task) /\ ChainInv
  BY Parts
<1>2. /\ tasks[i].at = "queued" /\ tasks[i].op = "close" /\ tasks' = RemoveAt(tasks, i)
      /\ mode' = "closed"
      /\ UNCHANGED <<session, diskFailure, primary, backup, promised, header, entries, rev,
                     recorded, owned, torn>>
  BY DEF RunClose, Settle, Ready, Runs, unchangedByTask
<1>3. mode = "live"
  BY <1>1, <1>2, TaskOf DEF ChainInv, Fits
<1>4. Inside' = Inside /\ ToSet(tasks') \subseteq ToSet(tasks) /\ (OneInside(tasks) => OneInside(tasks'))
  BY <1>1, <1>2, TaskSettled
<1>5. FilesGood' /\ AllStored'
  BY <1>2, FilesGrow, StoredSame DEF CleanInv, FilesGood, Recovered, OnPath
<1>6. MemoryGood'
  BY <1>2, <1>3 DEF CleanInv, MemoryGood, Good, Covers, Body
<1>7. Synced'
  BY <1>2 DEF Synced
<1>8. WindowGood'
  <2>1. ASSUME NEW t \in Inside PROVE Replaces(t)'
    <3>1. Replaces(t)
      BY DEF CleanInv, WindowGood
    <3>2. Covers(t.body, session)' /\ Good(session, t.body)'
      BY <1>2, <3>1 DEF Replaces, Covers, Good
    <3> QED
      BY <1>2, <3>1, <3>2 DEF Replaces
  <2> QED
    BY <1>4, <2>1 DEF CleanInv, WindowGood
<1>9. SwitchGood'
  BY <1>2, <1>4 DEF CleanInv, SwitchGood
<1> QED
  BY <1>5, <1>6, <1>7, <1>8, <1>9 DEF CleanInv

(* A listing that repairs the directory changes nothing of what counts.    *)
LEMMA CleanSwitch ==
  ASSUME ShapeInv, CleanInv, SwitchSession
  PROVE  CleanInv'
<1>1. /\ MemoryType /\ tasks \in Seq(Task) /\ FilesType /\ CountType /\ session \in Sessions
      /\ created \in Nat /\ \A s \in Sessions : Distinct(backup[s])
  BY Parts
<1>2. PICK s \in 1..created :
        /\ s # session /\ primary'[s] # <<>>
        /\ tasks' = Append(tasks, [NewTask("drain", "switch") EXCEPT !.file = s])
  BY DEF SwitchSession
<1>3. /\ mode = "live" /\ RecoverOrphanedBackups
      /\ UNCHANGED <<mode, session, header, entries, rev, fileIsCurrent, rewriteRequired, diskFailure,
                     recorded, owned, promised, torn>>
  BY DEF SwitchSession, Operation, flags
<1>4. PICK t \in Task : /\ tasks' = Append(tasks, t)
                        /\ t.at = "queued" /\ t.file = s
  <2>1. PICK n \in Task : n = NewTask("drain", "switch") /\ n.at = "queued"
    BY <1>1, Scheduled
  <2>2. s \in 0..MaxSessions
    BY <1>1, Bounds DEF CountType
  <2>3. [n EXCEPT !.file = s] \in Task /\ [n EXCEPT !.file = s].at = "queued"
        /\ [n EXCEPT !.file = s].file = s
    BY <2>1, <2>2 DEF Task
  <2> QED
    BY <1>2, <2>1, <2>3
<1>5. /\ ToSet(tasks') = ToSet(tasks) \cup {t} /\ Inside' = Inside
      /\ OneInside(tasks) => OneInside(tasks')
  BY <1>1, <1>4, TaskAppended
<1>6. \A x \in Sessions :
        /\ Recovered(x)' = Recovered(x)
        /\ primary[x] # <<>> => primary'[x] = primary[x] /\ backup'[x] = backup[x]
        /\ backup[x] # <<>> => primary'[x] # <<>>
        /\ \A k \in DOMAIN primary'[x] :
             primary'[x] = primary[x] \/ \E l \in DOMAIN backup[x] : primary'[x][k] = backup[x][l].text
        /\ \A k \in DOMAIN backup'[x] : \E l \in DOMAIN backup[x] : backup'[x][k] = backup[x][l]
        /\ primary[x] = <<>> =>
             \A k \in DOMAIN backup'[x] : backup'[x][k].name # Last(backup[x]).name
  BY <1>1, <1>3, Repaired
<1>7. FilesGood'
  <2>1. \A x \in Sessions : \A k \in DOMAIN primary'[x] : Fair(x, primary'[x][k])
    BY <1>6 DEF CleanInv, FilesGood
  <2>2. \A x \in Sessions : \A k \in DOMAIN backup'[x] : Fair(x, backup'[x][k].text)
    BY <1>6 DEF CleanInv, FilesGood
  <2> QED
    BY <1>3, <2>1, <2>2, FilesMove DEF CleanInv
<1>8. AllStored'
  BY <1>3, <1>6, StoredSame DEF CleanInv
<1>9. MemoryGood'
  BY <1>3 DEF CleanInv, MemoryGood, Good, Covers, Body
<1>10. Synced'
  BY <1>1, <1>3, <1>5, <1>6 DEF CleanInv, Synced, Cold
<1>11. WindowGood'
  <2>1. ASSUME NEW u \in Inside PROVE Replaces(u)'
    <3>1. Replaces(u)
      BY DEF CleanInv, WindowGood
    <3>2. Covers(u.body, session)' /\ Good(session, u.body)'
      BY <1>3, <3>1 DEF Replaces, Covers, Good
    <3>3. ASSUME u.at \in {"retry", "rollback"}
          PROVE  primary'[session] # <<>> /\ \A k \in DOMAIN backup'[session] :
                                               backup'[session][k].name # u.moved
      <4>1. CASE primary[session] = <<>>
        BY <1>1, <1>6, <3>1, <3>3, <4>1 DEF Replaces
      <4>2. CASE primary[session] # <<>>
        BY <1>1, <1>6, <3>1, <3>3, <4>2 DEF Replaces
      <4> QED
        BY <4>1, <4>2
    <3>4. u.at = "unlink" => primary'[session] = <<u.body>>
      BY <1>1, <1>6, <3>1 DEF Replaces
    <3> QED
      BY <1>3, <3>1, <3>2, <3>3, <3>4 DEF Replaces
  <2> QED
    BY <1>5, <2>1 DEF CleanInv, WindowGood
<1>12. SwitchGood'
  <2>1. ASSUME NEW u \in ToSet(tasks), u.op = "drain", u.next = "switch" PROVE primary'[u.file] # <<>>
    <3>1. u.file \in Sessions
      <4>1. Fits(u)
        BY Parts DEF ChainInv
      <4>2. u.at = "queued" \/ u.at # "queued"
        OBVIOUS
      <4> QED
        BY <1>1, <2>1, <4>1, Bounds DEF Fits, CountType
    <3> QED
      BY <1>6, <2>1, <3>1 DEF CleanInv, SwitchGood
  <2> QED
    BY <1>2, <1>4, <1>5, <2>1 DEF SwitchGood
<1> QED
  BY <1>7, <1>8, <1>9, <1>10, <1>11, <1>12 DEF CleanInv

(* A crash takes the memory and leaves the directory.                      *)
LEMMA CleanCrash ==
  ASSUME ShapeInv, CleanInv, Crash
  PROVE  CleanInv'
<1>1. /\ mode' = "down" /\ tasks' = <<>> /\ entries' = <<>>
      /\ UNCHANGED <<primary, backup, recorded, owned, promised, torn>>
  BY DEF Crash, ResetTo, bounds
<1>2. FilesGood' /\ AllStored'
  BY <1>1, FilesGrow, StoredSame DEF CleanInv, FilesGood, Recovered, OnPath
<1>3. ToSet(tasks') = {} /\ ToSet(entries') = {} /\ DOMAIN entries' = {} /\ DOMAIN tasks' = {}
  BY <1>1 DEF ToSet
<1>4. MemoryGood' /\ Synced'
  BY <1>1, <1>3 DEF MemoryGood, Synced, Ascending
<1>5. WindowGood' /\ SwitchGood'
  BY <1>3 DEF WindowGood, SwitchGood, OneInside, Inside
<1> QED
  BY <1>2, <1>4, <1>5 DEF CleanInv

(* A rewrite in place of what the memory then holds: complete, refused, or *)
(* torn.                                                                   *)
LEMMA CleanRewrite ==
  ASSUME ShapeInv, CleanInv, ~overlap', NEW s \in Sessions, NEW c \in Content,
         RewriteSynchronously(s, c), UNCHANGED <<backup, tasks>>,
         mode' = "live", session' = s, header' = s, entries' = c.lines, rev' = c.rev,
         c.hdr = s, Ascending(c.lines), ToSet(c.lines) \subseteq owned'[s], Covers(c, s),
         \A x \in Sessions : owned'[x] \subseteq 1..recorded',
         \A x \in Sessions : owned[x] \subseteq owned'[x] \/ (primary[x] = <<>> /\ backup[x] = <<>>)
  PROVE  CleanInv'
<1>1. MemoryType /\ tasks \in Seq(Task) /\ FilesType /\ CountType
  BY Parts
<1>2. Inside = {} /\ Commands = {}
  BY TaskSets DEF RewriteSynchronously
<1>3. WindowGood' /\ SwitchGood'
  <2>1. ToSet(tasks') = ToSet(tasks) /\ Inside' = {}
    BY <1>2 DEF Inside
  <2>2. OneInside(tasks')
    BY DEF CleanInv, WindowGood
  <2>3. \A t \in ToSet(tasks) : t.op # "drain"
    BY <1>2 DEF Commands
  <2> QED
    BY <2>1, <2>2, <2>3 DEF WindowGood, SwitchGood
<1>4. Good(s, c)' /\ Good(session, Body(entries))'
  BY DEF Good, Body
<1>5. c.rev \in Nat /\ c.lines \in Seq(Entries)
  BY ContentFields
<1>6. Inside' = {} /\ Ascending(entries)' /\ ToSet(entries') \subseteq 1..recorded'
  BY <1>2 DEF Inside, Ascending
<1>7. Covers(c, s)' => MemoryGood'
  BY <1>4, <1>6 DEF MemoryGood, Covers, Body
<1>8. ASSUME NEW x \in Sessions, x # s, primary'[x] = primary[x]
      PROVE  /\ (\A k \in DOMAIN primary[x] : Fair(x, primary[x][k]))'
             /\ Recovered(x)' = Recovered(x)
  <2>1. (torn => torn') => \A d : Fair(x, d) /\ owned[x] \subseteq owned'[x] => Fair(x, d)'
    BY FairStays
  <2>2. torn => torn'
    BY DEF RewriteSynchronously
  <2>3. primary[x] = <<>> => DOMAIN primary[x] = {}
    OBVIOUS
  <2> QED
    BY <1>8, <2>1, <2>2, <2>3, RecoveredSame DEF CleanInv, FilesGood
<1>9. \A x \in Sessions : (\A k \in DOMAIN backup[x] : Fair(x, backup[x][k].text))'
  <2> TAKE x \in Sessions
  <2>1. (torn => torn') => \A d : Fair(x, d) /\ owned[x] \subseteq owned'[x] => Fair(x, d)'
    BY FairStays
  <2>2. torn => torn'
    BY DEF RewriteSynchronously
  <2>3. backup[x] = <<>> => DOMAIN backup[x] = {}
    OBVIOUS
  <2> QED
    BY <2>1, <2>2, <2>3 DEF CleanInv, FilesGood
<1>10. CASE /\ primary' = [primary EXCEPT ![s] = <<c>>]
            /\ fileIsCurrent' = TRUE /\ rewriteRequired' = FALSE
            /\ Promise(s, c)
            /\ UNCHANGED <<diskFailure, errors, torn>>
  <2>1. /\ primary'[s] = <<c>> /\ primary'[s] # <<>> /\ primary'[s][1] = c /\ DOMAIN primary'[s] = {1}
        /\ \A x \in Sessions : x # s => primary'[x] = primary[x]
    BY <1>1, <1>10, FileWritten
  <2>2. /\ promised'[s].lines = promised[s].lines \cup ToSet(c.lines)
        /\ promised'[s].rev = (IF c.rev > promised[s].rev THEN c.rev ELSE promised[s].rev)
        /\ \A x \in Sessions : x # s => promised'[x] = promised[x]
    BY <1>1, <1>5, <1>10, Promised
  <2>3. promised[s].rev \in Nat
    BY <1>1 DEF CountType
  <2>4. Covers(c, s)'
    BY <1>5, <1>10, <2>2, <2>3 DEF Covers
  <2>5. FilesGood'
    <3>1. (\A k \in DOMAIN primary[s] : Fair(s, primary[s][k]))'
      BY <1>4, <2>1 DEF Fair
    <3>2. \A x \in Sessions : (\A k \in DOMAIN primary[x] : Fair(x, primary[x][k]))'
      BY <1>8, <2>1, <3>1
    <3> QED
      BY <1>9, <3>2 DEF FilesGood
  <2>6. AllStored'
    <3>1. ASSUME ~torn PROVE Stored(s)'
      <4>1. Recovered(s)' = c
        BY <2>1, RecoveredPathAfter
      <4> QED
        BY <1>10, <2>4, <3>1, <4>1 DEF Stored, Covers
    <3> QED
      BY <1>8, <1>10, <2>1, <2>2, <3>1, StoredOne DEF CleanInv
  <2>7. Synced'
    BY <2>1 DEF Synced
  <2> QED
    BY <1>3, <1>7, <2>4, <2>5, <2>6, <2>7 DEF CleanInv
<1>11. CASE diskFailure' = TRUE /\ UNCHANGED <<primary, torn, promised>>
  <2>1. FilesGood'
    BY <1>11, FilesGrow DEF CleanInv
  <2>2. AllStored'
    BY <1>11, StoredSame DEF CleanInv, Recovered, OnPath
  <2>3. Covers(c, s)'
    BY <1>11 DEF Covers
  <2>4. Synced'
    BY <1>11 DEF Synced
  <2> QED
    BY <1>3, <1>7, <2>1, <2>2, <2>3, <2>4 DEF CleanInv
<1>12. CASE diskFailure' = TRUE /\ primary' = [primary EXCEPT ![s] = <<Blank>>] /\ torn' = TRUE
  <2>1. /\ primary'[s][1] = Blank /\ DOMAIN primary'[s] = {1}
        /\ \A x \in Sessions : x # s => primary'[x] = primary[x]
    BY <1>1, <1>12, BlankType, FileWritten
  <2>2. FilesGood'
    <3>1. (\A k \in DOMAIN primary[s] : Fair(s, primary[s][k]))'
      BY <1>12, <2>1 DEF Fair, Blank
    <3>2. \A x \in Sessions : (\A k \in DOMAIN primary[x] : Fair(x, primary[x][k]))'
      BY <1>8, <2>1, <3>1
    <3> QED
      BY <1>9, <3>2 DEF FilesGood
  <2>3. AllStored' /\ Covers(c, s)' /\ Synced'
    BY <1>12 DEF AllStored, Covers, Synced
  <2> QED
    BY <1>3, <1>7, <2>2, <2>3 DEF CleanInv
<1> QED
  BY <1>10, <1>11, <1>12 DEF RewriteSynchronously

(* A title or a Ctrl-C written in place.                                   *)
LEMMA CleanFlushSync ==
  ASSUME ShapeInv, CleanInv, ~overlap', FlushSync
  PROVE  CleanInv'
<1>1. /\ MemoryType /\ CountType /\ session \in Sessions
  BY Parts
<1>2. /\ mode \in {"live", "loading"}
      /\ RewriteSynchronously(session, Body(entries))
      /\ UNCHANGED <<mode, session, header, entries, rev, tasks, backup, recorded, owned>>
  BY DEF FlushSync, AnyTime
<1>3. mode = "live"
  BY <1>2 DEF RewriteSynchronously
<1> DEFINE c == Body(entries)
<1>4. c \in Content /\ c.hdr = header /\ c.rev = rev /\ c.lines = entries
  BY <1>1, BodyType
<1>5. Good(session, c) /\ Covers(c, session)
  BY <1>3 DEF CleanInv, MemoryGood
<1>6. RewriteSynchronously(session, c)
  BY <1>2
<1> HIDE DEF c
<1>7. /\ header = session /\ Ascending(c.lines) /\ ToSet(c.lines) \subseteq owned[session]
  BY <1>4, <1>5 DEF Good
<1>8. /\ mode' = "live" /\ session' = session /\ header' = session /\ entries' = c.lines /\ rev' = c.rev
      /\ c.hdr = session /\ ToSet(c.lines) \subseteq owned'[session]
      /\ UNCHANGED <<backup, tasks>>
  BY <1>2, <1>3, <1>4, <1>7
<1>9. \A x \in Sessions : owned'[x] \subseteq 1..recorded' /\ owned[x] \subseteq owned'[x]
  BY <1>2 DEF CleanInv, FilesGood
<1> QED
  BY <1>1, <1>4, <1>5, <1>6, <1>7, <1>8, <1>9, CleanRewrite

(* A branch begins a session.                                              *)
LEMMA CleanBranch ==
  ASSUME ShapeInv, CleanInv, ~overlap', CreateBranchedSession
  PROVE  CleanInv'
<1>1. /\ MemoryType /\ CountType /\ FilesType /\ FreshInv /\ session \in Sessions /\ created \in Nat
  BY Parts
<1>2. PICK s : s = created + 1
  OBVIOUS
<1>3. PICK n \in DOMAIN entries :
        /\ session' = s /\ header' = s
        /\ entries' = SubSeq(entries, 1, n)
        /\ rev' = 0
        /\ owned' = [owned EXCEPT ![s] = ToSet(SubSeq(entries, 1, n))]
        /\ RewriteSynchronously(s, [hdr |-> s, rev |-> 0, lines |-> SubSeq(entries, 1, n)])
  BY <1>2 DEF CreateBranchedSession
<1>4. /\ mode = "live" /\ created < MaxSessions
      /\ UNCHANGED <<mode, tasks, backup, recorded>>
  BY DEF CreateBranchedSession, Operation
<1>5. s \in Sessions /\ s > created
  BY <1>1, <1>2, <1>4, Bounds
<1> DEFINE l == SubSeq(entries, 1, n)
<1>6. /\ l \in Seq(Entries) /\ DOMAIN l \subseteq DOMAIN entries /\ \A k \in DOMAIN l : l[k] = entries[k]
      /\ ToSet(l) \subseteq ToSet(entries)
  BY <1>1, Prefix DEF MemoryType
<1>7. /\ entries' = l /\ owned' = [owned EXCEPT ![s] = ToSet(l)]
      /\ RewriteSynchronously(s, [hdr |-> s, rev |-> 0, lines |-> l])
  BY <1>3
<1> HIDE DEF l
<1>8. PICK c \in Content : /\ c = [hdr |-> s, rev |-> 0, lines |-> l]
                           /\ c.hdr = s /\ c.rev = 0 /\ c.lines = l
  <2> DEFINE d == [hdr |-> s, rev |-> 0, lines |-> l]
  <2>1. d \in Content
    BY <1>5, <1>6, Bounds DEF Content
  <2>2. d.hdr = s /\ d.rev = 0 /\ d.lines = l
    OBVIOUS
  <2>3. \A c : c = d => c = [hdr |-> s, rev |-> 0, lines |-> l]
    OBVIOUS
  <2> HIDE DEF d
  <2> QED
    BY <2>1, <2>2, <2>3
<1>9. Ascending(l)
  BY <1>6 DEF CleanInv, MemoryGood, Ascending
<1>10. primary[s] = <<>> /\ backup[s] = <<>> /\ promised[s] = [lines |-> {}, rev |-> 0]
  BY <1>1, <1>5 DEF FreshInv
<1>11. Covers(c, s)
  BY <1>8, <1>10 DEF Covers
<1>12. ToSet(l) \subseteq 1..recorded
  BY <1>6 DEF CleanInv, MemoryGood
<1>13. owned'[s] = ToSet(l) /\ \A x \in Sessions : x # s => owned'[x] = owned[x]
  BY <1>1, <1>5, <1>7 DEF CountType
<1>14. \A x \in Sessions :
         /\ owned'[x] \subseteq 1..recorded'
         /\ owned[x] \subseteq owned'[x] \/ (primary[x] = <<>> /\ backup[x] = <<>>)
  BY <1>4, <1>10, <1>12, <1>13 DEF CleanInv, FilesGood
<1>15. RewriteSynchronously(s, c)
  BY <1>7, <1>8
<1>16. /\ mode' = "live" /\ session' = s /\ header' = s /\ entries' = c.lines /\ rev' = c.rev
       /\ Ascending(c.lines) /\ ToSet(c.lines) \subseteq owned'[s] /\ UNCHANGED <<backup, tasks>>
  BY <1>3, <1>4, <1>7, <1>8, <1>9, <1>13
<1> QED
  BY <1>5, <1>8, <1>11, <1>14, <1>15, <1>16, CleanRewrite

(* What an entry does to the memory and to the history.                    *)
LEMMA Recorded ==
  ASSUME ShapeInv, CleanInv, RecordEntry
  PROVE  /\ entries \in Seq(Entries) /\ entries' \in Seq(Entries) /\ recorded' = recorded + 1
         /\ recorded \in Nat /\ recorded + 1 \in Entries
         /\ ToSet(entries') = ToSet(entries) \cup {recorded + 1}
         /\ Ascending(entries') /\ ToSet(entries') \subseteq 1..recorded'
         /\ ToSet(entries') \subseteq owned'[session]
         /\ \A x \in Sessions : owned[x] \subseteq owned'[x] /\ owned'[x] \subseteq 1..recorded'
         /\ \A x \in Sessions : x # session => owned'[x] = owned[x]
         /\ mode = "live" /\ header = session
<1>1. /\ MemoryType /\ CountType /\ session \in Sessions
  BY Parts
<1> DEFINE e == recorded + 1
<1>2. /\ mode = "live" /\ recorded < MaxEntries /\ recorded' = e /\ entries' = Append(entries, e)
      /\ owned' = [owned EXCEPT ![session] = @ \cup {e}]
  BY DEF RecordEntry
<1>3. recorded \in Nat /\ e \in Entries /\ 1..recorded \subseteq 1..e /\ e \in 1..e
      /\ \A x \in 1..recorded : x < e
  BY <1>1, <1>2, Bounds DEF CountType, Entries
<1> HIDE DEF e
<1>4. entries \in Seq(Entries)
  BY <1>1 DEF MemoryType
<1>5. /\ entries' \in Seq(Entries) /\ ToSet(entries') = ToSet(entries) \cup {e}
      /\ \A k \in DOMAIN entries' :
           \/ k \in DOMAIN entries /\ entries'[k] = entries[k] /\ k < Len(entries) + 1
           \/ k = Len(entries) + 1 /\ entries'[k] = e
      /\ Len(entries) \in Nat /\ DOMAIN entries = 1..Len(entries)
  BY <1>2, <1>3, <1>4, Added, LenProperties
<1>6. ToSet(entries) \subseteq 1..recorded /\ Ascending(entries)
      /\ header = session /\ ToSet(entries) \subseteq owned[session]
  BY <1>2 DEF CleanInv, MemoryGood, Good, Body
<1>7. Ascending(entries')
  <2>1. ASSUME NEW a \in DOMAIN entries', NEW b \in DOMAIN entries', a < b
        PROVE  entries'[a] < entries'[b]
    <3>1. a \in DOMAIN entries /\ entries'[a] = entries[a]
      BY <1>5, <2>1
    <3>2. CASE b \in DOMAIN entries /\ entries'[b] = entries[b]
      BY <1>6, <2>1, <3>1, <3>2 DEF Ascending
    <3>3. CASE entries'[b] = e
      <4>1. entries[a] \in ToSet(entries)
        BY <3>1 DEF ToSet
      <4>2. entries[a] < e
        BY <1>3, <1>6, <4>1
      <4> QED
        BY <3>1, <3>3, <4>2
    <3> QED
      BY <1>5, <3>2, <3>3
  <2> QED
    BY <2>1 DEF Ascending
<1>8. ToSet(entries') \subseteq 1..recorded'
  BY <1>2, <1>3, <1>5, <1>6
<1>9. owned'[session] = owned[session] \cup {e} /\ \A x \in Sessions : x # session => owned'[x] = owned[x]
  BY <1>1, <1>2 DEF CountType
<1>10. \A x \in Sessions : owned[x] \subseteq owned'[x] /\ owned'[x] \subseteq 1..recorded'
  <2>1. \A x \in Sessions : owned[x] \subseteq 1..recorded
    BY DEF CleanInv, FilesGood
  <2> QED
    BY <1>2, <1>3, <1>9, <2>1
<1>11. ToSet(entries') \subseteq owned'[session]
  BY <1>5, <1>6, <1>9
<1> QED
  BY <1>2, <1>3, <1>4, <1>5, <1>6, <1>7, <1>8, <1>9, <1>10, <1>11 DEF e

(* An entry that is only noted: the file is not written.                   *)
LEMMA CleanNoted ==
  ASSUME ShapeInv, CleanInv, RecordEntry, UNCHANGED <<primary, backup, promised, torn, rewriteRequired>>,
         diskFailure' \/ (~fileIsCurrent' /\ Inside = {})
  PROVE  CleanInv'
<1>1. /\ MemoryType /\ CountType /\ session \in Sessions /\ tasks \in Seq(Task)
  BY Parts
<1>2. UNCHANGED <<mode, session, header, rev, tasks>>
  BY DEF RecordEntry
<1>3. /\ ToSet(entries') = ToSet(entries) \cup {recorded + 1}
      /\ Ascending(entries') /\ ToSet(entries') \subseteq 1..recorded'
      /\ ToSet(entries') \subseteq owned'[session]
      /\ \A x \in Sessions : owned[x] \subseteq owned'[x] /\ owned'[x] \subseteq 1..recorded'
      /\ mode = "live" /\ header = session
  BY Recorded
<1>4. FilesGood'
  BY <1>3, FilesGrow DEF CleanInv
<1>5. AllStored'
  BY StoredSame DEF CleanInv, Recovered, OnPath
<1>6. MemoryGood'
  <2>1. Good(session, Body(entries))'
    BY <1>2, <1>3 DEF Good, Body
  <2>2. Covers(Body(entries), session)'
    BY <1>2, <1>3 DEF CleanInv, MemoryGood, Covers, Body
  <2> QED
    BY <1>2, <1>3, <2>1, <2>2 DEF MemoryGood
<1>7. Synced'
  BY DEF Synced, Cold
<1>8. WindowGood'
  <2>1. ASSUME NEW t \in Inside PROVE Replaces(t)'
    <3>1. Replaces(t)
      BY DEF CleanInv, WindowGood
    <3>2. Covers(t.body, session)'
      BY <1>2, <3>1 DEF Replaces, Covers
    <3>3. Good(session, t.body)'
      BY <1>1, <1>2, <1>3, <3>1 DEF Replaces, Good
    <3> QED
      BY <1>2, <1>3, <3>1, <3>2, <3>3 DEF Replaces
  <2>2. Inside' = Inside
    BY <1>2 DEF Inside
  <2> QED
    BY <1>2, <2>1, <2>2 DEF CleanInv, WindowGood
<1>9. SwitchGood'
  BY <1>2 DEF CleanInv, SwitchGood
<1> QED
  BY <1>4, <1>5, <1>6, <1>7, <1>8, <1>9 DEF CleanInv

(* An entry that begins or repairs the file.                               *)
LEMMA CleanCold ==
  ASSUME ShapeInv, CleanInv, RecordEntry, ~overlap', backup' = backup,
         RewriteSynchronously(session, Body(entries'))
  PROVE  CleanInv'
<1>1. /\ MemoryType /\ CountType /\ session \in Sessions
  BY Parts
<1>2. UNCHANGED <<mode, session, header, rev, tasks>>
  BY DEF RecordEntry
<1>3. /\ entries' \in Seq(Entries) /\ ToSet(entries') = ToSet(entries) \cup {recorded + 1}
      /\ Ascending(entries')
      /\ ToSet(entries') \subseteq owned'[session]
      /\ \A x \in Sessions : owned[x] \subseteq owned'[x] /\ owned'[x] \subseteq 1..recorded'
      /\ mode = "live" /\ header = session
  BY Recorded
<1>4. PICK l \in Seq(Entries) : l = entries'
  BY <1>3
<1>5. rev \in Nat /\ header \in Sessions
  BY <1>1 DEF MemoryType
<1>6. PICK c \in Content : /\ c = [hdr |-> header, rev |-> rev, lines |-> l]
                           /\ c.hdr = header /\ c.rev = rev /\ c.lines = l
  <2> DEFINE d == [hdr |-> header, rev |-> rev, lines |-> l]
  <2>1. d \in Content
    BY <1>5, Bounds DEF Content
  <2>2. d.hdr = header /\ d.rev = rev /\ d.lines = l
    OBVIOUS
  <2>3. \A c : c = d => c = [hdr |-> header, rev |-> rev, lines |-> l]
    OBVIOUS
  <2> HIDE DEF d
  <2> QED
    BY <2>1, <2>2, <2>3
<1>7. RewriteSynchronously(session, c)
  BY <1>4, <1>6 DEF Body
<1>8. Covers(c, session)
  BY <1>3, <1>4, <1>6 DEF CleanInv, MemoryGood, Covers, Body
<1>9. /\ mode' = "live" /\ session' = session /\ header' = session /\ entries' = c.lines /\ rev' = c.rev
      /\ c.hdr = session /\ Ascending(c.lines) /\ ToSet(c.lines) \subseteq owned'[session]
      /\ UNCHANGED <<backup, tasks>>
  BY <1>2, <1>3, <1>4, <1>6
<1> QED
  BY <1>1, <1>3, <1>7, <1>8, <1>9, CleanRewrite

(* An entry through the hot path: the file ends where the memory ended.    *)
LEMMA CleanLine ==
  ASSUME ShapeInv, CleanInv, RecordEntry, ~overlap', ~diskFailure, ~Cold, AppendLine(recorded + 1)
  PROVE  CleanInv'
<1>0. PICK s : s = session
  OBVIOUS
<1> USE <1>0
<1> DEFINE w == IF writer = NoWriter THEN AtPrimary(s) ELSE writer
           old == IF primary[s] = <<>> THEN Blank ELSE primary[s][1]
           new == [old EXCEPT !.lines = Append(@, recorded + 1)]
           q == [k \in DOMAIN backup[s] |->
                   IF w.at = "backup" /\ w.name = backup[s][k].name
                   THEN [backup[s][k] EXCEPT !.text.lines = Append(@, recorded + 1)]
                   ELSE backup[s][k]]
<1>1. /\ MemoryType /\ CountType /\ FilesType /\ s \in Sessions /\ tasks \in Seq(Task)
  BY Parts
<1>2. UNCHANGED <<mode, session, header, rev, tasks>> /\ entries' = Append(entries, recorded + 1)
  BY DEF RecordEntry
<1>3. /\ entries' \in Seq(Entries) /\ recorded + 1 \in Entries
      /\ ToSet(entries') = ToSet(entries) \cup {recorded + 1}
      /\ Ascending(entries') /\ ToSet(entries') \subseteq 1..recorded'
      /\ ToSet(entries') \subseteq owned'[s]
      /\ \A x \in Sessions : owned[x] \subseteq owned'[x] /\ owned'[x] \subseteq 1..recorded'
      /\ mode = "live" /\ header = s
  BY Recorded
<1>4. /\ overlap' = (overlap \/ InWindow \/ w.at # "primary")
      /\ primary' = [primary EXCEPT ![s] = IF w.at # "primary" THEN @ ELSE <<new>>]
      /\ backup' = [backup EXCEPT ![s] = q]
      /\ Promise(s, [rev |-> 0, lines |-> entries'])
      /\ UNCHANGED <<torn, diskFailure>>
  BY DEF AppendLine
<1>5. w.at = "primary" /\ Inside = {}
  BY <1>4, TaskSets
<1>6. primary' = [primary EXCEPT ![s] = <<new>>]
  BY <1>4, <1>5
<1>7. \A x \in Sessions : backup'[x] = backup[x]
  <2>1. q = [k \in DOMAIN backup[s] |-> backup[s][k]]
    BY <1>5
  <2>2. backup[s] = [k \in DOMAIN backup[s] |-> backup[s][k]]
    BY <1>1, FileThere, LenProperties
  <2>3. q = backup[s]
    BY <2>1, <2>2
  <2> HIDE DEF q
  <2> QED
    BY <1>1, <1>4, <2>3 DEF FilesType
<1>8. primary[s] # <<>> /\ primary[s][1].hdr = s /\ primary[s][1].lines = entries
      /\ primary[s][1] \in Content
  BY <1>1, <1>3, <1>5, FileThere DEF CleanInv, Synced
<1>9. PICK c \in Content : c = new /\ c.hdr = s /\ c.lines = entries' /\ c.rev = primary[s][1].rev
  <2>1. old = primary[s][1]
    BY <1>8
  <2>2. old \in Content /\ old.hdr = s /\ old.lines = entries /\ old.rev = primary[s][1].rev
    BY <1>8, <2>1
  <2>3. Append(entries, recorded + 1) \in Seq(Entries) /\ entries' = Append(entries, recorded + 1)
    BY <1>2, <1>3
  <2> HIDE DEF old
  <2>4. [old EXCEPT !.lines = Append(@, recorded + 1)] \in Content
        /\ [old EXCEPT !.lines = Append(@, recorded + 1)].hdr = s
        /\ [old EXCEPT !.lines = Append(@, recorded + 1)].lines = entries'
        /\ [old EXCEPT !.lines = Append(@, recorded + 1)].rev = old.rev
    BY <2>2, <2>3 DEF Content
  <2> HIDE DEF new
  <2>5. new = [old EXCEPT !.lines = Append(@, recorded + 1)]
    BY DEF new
  <2> QED
    BY <2>2, <2>4, <2>5
<1> HIDE DEF new, q, w, old
<1>10. /\ primary'[s] = <<c>> /\ primary'[s] # <<>> /\ primary'[s][1] = c /\ DOMAIN primary'[s] = {1}
       /\ \A x \in Sessions : x # s => primary'[x] = primary[x]
  BY <1>1, <1>6, <1>9, FileWritten
<1> DEFINE p == [rev |-> 0, lines |-> entries']
<1>11. p.rev = 0 /\ p.lines = entries' /\ Promise(s, p)
  BY <1>4
<1> HIDE DEF p
<1>12. /\ promised'[s].lines = promised[s].lines \cup ToSet(entries')
       /\ promised'[s].rev = promised[s].rev
       /\ \A x \in Sessions : x # s => promised'[x] = promised[x]
  <2>1. p.rev \in Nat /\ p.lines \in Seq(Entries)
    BY <1>3, <1>11
  <2>2. /\ promised'[s].lines = promised[s].lines \cup ToSet(p.lines)
        /\ promised'[s].rev = (IF p.rev > promised[s].rev THEN p.rev ELSE promised[s].rev)
        /\ \A x \in Sessions : x # s => promised'[x] = promised[x]
    BY <1>1, <1>11, <2>1, Promised
  <2>3. promised[s].rev \in Nat
    BY <1>1 DEF CountType
  <2> QED
    BY <1>11, <2>2, <2>3
<1>13. ~torn => /\ promised[s].lines \subseteq ToSet(entries) /\ promised[s].rev <= rev
                /\ promised[s].rev <= primary[s][1].rev
  <2>1. ~torn => promised[s].lines \subseteq ToSet(entries) /\ promised[s].rev <= rev
    BY <1>3 DEF CleanInv, MemoryGood, Covers, Body
  <2>2. ~torn => promised[s].rev <= primary[s][1].rev
    BY <1>1, <1>8, RecoveredPath DEF CleanInv, AllStored, Stored
  <2> QED
    BY <2>1, <2>2
<1>14. Good(s, c)'
  BY <1>3, <1>9 DEF Good
<1>15. FilesGood'
  <2>1. ASSUME NEW x \in Sessions, x # s PROVE (\A k \in DOMAIN primary[x] : Fair(x, primary[x][k]))'
    <3>1. \A d : Fair(x, d) => Fair(x, d)'
      BY <1>3, <1>4, FairStays
    <3> QED
      BY <1>10, <2>1, <3>1 DEF CleanInv, FilesGood
  <2>2. (\A k \in DOMAIN primary[s] : Fair(s, primary[s][k]))'
    BY <1>10, <1>14 DEF Fair
  <2>3. ASSUME NEW x \in Sessions PROVE (\A k \in DOMAIN backup[x] : Fair(x, backup[x][k].text))'
    <3>1. \A d : Fair(x, d) => Fair(x, d)'
      BY <1>3, <1>4, FairStays
    <3> QED
      BY <1>7, <3>1 DEF CleanInv, FilesGood
  <2>4. \A x \in Sessions : (\A k \in DOMAIN primary[x] : Fair(x, primary[x][k]))'
    BY <2>1, <2>2
  <2> QED
    BY <1>3, <2>3, <2>4 DEF FilesGood
<1>16. AllStored'
  <2>1. ASSUME ~torn PROVE Stored(s)'
    <3>1. Recovered(s)' = c
      BY <1>1, <1>10, RecoveredPathAfter
    <3>2. promised'[s].lines \subseteq ToSet(c.lines) /\ promised'[s].rev <= c.rev
      BY <1>3, <1>9, <1>12, <1>13, <2>1
    <3> QED
      BY <1>9, <3>1, <3>2 DEF Stored
  <2>2. \A x \in Sessions : x # s => promised'[x] = promised[x] /\ Recovered(x)' = Recovered(x)
    BY <1>7, <1>10, <1>12, RecoveredSame
  <2> QED
    BY <1>1, <1>4, <2>1, <2>2, StoredOne DEF CleanInv
<1>17. MemoryGood'
  <2>1. session' = s /\ header' = s /\ mode' = "live"
    BY <1>2, <1>3
  <2>2. Good(session, Body(entries))'
    BY <1>2, <1>3 DEF Good, Body
  <2>3. Covers(Body(entries), session)'
    <3>1. ~torn => promised'[s].lines \subseteq ToSet(entries') /\ promised'[s].rev <= rev'
      BY <1>2, <1>3, <1>12, <1>13
    <3> QED
      BY <1>4, <2>1, <3>1 DEF Covers, Body
  <2> QED
    BY <1>3, <2>1, <2>2, <2>3 DEF MemoryGood
<1>18. Synced'
  BY <1>2, <1>9, <1>10 DEF Synced
<1>19. WindowGood' /\ SwitchGood'
  <2>1. Inside' = {}
    BY <1>2, <1>5 DEF Inside
  <2>2. \A x \in Sessions : primary[x] # <<>> => primary'[x] # <<>>
    BY <1>10
  <2>3. ASSUME NEW t \in ToSet(tasks), t.op = "drain", t.next = "switch" PROVE t.file \in Sessions
    <3>1. Fits(t)
      BY Parts DEF ChainInv
    <3> QED
      BY <1>1, <2>3, <3>1, Bounds DEF Fits, CountType
  <2>4. SwitchGood'
    BY <1>2, <2>2, <2>3 DEF CleanInv, SwitchGood
  <2> QED
    BY <1>2, <2>1, <2>4 DEF CleanInv, WindowGood
<1> QED
  BY <1>15, <1>16, <1>17, <1>18, <1>19 DEF CleanInv

(* An entry.                                                               *)
LEMMA CleanRecord ==
  ASSUME ShapeInv, CleanInv, ~overlap', RecordEntry
  PROVE  CleanInv'
<1>1. AppendToSessionFile(recorded + 1)
  BY DEF RecordEntry
<1>2. CASE /\ diskFailure
           /\ UNCHANGED <<primary, backup, promised, torn, rewriteRequired, diskFailure>>
  BY <1>2, CleanNoted
<1>3. CASE /\ fileIsCurrent' = FALSE /\ overlap' = (overlap \/ InWindow)
           /\ UNCHANGED <<primary, backup, promised, torn, rewriteRequired>>
  <2>1. Inside = {}
    BY <1>3, TaskSets
  <2> QED
    BY <1>3, <2>1, CleanNoted
<1>4. CASE RewriteSynchronously(session, Body(entries')) /\ backup' = backup
  BY <1>4, CleanCold
<1>5. CASE ~diskFailure /\ ~Cold /\ AppendLine(recorded + 1)
  BY <1>5, CleanLine
<1>6. CASE AppendLineFails
  <2>1. UNCHANGED <<primary, backup, promised, torn, rewriteRequired>> /\ diskFailure' = TRUE
    BY <1>6 DEF AppendLineFails
  <2> QED
    BY <2>1, CleanNoted
<1> QED
  BY <1>1, <1>2, <1>3, <1>4, <1>5, <1>6 DEF AppendToSessionFile

(* A session begins, or is about to be loaded, with no work left behind.   *)
LEMMA CleanDrain ==
  ASSUME ShapeInv, CleanInv, ~overlap', NEW i \in DOMAIN tasks, RunDrain(i)
  PROVE  CleanInv'
<1>1. /\ MemoryType /\ CountType /\ FilesType /\ FreshInv /\ ChainInv /\ session \in Sessions
      /\ created \in Nat /\ tasks \in Seq(Task)
  BY Parts
<1>2. PICK t : t = tasks[i]
  OBVIOUS
<1>3. /\ t.at = "queued" /\ t.op = "drain" /\ diskFailure' = FALSE
      /\ overlap' = (overlap \/ Len(tasks) > 1)
      /\ UNCHANGED <<primary, backup, recorded, promised, torn>>
  BY <1>2 DEF RunDrain, Ready
<1>4. t \in Task /\ Fits(t) /\ t \in ToSet(tasks)
  BY <1>1, <1>2, TaskOf DEF ChainInv
<1>5. /\ mode = "live"
      /\ \/ t.next \in {"new", "fork"} /\ created < MaxSessions
         \/ t.next = "switch" /\ t.file \in (1..created) \ {session}
  BY <1>3, <1>4 DEF Fits
<1> DEFINE q == RemoveAt(tasks, i)
<1>6. q \in Seq(Task) /\ DOMAIN q = {} /\ ToSet(q) = {}
  <2>1. q \in Seq(Task) /\ Len(q) = Len(tasks) - 1
    BY <1>1, Removed
  <2>2. Len(tasks) \in Nat /\ ~(Len(tasks) > 1)
    BY <1>1, <1>3, LenProperties
  <2>3. DOMAIN q = 1..Len(q) /\ Len(q) \in Nat
    BY <2>1, LenProperties
  <2> HIDE DEF q
  <2>4. DOMAIN q = {}
    BY <2>1, <2>2, <2>3
  <2> QED
    BY <2>1, <2>4 DEF ToSet
<1>7. /\ \A u \in ToSet(tasks') : u.at = "queued" /\ u.op = "rewrite"
      /\ OneInside(tasks')
  <2> DEFINE n == [NewTask("rewrite", "none") EXCEPT !.chain = tail + 1]
  <2>1. tasks' = q \/ tasks' = Append(q, n)
    BY <1>2, <1>5 DEF RunDrain, Settle
  <2>2. n \in Task /\ n.op = "rewrite" /\ n.at = "queued"
    <3>1. PICK m \in Task : m = NewTask("rewrite", "none") /\ m.op = "rewrite" /\ m.at = "queued"
      BY <1>1, Scheduled
    <3>2. tail + 1 \in Nat
      BY <1>1 DEF MemoryType
    <3>3. [m EXCEPT !.chain = tail + 1] \in Task /\ [m EXCEPT !.chain = tail + 1].op = "rewrite"
          /\ [m EXCEPT !.chain = tail + 1].at = "queued"
      BY <3>1, <3>2 DEF Task
    <3> QED
      BY <3>1, <3>3
  <2> HIDE DEF n, q
  <2>3. ToSet(Append(q, n)) = ToSet(q) \cup {n}
    BY <1>6, <2>2, Added
  <2>4. \A u \in ToSet(tasks') : u.at = "queued" /\ u.op = "rewrite"
    BY <1>6, <2>1, <2>2, <2>3
  <2> QED
    BY <2>4 DEF OneInside, ToSet
<1> HIDE DEF q
<1>8. WindowGood' /\ SwitchGood' /\ Inside' = {}
  BY <1>7 DEF WindowGood, SwitchGood, Inside
<1>9. AllStored'
  BY <1>3, StoredSame DEF CleanInv, Recovered, OnPath
<1>10. CASE t.next = "switch"
  <2>1. /\ session' = t.file /\ mode' = "loading"
        /\ UNCHANGED <<header, entries, rev, owned>>
    BY <1>2, <1>10 DEF RunDrain
  <2>2. FilesGood'
    BY <1>3, <2>1, FilesGrow DEF CleanInv, FilesGood
  <2>3. primary[t.file] # <<>>
    BY <1>3, <1>4, <1>10 DEF CleanInv, SwitchGood
  <2>4. MemoryGood' /\ Synced'
    BY <1>3, <1>8, <2>1, <2>3 DEF CleanInv, MemoryGood, Synced
  <2> QED
    BY <1>8, <1>9, <2>2, <2>4 DEF CleanInv
<1>11. CASE t.next # "switch"
  <2>0. PICK s : s = created + 1
    OBVIOUS
  <2>1. s \in Sessions /\ s > created
    BY <1>1, <1>5, <1>11, <2>0, Bounds
  <2>2. primary[s] = <<>> /\ backup[s] = <<>> /\ promised[s] = [lines |-> {}, rev |-> 0]
    BY <1>1, <2>1 DEF FreshInv
  <2>3. /\ session' = s /\ header' = s /\ fileIsCurrent' = FALSE /\ mode' = mode
        /\ \/ entries' = <<>> /\ rev' = 0 /\ owned' = owned
           \/ /\ entries' = entries /\ rev' = rev /\ owned' = [owned EXCEPT ![s] = ToSet(entries)]
    BY <1>2, <1>5, <1>11, <2>0 DEF RunDrain, ResetTo
  <2>4. /\ Ascending(entries') /\ ToSet(entries') \subseteq 1..recorded
        /\ ToSet(entries') \subseteq owned'[s]
        /\ \A x \in Sessions : owned'[x] \subseteq 1..recorded
        /\ \A x \in Sessions : owned[x] \subseteq owned'[x] \/ x = s
        /\ rev' \in Nat
    <3>1. CASE entries' = <<>> /\ rev' = 0 /\ owned' = owned
      <4>1. ToSet(entries') = {} /\ DOMAIN entries' = {}
        BY <3>1 DEF ToSet
      <4> QED
        BY <3>1, <4>1 DEF Ascending, CleanInv, FilesGood
    <3>2. CASE entries' = entries /\ rev' = rev /\ owned' = [owned EXCEPT ![s] = ToSet(entries)]
      <4>1. owned'[s] = ToSet(entries) /\ \A x \in Sessions : x # s => owned'[x] = owned[x]
        BY <1>1, <2>1, <3>2 DEF CountType
      <4>2. Ascending(entries) /\ ToSet(entries) \subseteq 1..recorded /\ rev \in Nat
        BY <1>1 DEF CleanInv, MemoryGood, MemoryType
      <4>3. \A x \in Sessions : owned[x] \subseteq 1..recorded
        BY DEF CleanInv, FilesGood
      <4> QED
        BY <3>2, <4>1, <4>2, <4>3
    <3> QED
      BY <2>3, <3>1, <3>2
  <2>5. FilesGood'
    BY <1>3, <2>2, <2>4, FilesGrow DEF CleanInv
  <2>6. MemoryGood'
    <3>1. Good(session, Body(entries))'
      BY <2>3, <2>4 DEF Good, Body
    <3>2. Covers(Body(entries), session)'
      BY <1>3, <2>2, <2>3, <2>4 DEF Covers, Body
    <3> QED
      BY <1>3, <1>5, <2>3, <2>4, <3>1, <3>2 DEF MemoryGood
  <2>7. Synced'
    BY <2>3 DEF Synced, Cold
  <2> QED
    BY <1>8, <1>9, <2>5, <2>6, <2>7 DEF CleanInv
<1> QED
  BY <1>10, <1>11


(* A manager that adopts a file holds what the file holds; a file without a *)
(* header is one that a rewrite in place has truncated.                    *)
LEMMA CleanAdopt ==
  ASSUME ShapeInv, CleanInv, NEW s \in Sessions, NEW c \in Content, NEW chain \in Nat,
         NEW failure \in BOOLEAN, Adopt(s, c, chain, failure), mode' = "live", diskEpoch' \in Nat,
         UNCHANGED <<recorded, promised, torn>>,
         primary'[s] # <<>>, primary'[s][1] = c, Fair(s, c),
         \A x \in Sessions : \A k \in DOMAIN primary'[x] : Fair(x, primary'[x][k]),
         \A x \in Sessions : \A k \in DOMAIN backup'[x] : Fair(x, backup'[x][k].text),
         \A x \in Sessions : Recovered(x)' = Recovered(x),
         Inside = {}, \A t \in ToSet(tasks) : t.op # "drain"
  PROVE  CleanInv'
<1>1. MemoryType /\ tasks \in Seq(Task) /\ CountType
  BY Parts
<1>2. s # 0 /\ c.rev \in Nat /\ c.lines \in Seq(Entries)
  BY Bounds, ContentFields
<1>3. OneInside(tasks)
  BY DEF CleanInv, WindowGood
<1>4. WindowGood' /\ SwitchGood' /\ Inside' = {}
  <2>1. \/ tasks' = tasks
        \/ \E t \in Task : tasks' = Append(tasks, t) /\ t.at = "queued" /\ t.op = "rewrite"
    BY <1>1, Adopted
  <2>2. OneInside(tasks') /\ Inside' = {} /\ \A t \in ToSet(tasks') : t.op # "drain"
    <3>1. CASE tasks' = tasks
      BY <1>3, <3>1 DEF Inside
    <3>2. CASE \E t \in Task : tasks' = Append(tasks, t) /\ t.at = "queued" /\ t.op = "rewrite"
      <4>1. PICK t \in Task : tasks' = Append(tasks, t) /\ t.at = "queued" /\ t.op = "rewrite"
        BY <3>2
      <4>2. /\ ToSet(tasks') = ToSet(tasks) \cup {t} /\ Inside' = Inside
            /\ OneInside(tasks) => OneInside(tasks')
        BY <1>1, <4>1, TaskAppended
      <4> QED
        BY <1>3, <4>1, <4>2
    <3> QED
      BY <2>1, <3>1, <3>2
  <2> QED
    BY <2>2 DEF WindowGood, SwitchGood
<1>5. AllStored'
  BY StoredSame DEF CleanInv
<1>6. Recovered(s)' = c
  BY RecoveredPathAfter
<1>7. owned' = owned
  <2>1. CASE c.hdr # 0
    <3>1. owned' = [owned EXCEPT ![s] = @ \cup ToSet(c.lines)]
      BY <2>1 DEF Adopt
    <3>2. Good(s, c)
      BY <2>1 DEF Fair, Blank
    <3>3. ToSet(c.lines) \subseteq owned[s]
      BY <3>2 DEF Good
    <3>4. owned \in [Sessions -> SUBSET Entries]
      BY <1>1 DEF CountType
    <3>5. owned[s] \cup ToSet(c.lines) = owned[s]
      BY <3>3
    <3> QED
      BY <3>1, <3>4, <3>5
  <2>2. CASE c.hdr = 0
    BY <2>2 DEF Adopt
  <2> QED
    BY <2>1, <2>2
<1>8. FilesGood'
  BY <1>7, FilesMove DEF CleanInv
<1>9. CASE c.hdr # 0
  <2>1. /\ session' = s /\ header' = c.hdr /\ entries' = c.lines /\ rev' = c.rev
        /\ mode' = "live"
    BY <1>9 DEF Adopt
  <2>2. Good(s, c)
    BY <1>9 DEF Fair, Blank
  <2>3. c.hdr = s /\ Ascending(c.lines) /\ ToSet(c.lines) \subseteq owned[s]
    BY <2>2 DEF Good
  <2>4. ToSet(c.lines) \subseteq 1..recorded
    BY <2>3 DEF CleanInv, FilesGood
  <2>5. MemoryGood'
    <3>1. Good(session, Body(entries))'
      BY <1>7, <2>1, <2>3 DEF Good, Body
    <3>2. Covers(Body(entries), session)'
      BY <1>5, <1>6, <2>1 DEF Covers, Body, AllStored, Stored
    <3> QED
      BY <2>1, <2>3, <2>4, <3>1, <3>2 DEF MemoryGood
  <2>6. Synced'
    BY <2>1, <2>3 DEF Synced
  <2> QED
    BY <1>4, <1>5, <1>8, <2>5, <2>6 DEF CleanInv
<1>10. CASE c.hdr = 0
  <2>1. /\ session' = s /\ header' = s /\ entries' = <<>> /\ rev' = 0
        /\ fileIsCurrent' = FALSE
    BY <1>10 DEF Adopt, ResetTo
  <2>2. torn
    BY <1>2, <1>10 DEF Fair, Good
  <2>3. ToSet(entries') = {} /\ DOMAIN entries' = {}
    BY <2>1 DEF ToSet
  <2>4. Good(session, Body(entries))' /\ Ascending(entries)'
    BY <2>1, <2>3 DEF Good, Body, Ascending
  <2>5. MemoryGood'
    BY <2>2, <2>3, <2>4 DEF MemoryGood, Covers
  <2>6. Synced'
    BY <2>1 DEF Synced, Cold
  <2> QED
    BY <1>4, <1>5, <1>8, <2>5, <2>6 DEF CleanInv
<1> QED
  BY <1>9, <1>10

(* The second half of a switch.                                            *)
LEMMA CleanLoad ==
  ASSUME ShapeInv, CleanInv, Load
  PROVE  CleanInv'
<1>1. /\ MemoryType /\ tasks \in Seq(Task) /\ FilesType /\ ChainInv /\ session \in Sessions
  BY Parts
<1>2. /\ mode = "loading" /\ mode' = "live"
      /\ UNCHANGED <<diskEpoch, primary, backup, recorded, promised, torn>>
      /\ Adopt(session, OnPath(session), tail, diskFailure)
  BY DEF Load, bounds
<1>3. primary[session] # <<>> /\ Inside = {}
  BY <1>2 DEF CleanInv, MemoryGood
<1>4. PICK c \in Content : c = primary[session][1] /\ c = OnPath(session) /\ 1 \in DOMAIN primary[session]
  BY <1>1, <1>3, FileThere DEF OnPath
<1>5. \A t \in ToSet(tasks) : t.op # "drain"
  BY <1>1, <1>2 DEF ChainInv, Fits
<1>6. /\ \A x \in Sessions : \A k \in DOMAIN primary'[x] : Fair(x, primary'[x][k])
      /\ \A x \in Sessions : \A k \in DOMAIN backup'[x] : Fair(x, backup'[x][k].text)
      /\ Fair(session, c)
  BY <1>1, <1>2, <1>4 DEF CleanInv, FilesGood
<1>7. \A x \in Sessions : Recovered(x)' = Recovered(x)
  BY <1>2, RecoveredSame
<1>8. /\ primary'[session] # <<>> /\ primary'[session][1] = c
      /\ Adopt(session, c, tail, diskFailure)
      /\ tail \in Nat /\ diskFailure \in BOOLEAN /\ diskEpoch' \in Nat
  BY <1>1, <1>2, <1>3, <1>4 DEF MemoryType
<1> QED
  BY <1>1, <1>2, <1>3, <1>5, <1>6, <1>7, <1>8, CleanAdopt

(* A new manager.                                                          *)
LEMMA CleanStart ==
  ASSUME ShapeInv, CleanInv, Start
  PROVE  CleanInv'
<1>1. /\ MemoryType /\ tasks \in Seq(Task) /\ FilesType /\ CountType /\ FreshInv
      /\ created \in Nat /\ session \in Sessions
      /\ \A s \in Sessions : Distinct(backup[s])
  BY Parts
<1>2. /\ tasks = <<>> /\ mode' = "live" /\ diskEpoch' = 0
      /\ UNCHANGED <<recorded, promised, torn>>
  BY DEF Start
<1>3. Inside = {} /\ \A t \in ToSet(tasks) : t.op # "drain"
  BY <1>2 DEF Inside, ToSet
<1>4. /\ FilesType'
      /\ \A x \in Sessions : Recovered(x)' = Recovered(x)
      /\ \A x \in Sessions : \A k \in DOMAIN primary'[x] : Fair(x, primary'[x][k])
      /\ \A x \in Sessions : \A k \in DOMAIN backup'[x] : Fair(x, backup'[x][k].text)
  <2>1. CASE UNCHANGED <<primary, backup>>
    BY <1>1, <2>1, RecoveredSame DEF FilesType, CleanInv, FilesGood
  <2>2. CASE RecoverOrphanedBackups
    <3>1. /\ FilesType'
          /\ \A x \in Sessions :
               /\ Recovered(x)' = Recovered(x)
               /\ \A k \in DOMAIN primary'[x] :
                    primary'[x] = primary[x]
                    \/ \E l \in DOMAIN backup[x] : primary'[x][k] = backup[x][l].text
               /\ \A k \in DOMAIN backup'[x] : \E l \in DOMAIN backup[x] : backup'[x][k] = backup[x][l]
      BY <1>1, <2>2, Repaired
    <3>2. \A x \in Sessions : \A k \in DOMAIN primary'[x] : Fair(x, primary'[x][k])
      BY <3>1 DEF CleanInv, FilesGood
    <3>3. \A x \in Sessions : \A k \in DOMAIN backup'[x] : Fair(x, backup'[x][k].text)
      BY <3>1 DEF CleanInv, FilesGood
    <3> QED
      BY <3>1, <3>2, <3>3
  <2> QED
    BY <2>1, <2>2 DEF Start
<1>5. ASSUME NEW s \in Sessions, primary'[s] # <<>>, Adopt(s, primary'[s][1], 0, FALSE)
      PROVE  CleanInv'
  <2>1. PICK c : c = primary'[s][1]
    OBVIOUS
  <2>2. c \in Content /\ 1 \in DOMAIN primary'[s]
    <3>1. primary'[s] \in Seq(Content) /\ primary'[s] # <<>>
      BY <1>4, <1>5 DEF FilesType
    <3>2. Len(primary'[s]) \in Nat \ {0} /\ DOMAIN primary'[s] = 1..Len(primary'[s])
      BY <3>1, EmptySeq, LenProperties
    <3>3. 1 \in 1..Len(primary'[s])
      BY <3>2
    <3> QED
      BY <2>1, <3>1, <3>2, <3>3, ElementOfSeq
  <2>3. Adopt(s, c, 0, FALSE) /\ Fair(s, c)
    BY <1>4, <1>5, <2>1, <2>2
  <2>4. 0 \in Nat /\ FALSE \in BOOLEAN /\ diskEpoch' \in Nat
    BY <1>2
  <2> QED
    BY <1>2, <1>3, <1>4, <1>5, <2>1, <2>2, <2>3, <2>4, CleanAdopt
<1>6. ASSUME created < MaxSessions, ResetTo(created + 1), UNCHANGED <<tasks, owned>>
      PROVE  CleanInv'
  <2>1. PICK s : s = created + 1
    OBVIOUS
  <2>2. s \in Sessions /\ s > created
    BY <1>1, <1>6, <2>1, Bounds
  <2>3. promised[s] = [lines |-> {}, rev |-> 0]
    BY <1>1, <2>2 DEF FreshInv
  <2>4. session' = s /\ header' = s /\ entries' = <<>> /\ rev' = 0 /\ fileIsCurrent' = FALSE
    BY <1>6, <2>1 DEF ResetTo
  <2>5. ToSet(entries') = {} /\ DOMAIN entries' = {}
    BY <2>4 DEF ToSet
  <2>6. FilesGood'
    BY <1>2, <1>4, <1>6, FilesMove DEF CleanInv
  <2>7. AllStored'
    BY <1>2, <1>4, StoredSame DEF CleanInv
  <2>8. MemoryGood'
    <3>1. Good(session, Body(entries))' /\ Ascending(entries)'
      BY <2>4, <2>5 DEF Good, Body, Ascending
    <3>2. promised[s].lines = {} /\ promised[s].rev = 0
      BY <2>3
    <3>3. Covers(Body(entries), session)'
      BY <1>2, <2>4, <3>2 DEF Covers, Body
    <3> QED
      BY <1>2, <2>5, <3>1, <3>3 DEF MemoryGood
  <2>9. Synced'
    BY <2>4 DEF Synced, Cold
  <2>10. WindowGood' /\ SwitchGood'
    BY <1>2, <1>3, <1>6 DEF WindowGood, SwitchGood, Inside, OneInside
  <2> QED
    BY <2>6, <2>7, <2>8, <2>9, <2>10 DEF CleanInv
<1>7. \/ /\ primary[session] # <<>>
         /\ Adopt(session, primary[session][1], 0, FALSE)
         /\ UNCHANGED primary
      \/ \E s \in Sessions : primary'[s] # <<>> /\ Adopt(s, primary'[s][1], 0, FALSE)
      \/ created < MaxSessions /\ ResetTo(created + 1) /\ UNCHANGED <<tasks, owned>>
  BY DEF Start
<1> QED
  BY <1>1, <1>5, <1>6, <1>7

(* A rewrite takes the name and the body of the session in memory.         *)
LEMMA CleanBegin ==
  ASSUME ShapeInv, CleanInv, ~overlap', NEW i \in DOMAIN tasks, BeginRewrite(i)
  PROVE  CleanInv'
<1>1. /\ MemoryType /\ tasks \in Seq(Task) /\ ChainInv /\ session \in Sessions
  BY Parts
<1>2. /\ tasks[i].op = "rewrite"
      /\ tasks' = [tasks EXCEPT ![i].at = "replacing", ![i].file = session, ![i].body = Body(entries)]
      /\ Inside = {} /\ mode # "loading"
      /\ UNCHANGED <<mode, session, header, entries, rev, fileIsCurrent, rewriteRequired,
                     diskFailure, primary, backup, recorded, owned, promised, torn>>
  BY TaskSets DEF BeginRewrite, Runs, unchangedByTask, flags
<1>3. mode \in {"live", "closed"}
  <2>1. tasks[i] \in ToSet(tasks) /\ (mode = "down" => tasks = <<>>)
    BY <1>1, TaskOf DEF ChainInv
  <2>2. mode # "down"
    BY <2>1 DEF ToSet
  <2> QED
    BY <1>1, <1>2, <2>2 DEF MemoryType
<1>4. PICK r \in Task : /\ tasks' = [tasks EXCEPT ![i] = r] /\ r.at = "replacing"
                        /\ r.op = tasks[i].op /\ r.file = session /\ r.body = Body(entries)
  BY <1>1, <1>2, TaskBegins
<1>5. /\ ToSet(tasks') \subseteq ToSet(tasks) \cup {r}
      /\ OneInside(tasks') /\ Inside' = {r}
  BY <1>1, <1>2, <1>4, TaskChanged
<1>6. FilesGood' /\ AllStored'
  BY <1>2, FilesGrow, StoredSame DEF CleanInv, FilesGood, Recovered, OnPath
<1>7. Good(session, Body(entries)) /\ Covers(Body(entries), session)
      /\ Ascending(entries) /\ ToSet(entries) \subseteq 1..recorded
  BY <1>3 DEF CleanInv, MemoryGood
<1>8. Good(session, Body(entries))' /\ Covers(Body(entries), session)'
  BY <1>2, <1>7 DEF Good, Covers, Body
<1>9. MemoryGood' /\ Synced'
  BY <1>2, <1>3, <1>5, <1>7, <1>8 DEF MemoryGood, Synced
<1>10. Replaces(r)'
  <2>1. r.body.lines = entries /\ r.body.rev = rev /\ rev \in Nat
    BY <1>1, <1>4 DEF Body, MemoryType
  <2>2. Good(session, r.body)' /\ Covers(r.body, session)'
    BY <1>2, <1>4, <1>7 DEF Good, Covers
  <2>3. ToSet(r.body.lines) \subseteq ToSet(entries) /\ r.body.rev <= rev
    BY <2>1
  <2> QED
    BY <1>2, <1>3, <1>4, <2>1, <2>2, <2>3 DEF Replaces
<1>11. WindowGood' /\ SwitchGood'
  BY <1>2, <1>4, <1>5, <1>10 DEF WindowGood, CleanInv, SwitchGood
<1> QED
  BY <1>6, <1>9, <1>11 DEF CleanInv

-----------------------------------------------------------------------------
(* The steps of a rewrite.                                                 *)

(* A step inside a rewrite, while it goes on: files other than that of the *)
(* session in memory stay, and a start goes on loading what was promised.  *)
LEMMA CleanOn ==
  ASSUME ShapeInv, CleanInv, NEW i \in DOMAIN tasks, tasks[i].at # "queued",
         UNCHANGED <<mode, session, header, entries, rev, fileIsCurrent, rewriteRequired,
                     diskFailure, recorded, owned, promised, torn>>,
         NEW r \in Task, tasks' = [tasks EXCEPT ![i] = r], r.op = tasks[i].op, r.at # "queued",
         Replaces(r)',
         \A x \in Sessions : \A k \in DOMAIN primary'[x] : Fair(x, primary'[x][k]),
         \A x \in Sessions : \A k \in DOMAIN backup'[x] : Fair(x, backup'[x][k].text),
         \A x \in Sessions : x # session => primary'[x] = primary[x] /\ backup'[x] = backup[x],
         ~torn => Stored(session)'
  PROVE  CleanInv'
<1>1. /\ MemoryType /\ tasks \in Seq(Task) /\ ChainInv /\ session \in Sessions
      /\ created \in Nat /\ CountType
  BY Parts
<1>2. tasks[i] \in Inside /\ tasks[i].op = "rewrite"
  BY <1>1, TaskOf DEF Inside, ChainInv, Fits
<1>3. /\ ToSet(tasks') \subseteq ToSet(tasks) \cup {r}
      /\ OneInside(tasks') /\ Inside' = {r}
  BY <1>1, TaskChanged DEF CleanInv, WindowGood
<1>4. FilesGood'
  BY FilesMove DEF CleanInv
<1>5. AllStored'
  BY <1>1, RecoveredSame, StoredOne DEF CleanInv
<1>6. mode \in {"live", "closed"}
  BY <1>2 DEF CleanInv, WindowGood, Replaces
<1>7. MemoryGood' /\ Synced'
  BY <1>3, <1>6 DEF CleanInv, MemoryGood, Synced, Good, Covers, Body
<1>8. WindowGood'
  BY <1>3 DEF WindowGood
<1>9. SwitchGood'
  <2>1. ASSUME NEW t \in ToSet(tasks), t.op = "drain", t.next = "switch"
        PROVE  primary'[t.file] # <<>>
    <3>1. Fits(t) /\ primary[t.file] # <<>>
      BY <1>1, <2>1 DEF ChainInv, CleanInv, SwitchGood
    <3>2. t.file \in (1..created) \ {session}
      BY <2>1, <3>1 DEF Fits
    <3>3. t.file \in Sessions
      BY <1>1, <3>2, Bounds DEF CountType
    <3> QED
      BY <3>1, <3>2, <3>3
  <2> QED
    BY <1>2, <1>3, <2>1 DEF SwitchGood
<1> QED
  BY <1>4, <1>5, <1>7, <1>8, <1>9 DEF CleanInv

(* A step that ends a rewrite, with the body in place or with the failure  *)
(* noted.                                                                  *)
LEMMA CleanEnd ==
  ASSUME ShapeInv, CleanInv, NEW i \in DOMAIN tasks, tasks[i].at # "queued",
         UNCHANGED <<mode, session, header, entries, rev, recorded, owned, torn>>,
         tasks' = RemoveAt(tasks, i),
         \A x \in Sessions : \A k \in DOMAIN primary'[x] : Fair(x, primary'[x][k]),
         \A x \in Sessions : \A k \in DOMAIN backup'[x] : Fair(x, backup'[x][k].text),
         \A x \in Sessions : x # session =>
           primary'[x] = primary[x] /\ backup'[x] = backup[x] /\ promised'[x] = promised[x],
         ~torn => Stored(session)',
         Covers(Body(entries), session)', Synced'
  PROVE  CleanInv'
<1>1. /\ MemoryType /\ tasks \in Seq(Task) /\ ChainInv /\ session \in Sessions
      /\ created \in Nat /\ CountType
  BY Parts
<1>2. tasks[i] \in Inside
  BY <1>1, TaskOf DEF Inside
<1>3. ToSet(tasks') \subseteq ToSet(tasks) /\ OneInside(tasks') /\ Inside' = {}
  BY <1>1, TaskSettled DEF CleanInv, WindowGood
<1>4. FilesGood'
  BY FilesMove DEF CleanInv
<1>5. AllStored'
  BY <1>1, RecoveredSame, StoredOne DEF CleanInv
<1>6. mode \in {"live", "closed"}
  BY <1>2 DEF CleanInv, WindowGood, Replaces
<1>7. MemoryGood'
  BY <1>6 DEF CleanInv, MemoryGood, Good, Body
<1>8. WindowGood'
  BY <1>3 DEF WindowGood
<1>9. SwitchGood'
  <2>1. ASSUME NEW t \in ToSet(tasks), t.op = "drain", t.next = "switch"
        PROVE  primary'[t.file] # <<>>
    <3>1. Fits(t) /\ primary[t.file] # <<>>
      BY <1>1, <2>1 DEF ChainInv, CleanInv, SwitchGood
    <3>2. t.file \in (1..created) \ {session}
      BY <2>1, <3>1 DEF Fits
    <3>3. t.file \in Sessions
      BY <1>1, <3>2, Bounds DEF CountType
    <3> QED
      BY <3>1, <3>2, <3>3
  <2> QED
    BY <1>3, <2>1 DEF SwitchGood
<1> QED
  BY <1>4, <1>5, <1>7, <1>8, <1>9 DEF CleanInv

(* What is known of the rewrite under way.                                 *)
LEMMA Under ==
  ASSUME ShapeInv, CleanInv, NEW i \in DOMAIN tasks, tasks[i].at # "queued"
  PROVE  /\ tasks[i] \in Task /\ tasks[i].file = session /\ tasks[i].body \in Content
         /\ Replaces(tasks[i])
         /\ Good(session, tasks[i].body) /\ Covers(tasks[i].body, session)
         /\ Good(session, Body(entries)) /\ Covers(Body(entries), session)
<1>1. tasks \in Seq(Task)
  BY Parts
<1>2. tasks[i] \in Inside /\ tasks[i] \in Task
  BY <1>1, TaskOf DEF Inside
<1>3. Replaces(tasks[i])
  BY <1>2 DEF CleanInv, WindowGood
<1>4. /\ tasks[i].file = session /\ mode \in {"live", "closed"}
      /\ Good(session, tasks[i].body) /\ Covers(tasks[i].body, session)
  BY <1>3 DEF Replaces
<1> QED
  BY <1>2, <1>3, <1>4, TaskFields DEF CleanInv, MemoryGood

(* A rewrite returns with its body in place, and is reported.              *)
LEMMA CleanFinish ==
  ASSUME ShapeInv, CleanInv, NEW i \in DOMAIN tasks, tasks[i].at # "queued",
         UNCHANGED <<mode, session, header, entries, rev, diskFailure, recorded, owned, torn>>,
         tasks' = RemoveAt(tasks, i), Promise(tasks[i].file, tasks[i].body),
         primary'[session] = <<tasks[i].body>>,
         \A x \in Sessions : x # session => primary'[x] = primary[x] /\ backup'[x] = backup[x],
         \A k \in DOMAIN backup'[session] : Fair(session, backup'[session][k].text)
  PROVE  CleanInv'
<1>1. MemoryType /\ CountType /\ session \in Sessions
  BY Parts
<1>2. PICK b \in Content : b = tasks[i].body
  BY Under
<1>3. /\ tasks[i].file = session /\ Good(session, b) /\ Covers(b, session)
      /\ Good(session, Body(entries)) /\ Covers(Body(entries), session)
      /\ Replaces(tasks[i])
  BY <1>2, Under
<1>4. b.rev \in Nat /\ b.lines \in Seq(Entries)
  BY ContentFields
<1>5. Promise(session, b)
  BY <1>2, <1>3
<1>6. /\ promised'[session].lines = promised[session].lines \cup ToSet(b.lines)
      /\ promised'[session].rev = (IF b.rev > promised[session].rev THEN b.rev ELSE promised[session].rev)
      /\ \A x \in Sessions : x # session => promised'[x] = promised[x]
  BY <1>1, <1>4, <1>5, Promised
<1>7. promised[session].rev \in Nat /\ rev \in Nat
  BY <1>1 DEF CountType, MemoryType
<1>8. primary'[session] = <<b>> /\ primary'[session] # <<>> /\ primary'[session][1] = b
      /\ DOMAIN primary'[session] = {1}
  BY <1>2
<1>9. \A x \in Sessions : \A k \in DOMAIN primary'[x] : Fair(x, primary'[x][k])
  <2>1. Fair(session, b)
    BY <1>3 DEF Fair
  <2> QED
    BY <1>8, <2>1 DEF CleanInv, FilesGood
<1>10. \A x \in Sessions : \A k \in DOMAIN backup'[x] : Fair(x, backup'[x][k].text)
  BY DEF CleanInv, FilesGood
<1>11. ~torn => Stored(session)'
  <2>1. Recovered(session)' = b
    BY <1>1, <1>8, RecoveredPathAfter
  <2>2. b.hdr = session
    BY <1>3 DEF Good
  <2>3. ~torn => promised'[session].lines \subseteq ToSet(b.lines)
    BY <1>3, <1>6 DEF Covers
  <2>4. ~torn => promised'[session].rev <= b.rev
    BY <1>3, <1>4, <1>6, <1>7 DEF Covers
  <2> QED
    BY <2>1, <2>2, <2>3, <2>4 DEF Stored
<1>12. ToSet(b.lines) \subseteq ToSet(entries) /\ b.rev <= rev
       /\ (mode = "live" /\ ~diskFailure => b.lines = entries)
  BY <1>2, <1>3 DEF Replaces
<1>13. Covers(Body(entries), session)'
  <2>1. ~torn => promised'[session].lines \subseteq ToSet(entries)
    BY <1>3, <1>6, <1>12 DEF Covers, Body
  <2>2. ~torn => promised'[session].rev <= rev
    BY <1>3, <1>4, <1>6, <1>7, <1>12 DEF Covers, Body
  <2> QED
    BY <2>1, <2>2 DEF Covers, Body
<1>14. Synced'
  BY <1>3, <1>8, <1>12 DEF Synced, Good
<1> QED
  BY <1>6, <1>9, <1>10, <1>11, <1>13, <1>14, CleanEnd

(* A rewrite fails: what a start loads is what it was.                     *)
LEMMA CleanReject ==
  ASSUME ShapeInv, CleanInv, NEW i \in DOMAIN tasks, tasks[i].at # "queued", Reject(i),
         Recovered(session)' = Recovered(session),
         \A x \in Sessions : x # session => primary'[x] = primary[x] /\ backup'[x] = backup[x],
         \A k \in DOMAIN primary'[session] : Fair(session, primary'[session][k]),
         \A k \in DOMAIN backup'[session] : Fair(session, backup'[session][k].text)
  PROVE  CleanInv'
<1>1. session \in Sessions
  BY Parts
<1>2. /\ UNCHANGED <<mode, session, header, entries, rev, recorded, owned, torn, promised>>
      /\ tasks' = RemoveAt(tasks, i) /\ diskFailure' = TRUE
  BY DEF Reject, Settle, unchangedByTask
<1>3. /\ \A x \in Sessions : \A k \in DOMAIN primary'[x] : Fair(x, primary'[x][k])
      /\ \A x \in Sessions : \A k \in DOMAIN backup'[x] : Fair(x, backup'[x][k].text)
  BY DEF CleanInv, FilesGood
<1>4. ~torn => Stored(session)'
  BY <1>1, <1>2 DEF CleanInv, AllStored, Stored
<1>5. Covers(Body(entries), session)'
  <2>1. Covers(Body(entries), session)
    BY Under
  <2> QED
    BY <1>2, <2>1 DEF Covers, Body
<1>6. Synced'
  BY <1>2 DEF Synced
<1> QED
  BY <1>2, <1>3, <1>4, <1>5, <1>6, CleanEnd

(* The same, when the directory stays.                                     *)
LEMMA CleanFailed ==
  ASSUME ShapeInv, CleanInv, NEW i \in DOMAIN tasks, tasks[i].at # "queued", Reject(i),
         UNCHANGED <<primary, backup>>
  PROVE  CleanInv'
<1>1. session \in Sessions
  BY Parts
<1>2. /\ Recovered(session)' = Recovered(session)
      /\ \A x \in Sessions : x # session => primary'[x] = primary[x] /\ backup'[x] = backup[x]
  <2>1. session' = session
    BY DEF Reject
  <2> QED
    BY <1>1, <2>1, RecoveredSame
<1>3. /\ \A k \in DOMAIN primary'[session] : Fair(session, primary'[session][k])
      /\ \A k \in DOMAIN backup'[session] : Fair(session, backup'[session][k].text)
  BY <1>1 DEF CleanInv, FilesGood
<1> QED
  BY <1>2, <1>3, CleanReject

(* The body takes the path and the rewrite returns.                        *)
LEMMA CleanReplaced ==
  ASSUME ShapeInv, CleanInv, NEW i \in DOMAIN tasks, tasks[i].at # "queued",
         Replaced(i), Finish(i), backup' = backup
  PROVE  CleanInv'
<1>1. session \in Sessions /\ tasks[i].file = session
  BY Parts, Under
<1>2. /\ primary'[tasks[i].file] = <<tasks[i].body>>
      /\ \A x \in Sessions : x # tasks[i].file => primary'[x] = primary[x]
  BY ReplacedTypes
<1>3. /\ tasks' = RemoveAt(tasks, i) /\ Promise(tasks[i].file, tasks[i].body)
      /\ UNCHANGED <<mode, session, header, entries, rev, diskFailure, recorded, owned, torn>>
  BY DEF Finish, Settle, unchangedByTask
<1>4. \A k \in DOMAIN backup'[session] : Fair(session, backup'[session][k].text)
  BY <1>1 DEF CleanInv, FilesGood
<1>5. /\ primary'[session] = <<tasks[i].body>>
      /\ \A x \in Sessions : x # session => primary'[x] = primary[x] /\ backup'[x] = backup[x]
  BY <1>1, <1>2
<1> QED
  BY <1>3, <1>4, <1>5, CleanFinish

(* The rename over the old file.                                           *)
LEMMA CleanReplace ==
  ASSUME ShapeInv, CleanInv, NEW i \in DOMAIN tasks, Replace(i)
  PROVE  CleanInv'
<1>1. tasks[i].at = "replacing" /\ tasks[i].at # "queued"
  BY DEF Replace
<1>2. CASE Replaced(i) /\ Finish(i) /\ UNCHANGED backup
  BY <1>1, <1>2, CleanReplaced
<1>3. CASE Fails /\ Reject(i) /\ UNCHANGED <<writer, primary, backup>>
  BY <1>1, <1>3, CleanFailed
<1>4. CASE /\ Goto(i, "eperm")
           /\ UNCHANGED <<mode, session, flags, writer, diskFailure, tail, primary, backup,
                          errors, created, promised, overlap, unchangedByTask>>
  <2>1. PICK r \in Task : /\ tasks' = [tasks EXCEPT ![i] = r] /\ r.at = "eperm"
                          /\ r.op = tasks[i].op /\ r.file = tasks[i].file /\ r.body = tasks[i].body
    BY <1>4, Parts, TaskGoes
  <2>2. /\ UNCHANGED <<mode, session, header, entries, rev, fileIsCurrent, rewriteRequired,
                       diskFailure, recorded, owned, promised, torn>>
        /\ UNCHANGED <<primary, backup>>
    BY <1>4 DEF flags, unchangedByTask
  <2>3. Replaces(r)'
    <3>1. Replaces(tasks[i])
      BY <1>1, Under
    <3>2. Good(session, r.body)' /\ Covers(r.body, session)'
      BY <2>1, <2>2, <3>1 DEF Replaces, Good, Covers
    <3> QED
      BY <2>1, <2>2, <3>1, <3>2 DEF Replaces
  <2>4. /\ \A x \in Sessions : \A k \in DOMAIN primary'[x] : Fair(x, primary'[x][k])
        /\ \A x \in Sessions : \A k \in DOMAIN backup'[x] : Fair(x, backup'[x][k].text)
    BY <2>2 DEF CleanInv, FilesGood
  <2>5. ~torn => Stored(session)'
    BY <2>2, Parts DEF CleanInv, AllStored, Stored, Recovered, OnPath
  <2>6. \A x \in Sessions : x # session => primary'[x] = primary[x] /\ backup'[x] = backup[x]
    BY <2>2
  <2>7. r.at # "queued"
    BY <2>1
  <2> QED
    BY <1>1, <2>1, <2>2, <2>3, <2>4, <2>5, <2>6, <2>7, CleanOn
<1> QED
  BY <1>2, <1>3, <1>4 DEF Replace

(* The old file is moved aside: it is the newest backup of a missing file. *)
LEMMA CleanMoveAside ==
  ASSUME ShapeInv, CleanInv, NEW i \in DOMAIN tasks, MoveAside(i)
  PROVE  CleanInv'
<1>1. tasks[i].at = "eperm" /\ tasks[i].at # "queued"
  BY DEF MoveAside
<1>2. /\ TypeOK /\ MemoryType /\ tasks \in Seq(Task) /\ FilesType /\ session \in Sessions
      /\ tasks[i].file = session /\ \A x \in Sessions : Distinct(backup[x])
  BY <1>1, Parts, Under
<1>3. PICK name : name = Snowflake(session)
  OBVIOUS
<1>4. CASE Replaced(i) /\ Finish(i) /\ UNCHANGED backup
  BY <1>1, <1>4, CleanReplaced
<1>5. CASE Fails /\ Reject(i) /\ UNCHANGED <<writer, primary, backup>>
  BY <1>1, <1>5, CleanFailed
<1>6. CASE /\ primary[session] # <<>>
           /\ primary' = [primary EXCEPT ![session] = <<>>]
           /\ backup' = [backup EXCEPT ![session] =
                           Append(@, [name |-> name, text |-> primary[session][1]])]
           /\ tasks' = [tasks EXCEPT ![i].at = "retry", ![i].moved = name]
           /\ UNCHANGED <<mode, session, flags, diskFailure, tail, errors, created,
                          promised, overlap, unchangedByTask>>
  <2>1. PICK c \in Content : c = primary[session][1] /\ 1 \in DOMAIN primary[session]
    BY <1>2, <1>6, FileThere
  <2> DEFINE b == [name |-> name, text |-> c]
             q == Append(backup[session], b)
  <2>2. /\ q \in Seq(Backup) /\ Distinct(q) /\ q # <<>> /\ Last(q) = b
        /\ \A k \in DOMAIN q : q[k].text = c \/ \E l \in DOMAIN backup[session] : q[k] = backup[session][l]
    BY <1>2, <1>3, BackupAdded
  <2>3. backup' = [backup EXCEPT ![session] = q]
    BY <1>6, <2>1
  <2>4. Last(q).name = name /\ Last(q).text = c
    BY <2>2
  <2> HIDE DEF q, b
  <2>5. name \in Nat
    BY <1>2, <1>3, FreshName
  <2>6. PICK r \in Task : /\ tasks' = [tasks EXCEPT ![i] = r] /\ r.at = "retry"
                          /\ r.op = tasks[i].op /\ r.file = tasks[i].file
                          /\ r.body = tasks[i].body /\ r.moved = name
    <3>1. tasks' = [tasks EXCEPT ![i].at = "retry", ![i].moved = name]
      BY <1>6
    <3> QED
      <4>1. \E r \in Task : /\ tasks' = [tasks EXCEPT ![i] = r] /\ r.at = "retry"
                            /\ r.op = tasks[i].op /\ r.file = tasks[i].file
                            /\ r.body = tasks[i].body /\ r.moved = name /\ r.next = tasks[i].next
        <5>1. tasks \in Seq(Task)
          BY <1>2
        <5> QED
          BY <2>5, <3>1, <5>1, TaskMoves, Zenon
      <4> QED
        BY <4>1
  <2>7. /\ primary'[session] = <<>> /\ backup'[session] = q
        /\ \A x \in Sessions : x # session => primary'[x] = primary[x] /\ backup'[x] = backup[x]
    BY <1>2, <1>6, <2>2, <2>3, FileGone, BackupsSet
  <2>8. /\ UNCHANGED <<mode, session, header, entries, rev, fileIsCurrent, rewriteRequired,
                       diskFailure, recorded, owned, promised, torn>>
    BY <1>6 DEF flags, unchangedByTask
  <2>9. Replaces(r)'
    <3>1. Replaces(tasks[i])
      BY <1>1, Under
    <3>2. Good(session, r.body)' /\ Covers(r.body, session)'
      BY <2>6, <2>8, <3>1 DEF Replaces, Good, Covers
    <3>3. backup'[session] # <<>> /\ Last(backup'[session]).name = r.moved
      BY <2>2, <2>4, <2>6, <2>7
    <3> QED
      BY <2>6, <2>7, <2>8, <3>1, <3>2, <3>3 DEF Replaces
  <2>10. DOMAIN primary'[session] = {}
    BY <2>7
  <2>11. \A x \in Sessions : \A k \in DOMAIN primary'[x] : Fair(x, primary'[x][k])
    BY <2>7, <2>10 DEF CleanInv, FilesGood
  <2>12. \A x \in Sessions : \A k \in DOMAIN backup'[x] : Fair(x, backup'[x][k].text)
    <3>1. Fair(session, c)
      BY <1>2, <2>1 DEF CleanInv, FilesGood
    <3>2. \A k \in DOMAIN q : Fair(session, q[k].text)
      BY <1>2, <2>2, <3>1 DEF CleanInv, FilesGood
    <3> QED
      BY <2>7, <3>2 DEF CleanInv, FilesGood
  <2>13. ~torn => Stored(session)'
    <3>1. Recovered(session) = c
      BY <1>2, <1>6, <2>1, RecoveredPath
    <3>2. Recovered(session)' = Last(backup'[session]).text
      BY <2>2, <2>7, <2>8 DEF Recovered
    <3>3. Recovered(session)' = Recovered(session)
      BY <2>4, <2>7, <3>1, <3>2
    <3> QED
      BY <1>2, <2>8, <3>3 DEF CleanInv, AllStored, Stored
  <2>14. r.at # "queued"
    BY <2>6
  <2> QED
    BY <1>1, <2>6, <2>7, <2>8, <2>9, <2>11, <2>12, <2>13, <2>14, CleanOn
<1> QED
  BY <1>2, <1>3, <1>4, <1>5, <1>6 DEF MoveAside

(* The second attempt at the rename.                                       *)
LEMMA CleanRetry ==
  ASSUME ShapeInv, CleanInv, NEW i \in DOMAIN tasks, RetryReplace(i)
  PROVE  CleanInv'
<1>1. /\ tasks[i].at = "retry" /\ tasks[i].at # "queued"
      /\ UNCHANGED <<mode, session, header, entries, rev, fileIsCurrent, rewriteRequired,
                     diskFailure, recorded, owned, promised, torn, backup>>
  BY DEF RetryReplace, flags, unchangedByTask
<1>2. /\ session \in Sessions /\ tasks[i].file = session /\ Replaces(tasks[i])
      /\ Good(session, tasks[i].body) /\ Covers(tasks[i].body, session)
  BY <1>1, Parts, Under
<1>3. \A x \in Sessions : \A k \in DOMAIN backup'[x] : Fair(x, backup'[x][k].text)
  BY <1>1 DEF CleanInv, FilesGood
<1>4. CASE Replaced(i) /\ Goto(i, "unlink")
  <2>1. PICK r \in Task : /\ tasks' = [tasks EXCEPT ![i] = r] /\ r.at = "unlink"
                          /\ r.op = tasks[i].op /\ r.file = tasks[i].file /\ r.body = tasks[i].body
    BY <1>4, Parts, TaskGoes
  <2>2. PICK b : b = tasks[i].body
    OBVIOUS
  <2>3. /\ primary'[session] = <<b>>
        /\ \A x \in Sessions : x # session => primary'[x] = primary[x]
    BY <1>1, <1>2, <1>4, <2>2, ReplacedTypes
  <2>4. primary'[session] # <<>> /\ primary'[session][1] = b /\ DOMAIN primary'[session] = {1}
    BY <2>3
  <2>5. Replaces(r)'
    <3>1. Good(session, r.body)' /\ Covers(r.body, session)'
      BY <1>1, <1>2, <2>1 DEF Good, Covers
    <3>2. primary'[session] = <<r.body>>
      BY <2>1, <2>2, <2>3
    <3> QED
      BY <1>1, <1>2, <2>1, <3>1, <3>2 DEF Replaces
  <2>6. \A x \in Sessions : \A k \in DOMAIN primary'[x] : Fair(x, primary'[x][k])
    <3>1. Fair(session, b)
      BY <1>2, <2>2 DEF Fair
    <3> QED
      BY <2>3, <2>4, <3>1 DEF CleanInv, FilesGood
  <2>7. ~torn => Stored(session)'
    <3>1. Recovered(session)' = b
      BY <1>1, <1>2, <2>4, RecoveredPathAfter
    <3>2. b.hdr = session
      BY <1>2, <2>2 DEF Good
    <3> QED
      BY <1>1, <1>2, <2>2, <3>1, <3>2 DEF Stored, Covers
  <2>8. \A x \in Sessions : x # session => primary'[x] = primary[x] /\ backup'[x] = backup[x]
    BY <1>1, <2>3
  <2>9. r.at # "queued"
    BY <2>1
  <2> QED
    BY <1>1, <1>3, <2>1, <2>5, <2>6, <2>7, <2>8, <2>9, CleanOn
<1>5. CASE Goto(i, "rollback") /\ UNCHANGED <<writer, primary>>
  <2>1. PICK r \in Task : /\ tasks' = [tasks EXCEPT ![i] = r] /\ r.at = "rollback"
                          /\ r.op = tasks[i].op /\ r.file = tasks[i].file /\ r.body = tasks[i].body
                          /\ r.moved = tasks[i].moved
    BY <1>5, Parts, TaskGoes
  <2>2. Replaces(r)'
    <3>1. Good(session, r.body)' /\ Covers(r.body, session)'
      BY <1>1, <1>2, <2>1 DEF Good, Covers
    <3> QED
      BY <1>1, <1>2, <1>5, <2>1, <3>1 DEF Replaces
  <2>3. \A x \in Sessions : \A k \in DOMAIN primary'[x] : Fair(x, primary'[x][k])
    BY <1>5 DEF CleanInv, FilesGood
  <2>4. ~torn => Stored(session)'
    BY <1>1, <1>2, <1>5 DEF CleanInv, AllStored, Stored, Recovered, OnPath
  <2>5. \A x \in Sessions : x # session => primary'[x] = primary[x] /\ backup'[x] = backup[x]
    BY <1>1, <1>5
  <2>6. r.at # "queued"
    BY <2>1
  <2> QED
    BY <1>1, <1>3, <2>1, <2>2, <2>3, <2>4, <2>5, <2>6, CleanOn
<1> QED
  BY <1>4, <1>5 DEF RetryReplace

(* The old file, its newest backup, takes its path again.                  *)
LEMMA CleanRollback ==
  ASSUME ShapeInv, CleanInv, NEW i \in DOMAIN tasks, Rollback(i)
  PROVE  CleanInv'
<1>1. tasks[i].at = "rollback" /\ tasks[i].at # "queued" /\ Reject(i)
  BY DEF Rollback
<1>2. /\ FilesType /\ session \in Sessions /\ tasks[i].file = session /\ Replaces(tasks[i])
      /\ Distinct(backup[session]) /\ session' = session
  BY <1>1, Parts, Under DEF Reject
<1>3. CASE UNCHANGED <<primary, backup>>
  BY <1>1, <1>3, CleanFailed
<1>4. ASSUME NEW k \in Moved(i),
             primary' = [primary EXCEPT ![session] = <<backup[session][k].text>>],
             backup' = [backup EXCEPT ![session] = RemoveAt(@, k)]
      PROVE  CleanInv'
  <2>1. k \in DOMAIN backup[session] /\ backup[session][k].name = tasks[i].moved
    BY <1>2, <1>4 DEF Moved
  <2> DEFINE q == backup[session]
             n == Len(q)
  <2>2. q \in Seq(Backup) /\ q # <<>>
    BY <1>2, <2>1, FileThere
  <2>3. primary[session] = <<>>
    BY <1>1, <1>2, <2>1 DEF Replaces
  <2>4. Last(q).name = tasks[i].moved /\ n \in DOMAIN q /\ Last(q) = q[n]
    BY <1>1, <1>2, <2>2, <2>3, Shortened DEF Replaces
  <2>5. k = n
    BY <1>2, <2>1, <2>4 DEF Distinct
  <2>6. Recovered(session) = q[k].text
    BY <2>2, <2>3, <2>4, <2>5 DEF Recovered
  <2>7. PICK c \in Content : c = q[k].text
    <3>1. q[k] \in Backup
      BY <2>1, <2>2, LenProperties, ElementOfSeq
    <3> QED
      BY <3>1 DEF Backup
  <2>8. RemoveAt(q, k) \in Seq(Backup) /\ \A j \in DOMAIN RemoveAt(q, k) : \E l \in DOMAIN q : RemoveAt(q, k)[j] = q[l]
    BY <1>2, <2>1, <2>2, BackupTaken
  <2>9. Fair(session, c) /\ \A l \in DOMAIN q : Fair(session, q[l].text)
    BY <1>2, <2>1, <2>7 DEF CleanInv, FilesGood
  <2>10. primary' = [primary EXCEPT ![session] = <<c>>] /\ backup' = [backup EXCEPT ![session] = RemoveAt(q, k)]
    BY <1>4, <2>7
  <2> HIDE DEF q, n
  <2>11. /\ primary'[session] = <<c>> /\ primary'[session] # <<>> /\ primary'[session][1] = c
         /\ DOMAIN primary'[session] = {1}
         /\ \A x \in Sessions : x # session => primary'[x] = primary[x]
    BY <1>2, <2>10, FileWritten
  <2>12. /\ backup'[session] = RemoveAt(q, k)
         /\ \A x \in Sessions : x # session => backup'[x] = backup[x]
    BY <1>2, <2>8, <2>10, BackupsSet
  <2>13. Recovered(session)' = Recovered(session)
    BY <1>2, <2>6, <2>7, <2>11, RecoveredPathAfter
  <2>14. \A j \in DOMAIN primary'[session] : Fair(session, primary'[session][j])
    BY <2>9, <2>11
  <2>15. \A j \in DOMAIN backup'[session] : Fair(session, backup'[session][j].text)
    BY <2>8, <2>9, <2>12
  <2> QED
    BY <1>1, <2>11, <2>12, <2>13, <2>14, <2>15, CleanReject
<1>5. \/ UNCHANGED <<primary, backup>>
      \/ \E k \in Moved(i) :
           /\ primary' = [primary EXCEPT ![session] = <<backup[session][k].text>>]
           /\ backup' = [backup EXCEPT ![session] = RemoveAt(@, k)]
  BY <1>2 DEF Rollback
<1> QED
  BY <1>3, <1>4, <1>5

(* The backup goes, or stays behind with a warning.                        *)
LEMMA CleanUnlink ==
  ASSUME ShapeInv, CleanInv, NEW i \in DOMAIN tasks, Unlink(i)
  PROVE  CleanInv'
<1>1. tasks[i].at = "unlink" /\ tasks[i].at # "queued"
  BY DEF Unlink
<1>2. /\ FilesType /\ session \in Sessions /\ tasks[i].file = session /\ Replaces(tasks[i])
      /\ Distinct(backup[session])
  BY <1>1, Parts, Under
<1>3. /\ tasks' = RemoveAt(tasks, i) /\ Promise(tasks[i].file, tasks[i].body)
      /\ UNCHANGED <<mode, session, header, entries, rev, diskFailure, recorded, owned, torn, primary>>
  BY DEF Unlink, Finish, Settle, unchangedByTask
<1>4. primary'[session] = <<tasks[i].body>>
  BY <1>1, <1>2, <1>3 DEF Replaces
<1>5. /\ \A x \in Sessions : x # session => backup'[x] = backup[x]
      /\ \A k \in DOMAIN backup'[session] : Fair(session, backup'[session][k].text)
  <2>1. CASE backup' = backup
    BY <1>2, <2>1 DEF CleanInv, FilesGood
  <2>2. ASSUME NEW k \in Moved(i), backup' = [backup EXCEPT ![session] = RemoveAt(@, k)]
        PROVE  <1>5
    <3> DEFINE q == backup[session]
    <3>1. q \in Seq(Backup) /\ k \in DOMAIN q
      BY <1>2, <2>2, FileThere DEF Moved
    <3>2. RemoveAt(q, k) \in Seq(Backup)
          /\ \A j \in DOMAIN RemoveAt(q, k) : \E l \in DOMAIN q : RemoveAt(q, k)[j] = q[l]
      BY <1>2, <3>1, BackupTaken
    <3>3. \A l \in DOMAIN q : Fair(session, q[l].text)
      BY <1>2 DEF CleanInv, FilesGood
    <3>4. backup' = [backup EXCEPT ![session] = RemoveAt(q, k)]
      BY <2>2
    <3> HIDE DEF q
    <3>5. /\ backup'[session] = RemoveAt(q, k)
          /\ \A x \in Sessions : x # session => backup'[x] = backup[x]
      BY <1>2, <3>2, <3>4, BackupsSet
    <3> QED
      BY <3>2, <3>3, <3>5
  <2>3. \/ backup' = backup
        \/ \E k \in Moved(i) : backup' = [backup EXCEPT ![session] = RemoveAt(@, k)]
    BY <1>2 DEF Unlink
  <2> QED
    BY <2>1, <2>2, <2>3
<1>6. \A x \in Sessions : x # session => primary'[x] = primary[x] /\ backup'[x] = backup[x]
  BY <1>3, <1>5
<1> QED
  BY <1>1, <1>3, <1>4, <1>5, <1>6, CleanFinish

-----------------------------------------------------------------------------
(* Every behaviour.                                                        *)

(* A session that begins with nothing.                                     *)
LEMMA CleanInit ==
  ASSUME Init
  PROVE  CleanInv
<1>1. /\ ToSet(entries) = {} /\ DOMAIN entries = {} /\ ToSet(tasks) = {} /\ DOMAIN tasks = {}
      /\ entries = <<>> /\ header = session /\ rev = 0 /\ fileIsCurrent = FALSE /\ mode = "live"
      /\ session \in Sessions
  BY Bounds DEF Init, ToSet
<1>2. \A s \in Sessions : /\ primary[s] = <<>> /\ backup[s] = <<>> /\ owned[s] = {}
                          /\ promised[s].lines = {} /\ promised[s].rev = 0
  BY DEF Init
<1>3. FilesGood
  <2>1. ASSUME NEW s \in Sessions
        PROVE  DOMAIN primary[s] = {} /\ DOMAIN backup[s] = {} /\ owned[s] \subseteq 1..recorded
    BY <1>2
  <2> QED
    BY <2>1 DEF FilesGood
<1>4. MemoryGood
  <2>1. Good(session, Body(entries)) /\ Ascending(entries)
    BY <1>1 DEF Good, Body, Ascending
  <2>2. Covers(Body(entries), session)
    BY <1>1, <1>2 DEF Covers, Body
  <2> QED
    BY <1>1, <2>1, <2>2 DEF MemoryGood
<1>5. Synced
  BY <1>1 DEF Synced, Cold
<1>6. WindowGood /\ SwitchGood
  BY <1>1 DEF WindowGood, SwitchGood, OneInside, Inside
<1>7. AllStored
  <2>1. ASSUME NEW s \in Sessions PROVE Stored(s)
    <3>1. Recovered(s) = Blank
      BY <1>2 DEF Recovered, OnPath
    <3>2. Recovered(s).rev = 0 /\ Recovered(s).lines = <<>>
      BY <3>1 DEF Blank
    <3> QED
      BY <1>2, <3>2 DEF Stored
  <2> QED
    BY <2>1 DEF AllStored
<1> QED
  BY <1>3, <1>4, <1>5, <1>6, <1>7 DEF CleanInv

(* What has overtaken scheduled work stays on record.                      *)
LEMMA OverlapStays ==
  ASSUME [Next]_vars, overlap
  PROVE  overlap'
<1>1. CASE UNCHANGED vars
  BY <1>1 DEF vars
<1>2. ASSUME NEW i \in DOMAIN tasks, TaskStep(i) PROVE overlap'
  BY <1>2 DEF TaskStep, SkipTask, RunFlush, RunClose, RunDrain, BeginRewrite, Replace, MoveAside,
              RetryReplace, Rollback, Unlink, Finish, Reject
<1>3. CASE RecordEntry
  BY <1>3 DEF RecordEntry, AppendToSessionFile, AppendLine, AppendLineFails, RewriteSynchronously
<1>4. CASE FlushSync \/ CreateBranchedSession
  BY <1>4 DEF FlushSync, CreateBranchedSession, RewriteSynchronously
<1>5. CASE \/ RewriteEntries \/ SetSessionName \/ EnsureOnDisk \/ Flush \/ NewSession \/ Fork
           \/ Close \/ SwitchSession \/ Load \/ Crash \/ Start
  BY <1>5 DEF RewriteEntries, SetSessionName, EnsureOnDisk, Flush, NewSession, Fork, Close, Command,
              SwitchSession, Load, Crash, Start, unchangedByOp
<1> QED
  BY <1>1, <1>2, <1>3, <1>4, <1>5 DEF Next

(* Every step that overtakes nothing keeps the files in order.             *)
LEMMA CleanNext ==
  ASSUME ShapeInv, CleanInv, [Next]_vars, ~overlap'
  PROVE  CleanInv'
<1>1. CASE UNCHANGED vars
  <2>1. /\ UNCHANGED <<mode, session, header, entries, rev, fileIsCurrent, rewriteRequired,
                       diskFailure, tasks, primary, backup, recorded, owned, promised, torn>>
    BY <1>1 DEF vars, flags, bounds
  <2>2. Inside' = Inside /\ OneInside(tasks') /\ rev' \in Nat /\ rev <= rev'
    BY <2>1, Parts DEF Inside, CleanInv, WindowGood, MemoryType
  <2> QED
    BY <2>1, <2>2, CleanQuiet
<1>2. ASSUME NEW i \in DOMAIN tasks, TaskStep(i) PROVE CleanInv'
  BY <1>2, CleanNoEffect, CleanClose, CleanDrain, CleanBegin, CleanReplace, CleanMoveAside,
     CleanRetry, CleanRollback, CleanUnlink DEF TaskStep
<1>3. CASE Next
  BY <1>2, <1>3, CleanRecord, CleanOperation, CleanFlushSync, CleanSwitch, CleanBranch,
     CleanLoad, CleanCrash, CleanStart DEF Next
<1> QED
  BY <1>1, <1>3

(* The invariant the properties below rest on holds in every behaviour of  *)
(* the session manager: the directory and the chain keep their shape, and  *)
(* as long as no write has overtaken scheduled work, memory and files agree. *)
THEOREM Invariance == Spec => []IInv
<1>1. Init => IInv
  BY ShapeInit, CleanInit DEF IInv
<1>2. IInv /\ [Next]_vars => IInv'
  <2> SUFFICES ASSUME IInv, [Next]_vars PROVE IInv'
    OBVIOUS
  <2>1. ShapeInv /\ (~overlap => CleanInv)
    BY DEF IInv
  <2>2. ShapeInv'
    BY <2>1, ShapeNext
  <2>3. ~overlap' => ~overlap
    BY OverlapStays
  <2>4. ~overlap' => CleanInv'
    BY <2>1, <2>3, CleanNext
  <2> QED
    BY <2>2, <2>4 DEF IInv
<1> QED
  BY <1>1, <1>2, PTL DEF Spec

(* A file that may be there loads: what it holds belongs to its session.   *)
LEMMA FairLines ==
  ASSUME NEW s \in Sessions, NEW c, Fair(s, c)
  PROVE  ToSet(c.lines) \subseteq owned[s]
BY DEF Fair, Good, Blank, ToSet

(* Without a rewrite in place that failed halfway, every session file has  *)
(* its own header and its lines once and in the order of recording.        *)
THEOREM WellFormedCorrect == Spec => []WellFormed
<1>1. IInv => WellFormed
  BY DEF IInv, CleanInv, FilesGood, Fair, Good, Ascending, WellFormed
<1> QED
  BY <1>1, Invariance, PTL

(* Every session file stays loadable, in order, and about its own session, *)
(* whatever is appended, rewritten, abandoned, switched or recovered.      *)
THEOREM FileInvCorrect == Spec => []FileInv
<1>1. IInv => Isolation
  <2> SUFFICES ASSUME IInv, ~overlap, NEW s \in Sessions
               PROVE  ToSet(Recovered(s).lines) \subseteq owned[s]
    BY DEF Isolation
  <2>1. FilesType /\ FilesGood
    BY Parts DEF IInv, CleanInv
  <2>2. primary[s] \in Seq(Content) /\ backup[s] \in Seq(Backup)
    BY <2>1, FileThere
  <2>3. CASE primary[s] # <<>>
    <3>1. Recovered(s) = primary[s][1] /\ 1 \in DOMAIN primary[s]
      BY <2>1, <2>3, RecoveredPath, FileThere
    <3> QED
      BY <2>1, <3>1, FairLines DEF FilesGood
  <2>4. CASE primary[s] = <<>> /\ backup[s] # <<>>
    <3>1. Last(backup[s]) = backup[s][Len(backup[s])] /\ Len(backup[s]) \in DOMAIN backup[s]
      BY <2>2, <2>4, Shortened
    <3>2. Recovered(s) = Last(backup[s]).text
      BY <2>4 DEF Recovered
    <3> QED
      BY <2>1, <3>1, <3>2, FairLines DEF FilesGood
  <2>5. CASE primary[s] = <<>> /\ backup[s] = <<>>
    BY <2>5 DEF Recovered, OnPath, Blank, ToSet
  <2> QED
    BY <2>3, <2>4, <2>5
<1>2. IInv => TypeOK
  BY DEF IInv, ShapeInv
<1>3. TypeOK /\ WellFormed /\ Isolation => FileInv
  BY DEF FileInv
<1> QED
  BY <1>1, <1>2, <1>3, Invariance, WellFormedCorrect, PTL

(* What the manager has reported as stored is what a start after a crash   *)
(* at any moment would load, as long as no write fell into the window of   *)
(* an atomic rewrite.                                                      *)
THEOREM KeptCorrect == Spec => []Kept
<1>1. IInv => Kept
  BY DEF IInv, CleanInv, AllStored, Kept
<1> QED
  BY <1>1, Invariance, PTL
==============================
