----------------------------- MODULE SessionFile -----------------------------
(***************************************************************************)
(* The session journal of omp: SessionManager over FileSessionStorage.     *)
(*                                                                         *)
(* A session is a file of one header line and entries.  Appends are        *)
(* synchronous and bypass a chain of asynchronous disk work (#diskTail);   *)
(* a full rewrite goes either through that chain (temporary file and       *)
(* rename) or is done in place, synchronously, which abandons the chain.   *)
(* An append writer holds an inode, not a path: a rename leaves it with a  *)
(* file nobody will read.  A crash loses the memory of the process and     *)
(* keeps the directory.                                                    *)
(*                                                                         *)
(* Entries are numbered in the order they are recorded.  `rev' counts the  *)
(* updates of the header (title) and of entries in place (pruning), which  *)
(* reach the disk only by a full rewrite.                                  *)
(***************************************************************************)
EXTENDS Naturals, Sequences, FiniteSets, SequencesExt

CONSTANTS
  MaxEntries,   \* bound: entries recorded in a behaviour
  Assistant,    \* the entries that are assistant messages
  MaxSessions,  \* bound: session files
  MaxOps,       \* bound: operations other than appends
  MaxErrors,    \* bound: failing disk operations
  MaxStarts,    \* bound: starts after a crash or a close
  Eperm         \* TRUE: a rename may fail with EPERM (Windows)

ASSUME SessionAssumption ==
  /\ {MaxEntries, MaxSessions, MaxOps, MaxErrors, MaxStarts} \subseteq Nat
  /\ MaxSessions >= 1
  /\ Assistant \subseteq Nat
  /\ Eperm \in BOOLEAN

VARIABLES
  (* the manager *)
  mode,            \* live, loading (in setSessionFile), closed or down
  session,         \* the session whose file is #sessionFile
  header,          \* the session #header belongs to
  entries,         \* #entries
  rev,             \* revision of header and entries held in memory
  fileIsCurrent, rewriteRequired, forceFileCreation,
  writer,          \* the file the open append writer holds
  diskEpoch, diskFailure,
  tail,            \* number of the chain that #diskTail ends
  tasks,           \* scheduled disk work that has not settled, oldest first
  (* the directory *)
  primary,         \* session -> <<contents of <session>.jsonl>>, or <<>>
  backup,          \* session -> its .bak files, oldest first
  (* bounds *)
  ops, errors, starts,
  recorded,        \* entries recorded so far
  created,         \* session files named so far
  (* history *)
  owned,           \* session -> entries that were in memory under it
  promised,        \* session -> what the manager has reported as stored
  overlap,         \* a write or a change of session overtook scheduled work
  torn             \* a rewrite in place failed after truncating the file

flags  == <<fileIsCurrent, rewriteRequired, forceFileCreation>>
bounds == <<ops, errors, starts, recorded, created>>
vars   == <<mode, session, header, entries, rev, flags, writer, diskEpoch, diskFailure,
            tail, tasks, primary, backup, bounds, owned, promised, overlap, torn>>

Sessions == 1..MaxSessions
Entries  == 1..MaxEntries

(* A file: its header line (0: it has none), the revision its lines have   *)
(* and the entry lines.                                                    *)
Content == [hdr : 0..MaxSessions, rev : Nat, lines : Seq(Entries)]
Blank   == [hdr |-> 0, rev |-> 0, lines |-> <<>>]

(* A file moved aside, with the snowflake in its name.                     *)
Backup == [name : Nat, text : Content]

(* Where an append writer writes: the file of a session, the same file     *)
(* after it was moved aside, or one that has no name any more.             *)
NoWriter          == [file |-> 0, at |-> "none", name |-> 0]
AtPrimary(s)      == [file |-> s, at |-> "primary", name |-> 0]
AtBackup(s, name) == [file |-> s, at |-> "backup", name |-> name]
Nameless(s)       == [file |-> s, at |-> "gone", name |-> 0]
Writers == [file : Sessions, at : {"primary", "backup", "gone"}, name : Nat] \cup {NoWriter}

Task == [op : {"rewrite", "flush", "drain", "close"}, chain : Nat, epoch : Nat,
         next : {"none", "new", "fork", "switch"},  \* what awaits a drain
         at : {"queued", "replacing", "eperm", "retry", "rollback",
               "unlink"},
         file : 0..MaxSessions, body : Content,
         moved : Nat]                               \* the name of its backup

TypeOK ==
  /\ mode \in {"live", "loading", "closed", "down"}
  /\ session \in Sessions /\ header \in Sessions
  /\ entries \in Seq(Entries)
  /\ rev \in Nat
  /\ flags \in BOOLEAN \X BOOLEAN \X BOOLEAN
  /\ writer \in Writers
  /\ diskEpoch \in Nat /\ tail \in Nat
  /\ diskFailure \in BOOLEAN
  /\ tasks \in Seq(Task)
  /\ primary \in [Sessions -> Seq(Content)] /\ \A s \in Sessions : Len(primary[s]) <= 1
  /\ backup \in [Sessions -> Seq(Backup)]
  /\ ops \in 0..MaxOps /\ errors \in 0..MaxErrors /\ starts \in 0..MaxStarts
  /\ recorded \in 0..MaxEntries /\ created \in Sessions
  /\ owned \in [Sessions -> SUBSET Entries]
  /\ promised \in [Sessions -> [lines : SUBSET Entries, rev : Nat]]
  /\ overlap \in BOOLEAN /\ torn \in BOOLEAN

-----------------------------------------------------------------------------
(* What #fileBody() serialises for a list of entries.                      *)
Body(ents) == [hdr |-> header, rev |-> rev, lines |-> ents]

HasAssistant(ents) == ToSet(ents) \cap Assistant # {}

(* #shouldHaveSessionFile: the lazy gate of a new session.                 *)
ShouldHaveSessionFile(ents) ==
  forceFileCreation \/ fileIsCurrent \/ HasAssistant(ents)

(* A rewrite has serialised its body and has not returned yet.             *)
InWindow == \E i \in DOMAIN tasks : tasks[i].at # "queued"

(* The commands that change the session are awaited one after the other.   *)
NoCommand == \A i \in DOMAIN tasks : tasks[i].op \notin {"drain", "close"}

(* The manager has reported these lines of session s as stored.            *)
Promise(s, c) ==
  promised' = [promised EXCEPT ![s] =
                 [lines |-> @.lines \cup ToSet(c.lines),
                  rev   |-> IF c.rev > @.rev THEN c.rev ELSE @.rev]]

NewTask(op, next) ==
  [op |-> op, chain |-> tail, epoch |-> diskEpoch, next |-> next,
   at |-> "queued", file |-> 0, body |-> Blank, moved |-> 0]

(* #scheduleDiskWork: behind everything of the current chain.              *)
Schedule(op, next) == tasks' = Append(tasks, NewTask(op, next))

Fails == errors < MaxErrors /\ errors' = errors + 1

Init ==
  /\ mode = "live" /\ session = 1 /\ header = 1 /\ entries = <<>> /\ rev = 0
  /\ fileIsCurrent = FALSE /\ rewriteRequired = FALSE /\ forceFileCreation = FALSE
  /\ writer = NoWriter
  /\ diskEpoch = 0 /\ diskFailure = FALSE /\ tail = 0 /\ tasks = <<>>
  /\ primary = [s \in Sessions |-> <<>>]
  /\ backup = [s \in Sessions |-> <<>>]
  /\ ops = 0 /\ errors = 0 /\ starts = 0 /\ recorded = 0 /\ created = 1
  /\ owned = [s \in Sessions |-> {}]
  /\ promised = [s \in Sessions |-> [lines |-> {}, rev |-> 0]]
  /\ overlap = FALSE /\ torn = FALSE

-----------------------------------------------------------------------------
(* Writing without the chain.                                              *)

(* #rewriteSynchronously: abandons the chain and the writer and writes the *)
(* file in place; a failure may come before or after the truncation.       *)
RewriteSynchronously(s, c) ==
  /\ diskEpoch' = diskEpoch + 1
  /\ tail' = tail + 1
  /\ writer' = NoWriter
  /\ overlap' = (overlap \/ InWindow \/ ~NoCommand \/ mode = "loading")
  /\ \/ /\ primary' = [primary EXCEPT ![s] = <<c>>]
        /\ fileIsCurrent' = TRUE /\ rewriteRequired' = FALSE
        /\ Promise(s, c)
        /\ UNCHANGED <<diskFailure, errors, torn>>
     \/ /\ Fails
        /\ diskFailure' = TRUE
        /\ \/ UNCHANGED <<primary, torn>>
           \/ primary' = [primary EXCEPT ![s] = <<Blank>>] /\ torn' = TRUE
        /\ UNCHANGED <<fileIsCurrent, rewriteRequired, promised>>

(* The hot path of #appendToSessionFile: one line through the open writer, *)
(* which is opened by name when there is none.                             *)
AppendLine(e) ==
  LET w == IF writer = NoWriter THEN AtPrimary(session) ELSE writer
      old == IF primary[session] = <<>> THEN Blank ELSE primary[session][1]
  IN /\ writer' = w
     /\ overlap' = (overlap \/ InWindow \/ w.at # "primary")
     /\ primary' = [primary EXCEPT ![session] =
                      IF w.at # "primary" THEN @
                      ELSE <<[old EXCEPT !.lines = Append(@, e)]>>]
     /\ backup' = [backup EXCEPT ![session] =
                     [k \in DOMAIN backup[session] |->
                        IF w.at = "backup" /\ w.name = backup[session][k].name
                        THEN [backup[session][k] EXCEPT !.text.lines = Append(@, e)]
                        ELSE backup[session][k]]]
     /\ Promise(session, [rev |-> 0, lines |-> entries'])
     /\ UNCHANGED <<diskEpoch, tail, fileIsCurrent, rewriteRequired, diskFailure,
                    errors, torn>>

(* The write or the opening of the file fails: noted, nothing else.        *)
AppendLineFails ==
  /\ Fails
  /\ diskFailure' = TRUE
  /\ UNCHANGED <<writer, overlap, primary, backup, promised, diskEpoch, tail,
                 fileIsCurrent, rewriteRequired, torn>>

\* A mutant of Cold: a file that was never written is appended to.
ColdIfDivergent == rewriteRequired

(* Nothing on disk yet, or the memory has diverged from it.                *)
Cold == ~fileIsCurrent \/ rewriteRequired

(* #appendToSessionFile with its early returns.                            *)
AppendToSessionFile(e) ==
  \/ /\ diskFailure          \* throws; the entry stays in memory
     /\ UNCHANGED <<writer, overlap, primary, backup, promised, diskEpoch, tail,
                    fileIsCurrent, rewriteRequired, diskFailure, errors, torn>>
  \/ /\ ~diskFailure /\ ~ShouldHaveSessionFile(entries')
     /\ fileIsCurrent' = FALSE
     /\ overlap' = (overlap \/ InWindow)
     /\ UNCHANGED <<writer, primary, backup, promised, diskEpoch, tail,
                    rewriteRequired, diskFailure, errors, torn>>
  \/ /\ ~diskFailure /\ ShouldHaveSessionFile(entries')
     /\ Cold
     /\ RewriteSynchronously(session, Body(entries'))
     /\ UNCHANGED backup
  \/ /\ ~diskFailure /\ ShouldHaveSessionFile(entries') /\ ~Cold
     /\ AppendLine(e) \/ AppendLineFails

(* #recordEntry, behind appendMessage and its relatives.                   *)
RecordEntry ==
  /\ mode = "live" /\ recorded < MaxEntries
  /\ recorded' = recorded + 1
  /\ entries' = Append(entries, recorded + 1)
  /\ owned' = [owned EXCEPT ![session] = @ \cup {recorded + 1}]
  /\ AppendToSessionFile(recorded + 1)
  /\ UNCHANGED <<mode, session, header, rev, forceFileCreation, tasks, ops, starts,
                 created>>

-----------------------------------------------------------------------------
(* Operations.                                                             *)

Operation == mode = "live" /\ ops < MaxOps /\ ops' = ops + 1

(* A title that was generated in the background and the keyboard's Ctrl-C  *)
(* do not wait for a switch of session to end.                             *)
AnyTime == mode \in {"live", "loading"} /\ ops < MaxOps /\ ops' = ops + 1

unchangedByOp == <<mode, session, header, entries, writer, diskEpoch, diskFailure, tail,
                   primary, backup, errors, starts, recorded, created, owned,
                   promised, overlap, torn>>

(* rewriteEntries after entries were pruned in place; there is something   *)
(* to prune only after an assistant message.                               *)
RewriteEntries ==
  /\ Operation
  /\ HasAssistant(entries)
  /\ rev' = rev + 1
  /\ Schedule("rewrite", "none")
  /\ UNCHANGED <<unchangedByOp, flags>>

(* setSessionName: the title is in memory whether or not it is written.    *)
SetSessionName ==
  /\ AnyTime
  /\ rev' = rev + 1
  /\ IF primary[session] # <<>> THEN Schedule("rewrite", "none") ELSE UNCHANGED tasks
  /\ UNCHANGED <<unchangedByOp, flags>>

EnsureOnDisk ==
  /\ Operation
  /\ forceFileCreation' = TRUE
  /\ IF fileIsCurrent /\ ~rewriteRequired THEN UNCHANGED tasks
                                          ELSE Schedule("rewrite", "none")
  /\ UNCHANGED <<unchangedByOp, rev, fileIsCurrent, rewriteRequired>>

Flush ==
  /\ Operation
  /\ Schedule("flush", "none")
  /\ UNCHANGED <<unchangedByOp, rev, flags>>

FlushSync ==
  /\ AnyTime
  /\ ~diskFailure
  /\ RewriteSynchronously(session, Body(entries))
  /\ UNCHANGED <<mode, session, header, entries, rev, forceFileCreation, tasks, backup,
                 starts, recorded, created, owned>>

(* newSession, fork, setSessionFile: first #drainAndCloseWriter.           *)
Command(next) ==
  /\ Operation /\ NoCommand /\ created < MaxSessions
  /\ Schedule("drain", next)
  /\ UNCHANGED <<unchangedByOp, rev, flags>>

\* A mutant of Orphaned: a backup replaces a file that is there.
OrphanedAnyway(s) == backup[s] # <<>>

Orphaned(s) == primary[s] = <<>> /\ backup[s] # <<>>

(* recoverOrphanedBackups: the newest backup becomes a missing file again. *)
RecoverOrphanedBackups ==
  /\ primary' = [s \in Sessions |-> IF Orphaned(s) THEN <<Last(backup[s]).text>> ELSE primary[s]]
  /\ backup'  = [s \in Sessions |-> IF Orphaned(s) THEN Front(backup[s]) ELSE backup[s]]

NewSession == Command("new")
Fork       == Command("fork")

(* The session is chosen from a listing, which repairs the directory first. *)
SwitchSession ==
  /\ Operation /\ NoCommand
  /\ RecoverOrphanedBackups
  /\ \E s \in 1..created :
       /\ s # session /\ primary'[s] # <<>>
       /\ tasks' = Append(tasks, [NewTask("drain", "switch") EXCEPT !.file = s])
  /\ writer' = IF /\ writer.at = "backup" /\ Orphaned(writer.file)
                  /\ writer.name = Last(backup[writer.file]).name
               THEN AtPrimary(writer.file) ELSE writer
  /\ UNCHANGED <<mode, session, header, entries, rev, flags, diskEpoch, diskFailure, tail,
                 errors, starts, recorded, created, owned, promised, overlap, torn>>

Close ==
  /\ Operation /\ NoCommand
  /\ Schedule("close", "none")
  /\ UNCHANGED <<unchangedByOp, rev, flags>>

(* createBranchedSession: a new file with the path to an earlier entry.    *)
CreateBranchedSession ==
  /\ Operation /\ NoCommand /\ created < MaxSessions
  /\ \E n \in DOMAIN entries :
       /\ created' = created + 1
       /\ session' = created + 1 /\ header' = created + 1
       /\ entries' = SubSeq(entries, 1, n)
       /\ rev' = 0
       /\ forceFileCreation' = TRUE
       /\ owned' = [owned EXCEPT ![created + 1] = ToSet(SubSeq(entries, 1, n))]
       /\ RewriteSynchronously(created + 1,
            [hdr |-> created + 1, rev |-> 0, lines |-> SubSeq(entries, 1, n)])
  /\ UNCHANGED <<mode, tasks, backup, starts, recorded>>

-----------------------------------------------------------------------------
(* The chain.                                                              *)

(* A task begins when the ones before it in its chain have settled, whether *)
(* they failed or not.                                                     *)
Ready(i) == tasks[i].at = "queued" /\ \A j \in 1..(i - 1) : tasks[j].chain # tasks[i].chain

Settle(i) == tasks' = RemoveAt(tasks, i)
Goto(i, at) == tasks' = [tasks EXCEPT ![i].at = at]

unchangedByTask == <<header, entries, rev, diskEpoch, ops, starts, recorded, owned, torn>>

\* A mutant of Refused: work behind a failure neither runs nor settles.
RefusedIfStale(i) == tasks[i].epoch # diskEpoch

(* Stale after a synchronous rewrite, or refused after an earlier failure. *)
Refused(i) == tasks[i].epoch # diskEpoch \/ diskFailure

SkipTask(i) ==
  /\ Ready(i)
  /\ tasks[i].op # "drain"
  /\ Refused(i)
  /\ Settle(i)
  /\ UNCHANGED <<mode, session, flags, writer, diskFailure, tail, primary, backup,
                 errors, created, promised, overlap, unchangedByTask>>

Runs(i, op) ==
  Ready(i) /\ tasks[i].op = op /\ tasks[i].epoch = diskEpoch /\ ~diskFailure

RunFlush(i) ==
  /\ Runs(i, "flush")
  /\ Settle(i)
  /\ UNCHANGED <<mode, session, flags, writer, diskFailure, tail, primary, backup,
                 errors, created, promised, overlap, unchangedByTask>>

RunClose(i) ==
  /\ Runs(i, "close")
  /\ writer' = NoWriter
  /\ fileIsCurrent' = TRUE
  /\ mode' = "closed"       \* dispose: nobody uses this manager any more
  /\ Settle(i)
  /\ UNCHANGED <<session, rewriteRequired, forceFileCreation, diskFailure, tail,
                 primary, backup, errors, created, promised, overlap, unchangedByTask>>

(* #resetToNewSession under the name s.                                    *)
ResetTo(s) ==
  /\ session' = s /\ header' = s /\ entries' = <<>> /\ rev' = 0
  /\ fileIsCurrent' = FALSE /\ rewriteRequired' = FALSE
  /\ diskFailure' = FALSE

(* The end of #drainAndCloseWriter and what its caller does next.          *)
RunDrain(i) ==
  LET t == tasks[i] IN
  /\ Ready(i) /\ t.op = "drain"
  /\ writer' = NoWriter
  /\ tail' = tail + 1
  /\ diskFailure' = FALSE
  /\ CASE t.next = "new" ->
            /\ ResetTo(created + 1) /\ created' = created + 1
            /\ forceFileCreation' = FALSE
            /\ Settle(i)
            /\ UNCHANGED <<mode, owned>>
       [] t.next = "fork" ->
            /\ session' = created + 1 /\ header' = created + 1
            /\ created' = created + 1
            /\ fileIsCurrent' = FALSE /\ rewriteRequired' = FALSE
            /\ forceFileCreation' = TRUE
            /\ owned' = [owned EXCEPT ![created + 1] = ToSet(entries)]
            /\ tasks' = Append(RemoveAt(tasks, i),
                               [NewTask("rewrite", "none") EXCEPT !.chain = tail + 1])
            /\ UNCHANGED <<mode, entries, rev>>
       [] t.next = "switch" ->
            /\ session' = t.file
            /\ mode' = "loading"
            /\ Settle(i)
            /\ UNCHANGED <<header, entries, rev, flags, created, owned>>
  /\ overlap' = (overlap \/ Len(tasks) > 1)
  /\ UNCHANGED <<diskEpoch, primary, backup, ops, errors, starts, recorded, promised,
                 torn>>

(* Adopting what loadEntriesFromFile returned for the file of session s; a *)
(* file without a valid header counts as empty and begins a new chain.     *)
Adopt(s, c, chain, failure) ==
  IF c.hdr # 0
  THEN /\ session' = s /\ header' = c.hdr
       /\ entries' = c.lines /\ rev' = c.rev
       /\ owned' = [owned EXCEPT ![s] = @ \cup ToSet(c.lines)]
       /\ fileIsCurrent' = TRUE
       /\ rewriteRequired' \in BOOLEAN   \* migrated or sanitized
       /\ forceFileCreation' = TRUE
       /\ diskFailure' = failure
       /\ tail' = chain
       /\ UNCHANGED tasks
  ELSE /\ ResetTo(s)
       /\ forceFileCreation' = TRUE
       /\ tail' = chain + 1
       /\ tasks' = Append(tasks, [NewTask("rewrite", "none") EXCEPT !.chain = tail',
                                                           !.epoch = diskEpoch'])
       /\ UNCHANGED owned

OnPath(s) == IF primary[s] = <<>> THEN Blank ELSE primary[s][1]

(* The second half of setSessionFile.  The agent is disconnected and       *)
(* aborted by then, so nothing is recorded in between.                     *)
Load ==
  /\ mode = "loading"
  /\ mode' = "live"
  /\ UNCHANGED <<writer, diskEpoch, primary, backup, bounds, promised, overlap, torn>>
  /\ Adopt(session, OnPath(session), tail, diskFailure)

-----------------------------------------------------------------------------
(* #rewriteAtomically and writeTextAtomic.                                 *)

(* The name and the body are taken together, after the writer is closed;    *)
(* closing takes no file operation that another task could overtake.       *)
BeginRewrite(i) ==
  /\ Runs(i, "rewrite")
  /\ writer' = NoWriter
  /\ tasks' = [tasks EXCEPT ![i].at = "replacing", ![i].file = session,
                            ![i].body = Body(entries)]
  /\ overlap' = (overlap \/ InWindow \/ mode = "loading")
  /\ UNCHANGED <<mode, session, flags, diskFailure, tail, primary, backup, errors,
                 created, promised, unchangedByTask>>

(* What a rename onto, or away from, a file does to an open writer.        *)
Renamed(from, to) == writer' = IF writer = from THEN to ELSE writer

(* The rewrite has returned: the flags of the manager as it is now.        *)
Finish(i) ==
  /\ fileIsCurrent' = TRUE /\ rewriteRequired' = FALSE
  /\ Promise(tasks[i].file, tasks[i].body)
  /\ Settle(i)
  /\ UNCHANGED <<mode, session, forceFileCreation, diskFailure, tail, errors, created,
                 overlap, unchangedByTask>>

Reject(i) ==
  /\ diskFailure' = TRUE
  /\ Settle(i)
  /\ UNCHANGED <<mode, session, flags, tail, created, promised, overlap,
                 unchangedByTask>>

Replaced(i) ==
  LET s == tasks[i].file IN
  /\ primary' = [primary EXCEPT ![s] = <<tasks[i].body>>]
  /\ Renamed(AtPrimary(s), Nameless(s))

Replace(i) ==
  /\ tasks[i].at = "replacing"
  /\ \/ Replaced(i) /\ Finish(i) /\ UNCHANGED backup
     \/ Fails /\ Reject(i) /\ UNCHANGED <<writer, primary, backup>>
     \/ /\ Eperm
        /\ Goto(i, "eperm")
        /\ UNCHANGED <<mode, session, flags, writer, diskFailure, tail, primary, backup,
                       errors, created, promised, overlap, unchangedByTask>>

(* A name no backup has, and none that a task still remembers.             *)
Snowflake(s) ==
  CHOOSE n \in 1..(Len(backup[s]) + Len(tasks) + 1) :
    /\ \A k \in DOMAIN backup[s] : backup[s][k].name # n
    /\ \A j \in DOMAIN tasks : tasks[j].moved # n

(* #replaceSessionFileAfterEperm, first rename; a missing file needs no    *)
(* backup.                                                                 *)
MoveAside(i) ==
  LET s    == tasks[i].file
      name == Snowflake(s)
  IN
  /\ tasks[i].at = "eperm"
  /\ \/ /\ primary[s] = <<>>
        /\ Replaced(i) /\ Finish(i) /\ UNCHANGED backup
     \/ /\ primary[s] # <<>>
        /\ primary' = [primary EXCEPT ![s] = <<>>]
        /\ backup' = [backup EXCEPT ![s] = Append(@, [name |-> name, text |-> primary[s][1]])]
        /\ Renamed(AtPrimary(s), AtBackup(s, name))
        /\ tasks' = [tasks EXCEPT ![i].at = "retry", ![i].moved = name]
        /\ UNCHANGED <<mode, session, flags, diskFailure, tail, errors, created,
                       promised, overlap, unchangedByTask>>
     \/ Fails /\ Reject(i) /\ UNCHANGED <<writer, primary, backup>>

RetryReplace(i) ==
  /\ tasks[i].at = "retry"
  /\ \/ /\ Replaced(i)
        /\ Goto(i, "unlink")
        /\ UNCHANGED errors
     \/ /\ Fails
        /\ Goto(i, "rollback")
        /\ UNCHANGED <<writer, primary>>
  /\ UNCHANGED <<mode, session, flags, diskFailure, tail, backup, created, promised,
                 overlap, unchangedByTask>>

(* The place of the backup of task i; none if a listing has recovered it.  *)
Moved(i) == {k \in DOMAIN backup[tasks[i].file] : backup[tasks[i].file][k].name = tasks[i].moved}

Rollback(i) ==
  LET s == tasks[i].file IN
  /\ tasks[i].at = "rollback"
  /\ Reject(i)
  /\ \/ \E k \in Moved(i) :
          /\ primary' = [primary EXCEPT ![s] = <<backup[s][k].text>>]
          /\ backup' = [backup EXCEPT ![s] = RemoveAt(@, k)]
          /\ writer' = CASE writer = AtBackup(s, tasks[i].moved) -> AtPrimary(s)
                         [] writer = AtPrimary(s)                -> Nameless(s)
                         [] OTHER                                -> writer
          /\ UNCHANGED errors
     \/ Moved(i) = {} /\ UNCHANGED <<errors, writer, primary, backup>>
     \/ Fails /\ UNCHANGED <<writer, primary, backup>>

(* A backup that is gone is no failure; one that stays is left behind with *)
(* a warning.                                                              *)
Unlink(i) ==
  LET s == tasks[i].file IN
  /\ tasks[i].at = "unlink"
  /\ \/ \E k \in Moved(i) :
          /\ backup' = [backup EXCEPT ![s] = RemoveAt(@, k)]
          /\ Renamed(AtBackup(s, tasks[i].moved), Nameless(s))
          /\ Finish(i)
          /\ UNCHANGED primary
     \/ Moved(i) = {} /\ Finish(i) /\ UNCHANGED <<writer, primary, backup>>
     \/ /\ Fails
        /\ fileIsCurrent' = TRUE /\ rewriteRequired' = FALSE
        /\ Promise(s, tasks[i].body)
        /\ Settle(i)
        /\ UNCHANGED <<mode, session, forceFileCreation, diskFailure, tail, created,
                       overlap, writer, primary, backup, unchangedByTask>>

-----------------------------------------------------------------------------
(* Crash and start.                                                        *)

Crash ==
  /\ mode \in {"live", "loading"} /\ starts < MaxStarts
  /\ mode' = "down"
  /\ tasks' = <<>> /\ writer' = NoWriter
  /\ ResetTo(session) /\ forceFileCreation' = FALSE
  /\ diskEpoch' = 0 /\ tail' = 0
  /\ UNCHANGED <<primary, backup, bounds, owned, promised, overlap, torn>>

(* continueRecent: a new manager opens the session this terminal used last *)
(* if its file is there, else scans the directory for a session, else      *)
(* begins one.                                                             *)
Start ==
  /\ mode \in {"down", "closed"} /\ tasks = <<>>
  /\ starts < MaxStarts /\ starts' = starts + 1
  /\ mode' = "live"
  /\ writer' = NoWriter
  /\ diskEpoch' = 0
  /\ \/ /\ primary[session] # <<>>
        /\ Adopt(session, primary[session][1], 0, FALSE)
        /\ UNCHANGED <<created, primary, backup>>
     \/ /\ RecoverOrphanedBackups
        /\ \E s \in Sessions :
             /\ primary'[s] # <<>>
             /\ Adopt(s, primary'[s][1], 0, FALSE)
        /\ UNCHANGED created
     \/ /\ RecoverOrphanedBackups
        /\ \A s \in Sessions : primary'[s] = <<>>
        /\ created < MaxSessions /\ created' = created + 1
        /\ ResetTo(created + 1) /\ forceFileCreation' = FALSE
        /\ tail' = 0
        /\ UNCHANGED <<tasks, owned>>
  /\ UNCHANGED <<ops, errors, recorded, promised, overlap, torn>>

-----------------------------------------------------------------------------
TaskStep(i) ==
  \/ SkipTask(i) \/ RunFlush(i) \/ RunClose(i) \/ RunDrain(i) \/ BeginRewrite(i)
  \/ Replace(i) \/ MoveAside(i) \/ RetryReplace(i) \/ Rollback(i)
  \/ Unlink(i)

Next ==
  \/ RecordEntry \/ RewriteEntries \/ SetSessionName \/ EnsureOnDisk \/ Flush
  \/ FlushSync \/ NewSession \/ Fork \/ SwitchSession \/ Close
  \/ CreateBranchedSession \/ Load
  \/ \E i \in DOMAIN tasks : TaskStep(i)
  \/ Crash \/ Start

Spec == Init /\ [][Next]_vars

(* Disk work and loading go on while the process lives.                    *)
FairSpec == Spec /\ WF_vars(\E i \in DOMAIN tasks : TaskStep(i)) /\ WF_vars(Load)
-----------------------------------------------------------------------------
(* Properties.                                                             *)

(* What a later start of the program loads for session s.                  *)
Recovered(s) ==
  IF primary[s] = <<>> /\ backup[s] # <<>> THEN Last(backup[s]).text ELSE OnPath(s)

Stored(s) ==
  /\ promised[s].lines \subseteq ToSet(Recovered(s).lines)
  /\ promised[s].rev <= Recovered(s).rev
  /\ promised[s].lines # {} => Recovered(s).hdr = s

(* What the manager has reported as stored, an appended entry or a finished *)
(* rewrite, is what a start after a crash at this moment would load: no     *)
(* failed rewrite, rollback, abandoned chain or switch of session loses it, *)
(* as long as no write fell into the window of an atomic rewrite.           *)
Kept == ~overlap /\ ~torn => \A s \in Sessions : Stored(s)

(* The promise of the class comment of SessionManager without exception: an *)
(* entry survives a kill "the instant appendMessage returns".               *)
Durable == ~torn => \A s \in Sessions : Stored(s)

(* A session file never holds a line twice or out of order, and never lacks *)
(* its header (the loader would treat it as empty): the hot path, the cold  *)
(* path and the chain never write the same entry both.                      *)
WellFormed == ~overlap /\ ~torn =>
  \A s \in Sessions : \A i \in DOMAIN primary[s] :
    LET c == primary[s][i] IN
    /\ c.hdr = s
    /\ \A a, b \in DOMAIN c.lines : a < b => c.lines[a] < c.lines[b]

(* No line of one session reaches the file of another, even when a rewrite  *)
(* scheduled for the old session is carried out after the switch.           *)
Isolation == ~overlap => \A s \in Sessions : ToSet(Recovered(s).lines) \subseteq owned[s]

(* Whatever is appended, rewritten, abandoned, switched or recovered, every *)
(* session file stays loadable, in order and about its own session.         *)
FileInv == TypeOK /\ WellFormed /\ Isolation

(* The chain always runs dry: a rewrite that fails, or one that was         *)
(* abandoned, never keeps a later flush, close or switch waiting.           *)
ChainDrains == []<>(tasks = <<>>)
=============================================================================
