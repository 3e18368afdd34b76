CONSTANTS
  Agents = {a1}
  Resumable = {a1}
  Peers = {p1, p2}
  Anyone = Anyone
  MailboxCap = 2
  MaxMessages = 3
  MaxSessions = 3
  MaxWaiters = 2
  MaxOps = 4
SPECIFICATION FairSpec
INVARIANTS BusInv TimerIdle OneCopy NoMissedMail
PROPERTY Receipts
CHECK_DEADLOCK FALSE
