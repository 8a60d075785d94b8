\* Two encodings, two rounds each, allocations may fail.
SPECIFICATION FairSpec
CONSTANTS
  Enc = {e1, e2}
  MaxRound = 2
  MayFail = TRUE
  NULL = NULL
  Junk = Junk
INVARIANTS
  TypeOK
  SendMeansDack
  OnlyFramesLeave
  OneHolder
  PendingHasDeadline
PROPERTIES
  NoFrameForgotten
  MailboxSpec
  PendingGoesOut
\* No more frames need arrive once every round has been asked for.
CHECK_DEADLOCK FALSE
