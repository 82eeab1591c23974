SPECIFICATION FairSpec
CONSTANTS
  None = None
  Readers = {r1, r2}
  Closers = {k}
  PeerCodes = {0, 1001, 4999}
  UserCodes = {0, 1001}
  MaxMessages = 2
  MaxCancels = 1
  Awaits = {r1}
CHECK_DEADLOCK FALSE
INVARIANTS OneCloseFrame NoReleasedCall MessagesKept
PROPERTIES ImplementsMessageChannel ListenerReturns
