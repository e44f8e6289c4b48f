SPECIFICATION FairSpec
CONSTANTS
  Requests = {r1, r2}
  MaxConns = 2
  MaxCalls = 2
  MaxRows = 1
  MaxSignals = 2
INVARIANTS PoolIsKept OnlyListsExhaustPool CutOnlyByDeadline IInv
PROPERTIES RequestsEnd SignalEndsProcess RequestsAdvance
CHECK_DEADLOCK FALSE
