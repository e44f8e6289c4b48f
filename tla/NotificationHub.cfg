SPECIFICATION FairSpec
CONSTANTS
  Messages = {"mailed", "unaddressed", "published"}
  WireOf <- MCMixedWire
  Addressed = {"mailed", "published"}
  Notifiers = 2
  MaxFaults = 1
  MaxMails = 2
INVARIANTS AckedIsSettled MailedOnce StoppedIsQuiet IInv
PROPERTIES EventsAreMailed StopReturns StopWaitShrinks ImplementsDelivery
CHECK_DEADLOCK FALSE
