SPECIFICATION Spec
CONSTANTS
  Messages = {"m1", "m2"}
  WireOf <- MCPublishedWire
  Addressed = {"m1"}
  Notifiers = 2
  MaxFaults = 1
  MaxMails = 2
INVARIANT PublishedIsReadable
CHECK_DEADLOCK FALSE
