SPECIFICATION Spec
CONSTANTS
  r1 = r1
  r2 = r2
  r3 = r3
  Requests = {r1, r2, r3}
  Users = {u1}
  Topics <- MCTopics
  TopicChoices <- MCTopicChoices
  Submissions <- MCSubmissions
  UnknownSession = UnknownSession
  NoUser = NoUser
  TopicDuration = 10
  QuestionsLimit = 10
  DayLength = 1440
  Instants <- MCInstants
  Bank <- MCBank
  TrueSpellings <- MCTrueSpellings
SYMMETRY RequestSymmetry
INVARIANTS
  TypeOK
  CompletedSessionWasStarted
  SecondCompletionOnlyInFlight
  AcknowledgedIsStored
  NoStartAfterCompletion
  ExpiryIsSound
  UnreadableRowsAreExpired
  IInv
  TimeInv
CHECK_DEADLOCK FALSE
