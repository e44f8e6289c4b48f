SPECIFICATION FairSpec
CONSTANTS
  r1 = r1
  r2 = r2
  r3 = r3
  Requests = {r1, r2, r3}
  Users = {u1}
  Topics <- MCTopics
  TopicChoices <- MCOneTopic
  Submissions <- MCSubmissionsOrNone
  UnknownSession = UnknownSession
  NoUser = NoUser
  TopicDuration = 10
  QuestionsLimit = 10
  DayLength = 1440
  Instants <- MCShortInstants
  Bank <- MCBank
  TrueSpellings <- MCTrueSpellings
PROPERTIES ImplementsLifecycle RequestsAreAnswered NothingStartsOver
CHECK_DEADLOCK FALSE
