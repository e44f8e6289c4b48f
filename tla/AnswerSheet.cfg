SPECIFICATION Spec
CONSTANTS
  Bank <- MCBank
  TrueSpellings <- MCTrueSpellings
  Sheets <- MCSheets
  Selections <- MCSelections
  ForeignId = "foreign"
  EmptyId = ""
  MaxAnswers = 3
INVARIANTS TypeOK GradeIsShareOfQuestions
CHECK_DEADLOCK FALSE
