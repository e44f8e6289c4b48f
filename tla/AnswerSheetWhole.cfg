SPECIFICATION Spec
CONSTANTS
  Bank <- MCBank
  TrueSpellings <- MCTrueSpellings
  Sheets <- MCSheets
  Selections <- MCSelections
  ForeignId = "foreign"
  EmptyId = ""
  MaxAnswers = 3
INVARIANT GradeWithinWhole
CHECK_DEADLOCK FALSE
