SPECIFICATION Spec
CONSTANTS
  Pressed <- MCKeys
  Capacity = 5
  MaxMoves = 3
  Columns = 3
  Rows = 2
  Targets = {"<a href>"}
  NoUrl = NoUrl
  Words <- MCWords
  LinkNumbers = 2
  Queries <- MCQueries
  QueryLength = 3
  Urls = {NoUrl, u, v}
  MaxHistory = 4
  MaxTokens = 5
CHECK_DEADLOCK FALSE
INVARIANTS TypeOK SquaresNeverPanic DotsStay FindsTheText
PROPERTIES OnlySquaresMove HistoryRefinement
