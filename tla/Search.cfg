CONSTANTS
  Names = {"OR"}
  Filters = {"none", "type", "folder"}
  MaxTokens = 7
SPECIFICATION Spec
INVARIANTS MeaningIsKept OpenIsClosed WordsAreKept AcceptedIsExpression
CHECK_DEADLOCK FALSE
