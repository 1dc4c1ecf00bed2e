SPECIFICATION Spec
CONSTANTS
  Pages = {"/", "/deploy"}
  Home = "/"
  Names = {"h1"}
  Windows = {w1, w2}
  Main = w1
  None = none
  MaxMoves = 4
  MaxToasts = 5
  MaxTurns = 4
  Budgets <- SmallBudgets

    
    
PROPERTIES
    
    WindowsSettle
CHECK_DEADLOCK FALSE
