SPECIFICATION Spec
CONSTANTS
  MaxInt = 32767
  Orders = {o1, o2}
  ClientIds = {c1}
  Sizes <- MCSizes
  Pieces <- MCPieces
  Scale = 2
  FillScales = {2, 3}
  MaxTrades = 2
  MaxTwice = 1
  MaxLoad = 3
  NoOrder = NoOrder
INVARIANTS
  TypeOK
  FilledReplays
  FilledIsTraded
  FillsAgreeWithFixedPoint
  
  ExecutedIsShown
PROPERTIES
  EndedStaysEnded
CHECK_DEADLOCK FALSE
