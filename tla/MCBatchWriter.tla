--------------------------- MODULE MCBatchWriter ----------------------------
EXTENDS BatchWriter
CONSTANTS e1, e2, o1, o2

MCOneEvent == e1 :> o1
MCOneOrder == e1 :> o1 @@ e2 :> o1
MCTwoOrders == e1 :> o1 @@ e2 :> o2
=============================================================================
