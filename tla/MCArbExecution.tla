--------------------------- MODULE MCArbExecution ---------------------------
EXTENDS ArbExecution, TLC
CONSTANTS c1, c2, c3, i1, i2, i3

MCOne == c1 :> i1
MCTwo == c1 :> i1 @@ c2 :> i2
MCSame == c1 :> i1 @@ c2 :> i1
MCThree == c1 :> i1 @@ c2 :> i2 @@ c3 :> i3
MCUnroutable == {<<i3, "B">>}
=============================================================================
