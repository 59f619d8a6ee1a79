---------------------------- MODULE MCOrderFills ----------------------------
(***************************************************************************)
(* Instances of OrderFills for TLC: 16-bit integers; orders of one unit    *)
(* (the simulator's part of one is nothing), of three, and of the largest  *)
(* size (a trade of 20000 announced twice overflows, and one of 12767      *)
(* completes it).                                                          *)
(***************************************************************************)
EXTENDS OrderFills

MCSizes  == {1, 3, MaxInt}
MCPieces == {20000, 12767}
=============================================================================
