---------------------------- MODULE MCShardGuard ----------------------------
(***************************************************************************)
(* Two workers, three shards, one call of each kind; the read and the scan *)
(* are about the order whose event is being flushed.                       *)
(***************************************************************************)
EXTENDS ShardGuard

CONSTANTS event, read, scan, restore

MCCallOf == [t \in {event, read, scan, restore} |->
               CASE t = event -> "process_event"  [] t = read -> "get_order"
                 [] t = scan -> "update_order_id" [] OTHER -> "restore_order"]
MCShardOf == [t \in {event, read, scan, restore} |-> IF t = restore THEN 1 ELSE 2]
=============================================================================
