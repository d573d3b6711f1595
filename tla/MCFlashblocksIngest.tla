------------------------ MODULE MCFlashblocksIngest ------------------------
(***************************************************************************)
(* A small instance of FlashblocksIngest: more keys than the window holds, *)
(* two logs with the same key, and fewer permits than logs.                *)
(***************************************************************************)
EXTENDS FlashblocksIngest, TLC

CONSTANTS p1, p2, l1, l2, l3, l4, k1, k2, k3

MCLogs == {l1, l2, l3, l4}

\* l3 and l4 are two deliveries of one log with different payloads.
MCKey == l1 :> k1 @@ l2 :> k2 @@ l3 :> k3 @@ l4 :> k3

\* Later logs may belong to an earlier block.
MCBlock == l1 :> 2 @@ l2 :> 1 @@ l3 :> 2 @@ l4 :> 2

=============================================================================
