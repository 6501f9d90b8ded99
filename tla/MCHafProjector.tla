--------------------------- MODULE MCHafProjector ---------------------------
(* Model-checking instances of HafProjector.  On ForkTree the head leaves    *)
(* the a blocks for the b blocks and comes back to the a blocks; e1 is lost  *)
(* with a2, comes back in b3 by the same transaction and is repeated by      *)
(* another in a4; the transaction of e2 is in b2 and in a3.  The return   *)
(* instance is the same tree without events.                               *)
EXTENDS HafProjector, TLC

CONSTANTS a1, a2, a3, a4, b2, b3, e1, e2

ForkTree ==
    (a1 :> <<a1>>) @@ (a2 :> <<a1, a2>>) @@ (a3 :> <<a1, a2, a3>>) @@
    (a4 :> <<a1, a2, a3, a4>>) @@ (b2 :> <<a1, b2>>) @@ (b3 :> <<a1, b2, b3>>)
ForkEvents ==
    (a1 :> NoEvent) @@ (a2 :> e1) @@ (a3 :> e2) @@ (a4 :> e1) @@
    (b2 :> e2) @@ (b3 :> e1)
ForkTransactions == [b \in Block |-> IF b = a4 THEN 3 ELSE IF ForkEvents[b] = e1 THEN 1 ELSE 2]
ForkTimes == [b \in Block |-> Len(ForkTree[b])]

NoEvents == [b \in Block |-> NoEvent]
NoTransactions == [b \in Block |-> 0]
=============================================================================
