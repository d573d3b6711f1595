------------------------- MODULE MCBaseArbExecutor -------------------------
(***************************************************************************)
(* Small instances of BaseArbExecutor for TLC.  Every order is named by    *)
(* what is particular about it; a configuration file picks some of them.   *)
(***************************************************************************)
EXTENDS BaseArbExecutor, TLC

CONSTANTS a1, a2, A, B, d1

\* The identifiers of the first candidates tell the orders apart.
MCHash == [o \in Orders |-> o.menu[1].id]

\* A leg through adapter d1 that asks for at least "min".
Via(in, out, min) == [adapter |-> d1, tokenIn |-> in, tokenOut |-> out, minOut |-> min]

Option(n, profit, legs) == [id |-> n, minProfit |-> profit, legs |-> legs]

MCOrder(kind, target, menu) ==
  [kind |-> kind, asset |-> A, amount |-> 1, targetBlock |-> target,
   deadline |-> 2, menu |-> menu]

ThereAndBack == <<Via(A, B, 1), Via(B, A, 0)>>

\* A two-leg route through B; its target block passes before its deadline.
Simple == MCOrder("route", 1, <<Option(1, 1, ThereAndBack)>>)

\* A route that starts from and comes back to another token than the loan's.
Broken == MCOrder("route", 0, <<Option(2, 0, <<Via(B, A, 0), Via(A, B, 0)>>)>>)

\* A route that comes back to the asset half way.
Revisiting == MCOrder("route", 0, <<Option(3, 1, ThereAndBack \o ThereAndBack)>>)

\* A menu of two candidates, the first one asking for more; stale at block 1.
Menu == MCOrder("packed", 0, <<Option(4, 1, ThereAndBack), Option(5, 0, ThereAndBack)>>)

AllOrders == {Simple, Broken, Menu}
RevisitingOrders == {Revisiting}

=============================================================================
