--------------------------- MODULE MCRouteSizing ---------------------------
(***************************************************************************)
(* Two cycles of two hops in three pending states.  In the first, cycle 1  *)
(* gains most between two sizes of its grid, whose largest size fails, and *)
(* cycle 2 only loses; in the second both pools hold less, and two sizes   *)
(* of cycle 2 gain the same; in the third the second hops fail above one   *)
(* unit, and a first pool is empty.                                        *)
(***************************************************************************)
EXTENDS RouteSizing, TLC

\* A hop that returns out[a] for a, and fails for more.
Hop(out) == [a \in DOMAIN out |-> out[a]]

Market(balance1, hops1, balance2, hops2) ==
  [balance |-> 1 :> balance1 @@ 2 :> balance2, curve |-> 1 :> hops1 @@ 2 :> hops2]

Between == Market(6, <<Hop(<<1, 2, 3, 4, 5>>), Hop(<<1, 3, 5, 7, 6>>)>>,
                  2, <<Hop(<<2, 3>>), Hop(<<1, 1, 2>>)>>)
Shrunk == Market(2, <<Hop(<<2, 3, 4, 4>>), Hop(<<1, 2, 4, 5>>)>>,
                 2, <<Hop(<<2, 3>>), Hop(<<1, 2, 3>>)>>)
Drained == Market(1, <<Hop(<<1, 1, 1>>), Hop(<<2>>)>>,
                  0, <<Hop(<<1, 2>>), Hop(<<1>>)>>)

MCMarkets == {Between, Shrunk, Drained}
=============================================================================
