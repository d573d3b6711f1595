------------------------- MODULE MCPackedBatchPlan -------------------------
(***************************************************************************)
(* A small instance of PackedWire: three cycles, all from one token, more  *)
(* than a menu holds, or the third from another one; two loan sizes, and   *)
(* profits that pay for one candidate but not always for two.  A byte has  *)
(* five values, and the second cycle has a third leg.                      *)
(***************************************************************************)
EXTENDS PackedWire, TLC

CONSTANTS weth, usdc

MCAssets == {1 :> weth @@ 2 :> weth @@ 3 :> last : last \in {weth, usdc}}
MCProfits == {-1, 4, 7}

MCAddressOf == weth :> 1 @@ usdc :> 2

Leg(adapter, from, to, least, data) ==
  [adapter |-> adapter, token_in |-> from, token_out |-> to, min_out |-> least,
   data |-> data]

MCLegs ==
  [r \in {1, 2, 3} |-> [token \in {weth, usdc} |->
     LET a == MCAddressOf[token]
     IN IF r = 2 THEN <<Leg(4, a, 3, 12, <<0, 0>>), Leg(4, 3, 0, 1, <<1, 2>>),
                        Leg(2, 0, a, 24, <<0, 0>>)>>
        ELSE <<Leg(r, a, 3, 5, <<2, 6 * r>>), Leg(4, 3, a, 1, <<0, 0>>)>>]]
=============================================================================
