---------------------------- MODULE MCRefill ----------------------------
(* Both jobs may go by LI.FI; one by the BTC intermediate with three legs,  *)
(* the other by the Gateway and the swap of what it delivers.               *)
EXTENDS Refill, TLC

CONSTANTS usdc, weth

MCCandidates == (usdc :> <<"intermediate", "lifi">>) @@ (weth :> <<"gateway", "lifi">>)

MCLegs == [intermediate |-> <<"swap", "gateway", "swap">>,
           gateway |-> <<"gateway", "swap">>,
           lifi |-> <<"bridge">>]
=========================================================================
