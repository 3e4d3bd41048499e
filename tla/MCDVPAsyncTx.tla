---------------------------- MODULE MCDVPAsyncTx ----------------------------
(* Instances of DVPAsyncTx for TLC.                                        *)
EXTENDS DVPAsyncTx, TLC

CONSTANTS d1, d2, seller, buyer

OneRequest == {d1}
TwoRequests == {d1, d2}
NoRequest == {}

\* The second request is larger: the deposit of the first cannot pay for it.
AmountOf == (d1 :> 1) @@ (d2 :> 2)
AmountOfOne == d1 :> 1

Everyone == {seller, buyer}
SellerOnly == {seller}
=============================================================================
