--------------------------- MODULE MCBulkTransfer ---------------------------
(* Instances of BulkTransfer for TLC.                                      *)
EXTENDS BulkTransfer, TLC

CONSTANTS w1, w2, r1, r2, r3, r4, A, B

TwoWorkers == {w1, w2}
OnlyB == {B}
Both == {A, B}

\* Two uploads of issuer A, the first one of two rows and so of two lots.  The third
\* upload is of issuer B.
ThreeUploads == 1..3
ThreeIssuers == (1 :> A) @@ (2 :> A) @@ (3 :> B)
FourRows == {r1, r2, r3, r4}
FourOf == (r1 :> 1) @@ (r2 :> 1) @@ (r3 :> 2) @@ (r4 :> 3)
=============================================================================
