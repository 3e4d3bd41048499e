------------------------------ MODULE MCWSTTx ------------------------------
(* Instances of WSTTx for TLC.                                             *)
EXTENDS WSTTx, TLC

CONSTANTS deploy, delete, old, Alice, Bob

\* A deployment, a deletion from the whitelist and a row of a former master account.
TableOps == {deploy, delete, old}
TableKind == (deploy :> "deploy") @@ (delete :> "delete") @@ (old :> "add")
TableTarget == (deploy :> Alice) @@ (delete :> Bob) @@ (old :> Alice)

Everyone == {Alice, Bob}
OnlyBob == {Bob}
Former == {old}
=============================================================================
