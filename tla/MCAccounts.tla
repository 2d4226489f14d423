----------------------------- MODULE MCAccounts -----------------------------
(* Model checking of Accounts: nothing to add but the configurations.      *)
EXTENDS Accounts
=============================================================================
