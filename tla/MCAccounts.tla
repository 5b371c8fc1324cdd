----------------------------- MODULE MCAccounts ------------------------------
(***************************************************************************)
(* A small instance of Accounts: two people who may want the same e-mail,  *)
(* a pool of two connections, tokens that expire within the run.           *)
(***************************************************************************)
EXTENDS Accounts, TLC
=============================================================================
