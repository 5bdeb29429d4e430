----------------------------- MODULE MCAccounts -----------------------------
(***************************************************************************)
(* Accounts with interchangeable users, addresses and requests.            *)
(***************************************************************************)
EXTENDS Accounts, TLC

Interchangeable == Permutations(Users) \cup Permutations(Addresses) \cup Permutations(Procs)
=============================================================================
