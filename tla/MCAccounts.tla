----------------------------- MODULE MCAccounts -----------------------------
(* Finite instances of Accounts for TLC. *)
EXTENDS Accounts, TLC

AccountsSymmetry ==
    Permutations(Workers) \cup Permutations(Conns)
        \cup Permutations(Names) \cup Permutations(Passwords)
=============================================================================
