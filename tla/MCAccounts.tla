------------------------------ MODULE MCAccounts ------------------------------
(* Instances of Accounts for TLC. *)
EXTENDS Accounts, TLC

AccountSymmetry == Permutations(Tokens) \cup Permutations(Sessions)
                      \cup Permutations(Txns) \cup Permutations(Passwords)

=============================================================================
