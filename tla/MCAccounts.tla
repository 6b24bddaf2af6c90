----------------------------- MODULE MCAccounts -----------------------------
(* A small instance of Accounts: two usernames that differ only in case. *)
EXTENDS Accounts, TLC

CONSTANTS ana, Ana, key, i1, i2, i3, s1, s2

OneKey == (ana :> key) @@ (Ana :> key)
AccountSymmetry == Permutations({i1, i2, i3}) \union Permutations({s1, s2})
=============================================================================
