--------------------------- MODULE MCCredentials ---------------------------
(* Small instances of Credentials: names, their candidate Common Names and   *)
(* request slots.                                                            *)
EXTENDS CredentialsInv, TLC

CONSTANTS alice, bob, a1, a2, a3, b1, r1, r2

\* One name with three certificates, or two names of one and two.
OneName == {alice}
OneNameCN == {a1, a2, a3}
OneNameCandidates == (alice :> {a1, a2, a3})
TwoNames == {alice, bob}
TwoNamesCN == {a1, a2, b1}
TwoNamesCandidates == (alice :> {a1, a2}) @@ (bob :> {b1})
TwoCN == {a1, a2}
TwoCNCandidates == (alice :> {a1, a2})

\* Requests are interchangeable, and so are the candidates of one name.
OneNameSymmetry == Permutations({a1, a2, a3}) \union Permutations({r1, r2})
TwoNamesSymmetry == Permutations({a1, a2}) \union Permutations({r1, r2})
=============================================================================
