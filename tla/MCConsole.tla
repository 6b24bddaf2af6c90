----------------------------- MODULE MCConsole -----------------------------
(* A small instance of Console. *)
EXTENDS Console, TLC

ConsoleSymmetry == Permutations(Admin) \union Permutations(Token)
                   \union Permutations(PageCall)

\* A bound: once somebody has signed in beside a session being restored, which
\* every property of the session excepts, the run follows the session until a
\* page sends a request.
OverlapBound == overlap => \A w \in PageCall : call[w] = NoCall
=============================================================================
