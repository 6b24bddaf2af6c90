-------------------------- MODULE CredentialLedger --------------------------
(***************************************************************************)
(* What the console promises about credentials, whatever fails inside:     *)
(* access is granted before a credential is listed and is taken away       *)
(* before it is shown as revoked, only listed credentials lose access, a   *)
(* credential is replaced only in favour of one that is listed, and what   *)
(* has been blocked never comes back.                                      *)
(***************************************************************************)
CONSTANTS CN,              \* certificates
          Label            \* the people they are issued to

VARIABLES access,          \* "never", "granted" or "blocked", per certificate
          shown,           \* how the console lists it
          owner            \* whose certificate a listed one is

vars == <<access, shown, owner>>

Unlisted == "unlisted"

TypeOK == /\ access \in [CN -> {"never", "granted", "blocked"}]
          /\ shown \in [CN -> {"unlisted", "current", "replaced", "revoked"}]
          /\ owner \in [CN -> Label \union {Unlisted}]

Init == /\ access = [cn \in CN |-> "never"]
        /\ shown = [cn \in CN |-> "unlisted"]
        /\ owner = [cn \in CN |-> Unlisted]

\* A certificate is signed; nobody has been told about it yet.
Grant(cn) == /\ access[cn] = "never"
             /\ access' = [access EXCEPT ![cn] = "granted"]
             /\ UNCHANGED <<shown, owner>>

\* A certificate that works is listed as somebody's current credential.
List(cn) == /\ access[cn] = "granted"
            /\ shown[cn] = "unlisted"
            /\ shown' = [shown EXCEPT ![cn] = "current"]
            /\ \E l \in Label : owner' = [owner EXCEPT ![cn] = l]
            /\ UNCHANGED access

\* A renewal: somebody else's certificate never replaces this one.
Replace(cn) == /\ shown[cn] = "current"
               /\ \E new \in CN \ {cn} : /\ shown[new] = "current"
                                         /\ owner[new] = owner[cn]
               /\ shown' = [shown EXCEPT ![cn] = "replaced"]
               /\ UNCHANGED <<access, owner>>

\* A new CRL is published; it can block several certificates at once.
Block(C) == /\ \A cn \in C : access[cn] = "granted" /\ shown[cn] # "unlisted"
            /\ access' = [cn \in CN |-> IF cn \in C THEN "blocked" ELSE access[cn]]
            /\ UNCHANGED <<shown, owner>>

\* The console says so only once it is true.
ShowRevoked(cn) == /\ access[cn] = "blocked"
                   /\ shown[cn] \in {"current", "replaced"}
                   /\ shown' = [shown EXCEPT ![cn] = "revoked"]
                   /\ UNCHANGED <<access, owner>>

Next == \/ \E cn \in CN : Grant(cn) \/ List(cn) \/ Replace(cn) \/ ShowRevoked(cn)
        \/ \E C \in SUBSET CN : Block(C)

Spec == Init /\ [][Next]_vars
=============================================================================
