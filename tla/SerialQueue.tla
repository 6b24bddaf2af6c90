---------------------------- MODULE SerialQueue ----------------------------
(***************************************************************************)
(* What EasyRsaService.serialize promises to its callers: PKI operations   *)
(* run one at a time, in the order in which they were submitted, and the   *)
(* failure of one does not keep the next from running.  PromiseQueue is    *)
(* the promise chain that implements it.                                   *)
(***************************************************************************)
CONSTANT Task              \* the calls of serialize()

VARIABLES stage,           \* where each call is
          ahead            \* the calls each one still has to wait for

vars == <<stage, ahead>>

Stage == {"new", "waiting", "running", "fulfilled", "rejected"}

Pending == {t \in Task : stage[t] \in {"waiting", "running"}}

TypeOK == /\ stage \in [Task -> Stage]
          /\ ahead \in [Task -> SUBSET Task]

Init == /\ stage = [t \in Task |-> "new"]
        /\ ahead = [t \in Task |-> {}]

\* A call is submitted: it goes behind every call that has not settled yet.
Submit(t) == /\ stage[t] = "new"
             /\ stage' = [stage EXCEPT ![t] = "waiting"]
             /\ ahead' = [ahead EXCEPT ![t] = Pending]

\* A call starts when everything submitted before it has settled.
Start(t) == /\ stage[t] = "waiting"
            /\ ahead[t] = {}
            /\ stage' = [stage EXCEPT ![t] = "running"]
            /\ UNCHANGED ahead

\* The running call settles, well or badly; nobody waits for it any more.
Settle(t) == /\ stage[t] = "running"
             /\ \E r \in {"fulfilled", "rejected"} : stage' = [stage EXCEPT ![t] = r]
             /\ ahead' = [u \in Task |-> ahead[u] \ {t}]

Next == \E t \in Task : Submit(t) \/ Start(t) \/ Settle(t)

Spec == Init /\ [][Next]_vars
=============================================================================
