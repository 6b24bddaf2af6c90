------------------------- MODULE PromiseQueueProofs -------------------------
(***************************************************************************)
(* The promise chain of EasyRsaService.serialize is a mutex, and it        *)
(* implements the first-in first-out queue of SerialQueue, for any set of  *)
(* calls.  The inductive invariant says how the chain is linked: a call is *)
(* chained on the call with the previous ticket, so that a call that has   *)
(* started has only settled calls before it.                               *)
(***************************************************************************)
EXTENDS PromiseQueue, TLAPS

LEMMA InitChain == Init => ChainLinked
  BY DEF Init, ChainLinked, TypeOK, TicketInv, DistinctInv, TailInv, ChainInv,
         LinkInv, OrderInv, Submitted, Settled, Stage

LEMMA SerializeChain ==
  ASSUME ChainLinked, NEW t \in Task, Serialize(t)
  PROVE  ChainLinked'
<1> USE DEF ChainLinked, Serialize
<1>1. TypeOK'
  BY DEF TypeOK, Stage
<1>2. TicketInv'
  BY DEF TypeOK, TicketInv, Submitted, Stage
<1>3. DistinctInv'
  BY DEF TypeOK, TicketInv, DistinctInv, Submitted, Stage
<1>4. TailInv'
  BY DEF TypeOK, TailInv
<1>5. ChainInv'
  BY ResolvedAssumption
  DEF TypeOK, TicketInv, TailInv, ChainInv, Submitted, Stage
<1>6. LinkInv'
  BY DEF TypeOK, TicketInv, LinkInv, Submitted, Stage, Settled
<1>7. OrderInv'
  BY DEF TypeOK, TicketInv, OrderInv, Submitted, Stage, Settled
<1> QED
  BY <1>1, <1>2, <1>3, <1>4, <1>5, <1>6, <1>7

\* The task a call is chained on, and every task before it, has settled by
\* the time the call starts: its turn has come.
LEMMA StartInTurn ==
  ASSUME ChainLinked, NEW t \in Task, StartTask(t),
         NEW u \in Task, ticket[u] # 0, ticket[u] < ticket[t]
  PROVE  stage[u] \in Settled
<1> USE DEF ChainLinked
<1>1. ticket[t] \in Nat /\ ticket[u] \in Nat /\ Submitted(t)
  BY DEF TypeOK, StartTask, Submitted
<1>2. ticket[t] # 1
  BY <1>1
<1>3. /\ after[t] \in Task
      /\ ticket[after[t]] \in Nat
      /\ ticket[t] = ticket[after[t]] + 1
  BY <1>1, <1>2 DEF ChainInv, TypeOK
<1>4. stage[after[t]] \in Settled
  BY <1>3, ResolvedAssumption DEF StartTask, LinkResolved, LinkInv
<1>5. CASE ticket[u] = ticket[after[t]]
  BY <1>3, <1>4, <1>5 DEF DistinctInv
<1>6. CASE ticket[u] < ticket[after[t]]
  BY <1>3, <1>4, <1>6 DEF OrderInv
<1> QED
  BY <1>1, <1>3, <1>5, <1>6

LEMMA StartTaskChain ==
  ASSUME ChainLinked, NEW t \in Task, StartTask(t)
  PROVE  ChainLinked'
<1> USE DEF ChainLinked
<1>1. TypeOK'
  BY DEF TypeOK, Stage, StartTask
<1>2. TicketInv' /\ DistinctInv' /\ TailInv' /\ ChainInv'
  BY DEF TypeOK, TicketInv, DistinctInv, TailInv, ChainInv, Submitted,
         StartTask
<1>3. LinkInv'
  BY DEF TypeOK, LinkInv, Settled, StartTask
<1>4. OrderInv'
  <2> SUFFICES ASSUME NEW v \in Task, NEW u \in Task,
                      stage'[v] \in {"running"} \union Settled,
                      ticket[u] # 0, ticket[u] < ticket[v]
               PROVE  stage'[u] \in Settled
    BY DEF OrderInv, StartTask
  <2>1. stage[u] \in Settled
    <3>1. CASE v = t
      BY <3>1, StartInTurn
    <3>2. CASE v # t
      BY <3>2 DEF StartTask, TypeOK, OrderInv
    <3> QED
      BY <3>1, <3>2
  <2>2. u # t
    BY <2>1 DEF StartTask, Settled
  <2> QED
    BY <2>1, <2>2 DEF StartTask, TypeOK
<1> QED
  BY <1>1, <1>2, <1>3, <1>4

LEMMA SettleTaskChain ==
  ASSUME ChainLinked, NEW t \in Task, SettleTask(t)
  PROVE  ChainLinked'
<1> USE DEF ChainLinked
<1>1. TypeOK'
  BY DEF TypeOK, Stage, Settled, SettleTask
<1>2. TicketInv' /\ DistinctInv' /\ TailInv' /\ ChainInv'
  BY DEF TypeOK, TicketInv, DistinctInv, TailInv, ChainInv, Submitted,
         Settled, SettleTask
<1>3. LinkInv' /\ OrderInv'
  BY DEF TypeOK, LinkInv, OrderInv, Settled, SettleTask
<1> QED
  BY <1>1, <1>2, <1>3

LEMMA ResolveLinkChain ==
  ASSUME ChainLinked, NEW t \in Task, ResolveLink(t)
  PROVE  ChainLinked'
<1> USE DEF ChainLinked, ResolveLink
<1>1. TypeOK' /\ TicketInv' /\ DistinctInv' /\ TailInv' /\ ChainInv'
  BY DEF TypeOK, TicketInv, DistinctInv, TailInv, ChainInv, Submitted
<1>2. LinkInv' /\ OrderInv'
  BY DEF TypeOK, LinkInv, OrderInv, Settled, Swallowed
<1> QED
  BY <1>1, <1>2

LEMMA StutterChain ==
  ASSUME ChainLinked, UNCHANGED vars
  PROVE  ChainLinked'
  BY DEF ChainLinked, TypeOK, TicketInv, DistinctInv, TailInv, ChainInv, LinkInv,
         OrderInv, Submitted, vars

\* The chain is linked as described in every reachable state.
THEOREM ChainIsLinked == Spec => []ChainLinked
<1>1. ChainLinked /\ [Next]_vars => ChainLinked'
  BY SerializeChain, StartTaskChain, SettleTaskChain, ResolveLinkChain,
     StutterChain DEF Next
<1> QED
  BY InitChain, <1>1, PTL DEF Spec

LEMMA OrderGivesMutex == ChainLinked => OneAtATime
<1> SUFFICES ASSUME ChainLinked, NEW t \in Task, NEW u \in Task,
                    stage[t] = "running", stage[u] = "running", t # u
             PROVE  FALSE
  BY DEF OneAtATime
<1>1. /\ ticket[t] \in Nat \ {0}
      /\ ticket[u] \in Nat \ {0}
      /\ ticket[t] # ticket[u]
  BY DEF ChainLinked, TypeOK, TicketInv, DistinctInv, Submitted
<1>2. ticket[t] < ticket[u] \/ ticket[u] < ticket[t]
  BY <1>1
<1> QED
  BY <1>1, <1>2 DEF ChainLinked, OrderInv, Settled

\* EasyRsaService.serialize: at most one PKI operation runs at any time,
\* however many requests call it and whether or not the earlier ones fail.
THEOREM PkiMutex == Spec => []OneAtATime
  BY ChainIsLinked, OrderGivesMutex, PTL

LEMMA AbstractInit == Init => Abstract!Init
  BY DEF Init, Abstract!Init, Waiting

\* Each step of the chain is a step of the first-in first-out queue; a link
\* that resolves is a step nobody outside sees.
LEMMA AbstractStep == ChainLinked /\ [Next]_vars => [Abstract!Next]_(Abstract!vars)
<1> SUFFICES ASSUME ChainLinked, [Next]_vars
             PROVE  [Abstract!Next]_(Abstract!vars)
  OBVIOUS
<1>1. CASE UNCHANGED vars
  BY <1>1 DEF vars, Abstract!vars, Waiting
<1>2. ASSUME NEW t \in Task, Serialize(t)
      PROVE  Abstract!Submit(t)
  <2>1. /\ stage[t] = "new"
        /\ stage' = [stage EXCEPT ![t] = "waiting"]
        /\ ticket' = [ticket EXCEPT ![t] = calls + 1]
        /\ stage \in [Task -> Stage] /\ ticket \in [Task -> Nat] /\ calls \in Nat
    BY <1>2 DEF Serialize, ChainLinked, TypeOK
  <2>2. \A u \in Task : ticket[u] <= calls
    BY DEF ChainLinked, TicketInv
  <2>3. Waiting(t)' = Abstract!Pending
    BY <2>1, <2>2 DEF Waiting, Abstract!Pending
  <2>4. ASSUME NEW u \in Task, u # t
        PROVE  Waiting(u)' = Waiting(u)
    BY <2>1, <2>2, <2>4 DEF Waiting
  <2>5. [v \in Task |-> Waiting(v)]' =
          [[v \in Task |-> Waiting(v)] EXCEPT ![t] = Abstract!Pending]
    BY <2>3, <2>4
  <2> QED
    BY <2>1, <2>5 DEF Abstract!Submit
<1>3. ASSUME NEW t \in Task, StartTask(t)
      PROVE  Abstract!Start(t)
  <2>1. /\ stage[t] = "waiting"
        /\ stage' = [stage EXCEPT ![t] = "running"]
        /\ ticket' = ticket
        /\ stage \in [Task -> Stage]
    BY <1>3 DEF StartTask, ChainLinked, TypeOK
  <2>2. Waiting(t) = {}
    <3> SUFFICES ASSUME NEW u \in Task, stage[u] \in {"waiting", "running"},
                        ticket[u] < ticket[t]
                 PROVE  FALSE
      BY DEF Waiting
    <3>1. ticket[u] # 0
      BY DEF ChainLinked, TicketInv, Submitted
    <3> QED
      BY <1>3, <3>1, StartInTurn DEF Settled
  <2>3. \A u \in Task : Waiting(u)' = Waiting(u)
    BY <2>1 DEF Waiting
  <2> QED
    BY <2>1, <2>2, <2>3 DEF Abstract!Start
<1>4. ASSUME NEW t \in Task, SettleTask(t)
      PROVE  Abstract!Settle(t)
  <2>1. PICK r \in Settled : stage' = [stage EXCEPT ![t] = r]
    BY <1>4 DEF SettleTask
  <2>2. /\ stage[t] = "running"
        /\ ticket' = ticket
        /\ stage \in [Task -> Stage]
    BY <1>4 DEF SettleTask, ChainLinked, TypeOK
  <2>3. Waiting(t) = {}
    <3> SUFFICES ASSUME NEW u \in Task, stage[u] \in {"waiting", "running"},
                        ticket[u] < ticket[t]
                 PROVE  FALSE
      BY DEF Waiting
    <3>1. ticket[u] # 0
      BY DEF ChainLinked, TicketInv, Submitted
    <3> QED
      BY <2>2, <3>1 DEF ChainLinked, OrderInv, Settled
  <2>4. \A u \in Task : Waiting(u)' = Waiting(u) \ {t}
    BY <2>1, <2>2, <2>3 DEF Waiting, Settled
  <2> QED
    BY <2>1, <2>2, <2>4 DEF Abstract!Settle, Settled
<1>5. ASSUME NEW t \in Task, ResolveLink(t)
      PROVE  UNCHANGED Abstract!vars
  BY <1>5 DEF ResolveLink, Abstract!vars, Waiting
<1> QED
  BY <1>1, <1>2, <1>3, <1>4, <1>5 DEF Next, Abstract!Next

\* EasyRsaService.serialize implements the queue its callers are written
\* against: submissions are served one at a time, in order, and a rejected
\* task releases the queue like a fulfilled one.
THEOREM ChainImplementsQueue == Spec => IsSerialQueue
  BY ChainIsLinked, AbstractInit, AbstractStep, PTL
  DEF Spec, IsSerialQueue, Abstract!Spec
=============================================================================
