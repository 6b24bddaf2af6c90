---------------------------- MODULE PromiseQueue ----------------------------
(***************************************************************************)
(* The promise chain of EasyRsaService.serialize:                          *)
(*                                                                         *)
(*   const run = this.queue.then(task, task);                              *)
(*   this.queue = run.then(() => undefined, () => undefined);              *)
(*                                                                         *)
(* Call t creates two promises: run (its stage) and the link run.then(..), *)
(* which becomes this.queue.  The callbacks given to then() run in a later *)
(* microtask, so a promise settling and its callbacks running are separate *)
(* steps, between which further calls can be made.                         *)
(***************************************************************************)
EXTENDS Naturals

CONSTANTS Task,            \* the calls of serialize()
          Resolved         \* the initial Promise.resolve()

ASSUME ResolvedAssumption == Resolved \notin Task

VARIABLES stage,           \* of the promise `run` of each call
          link,            \* of the promise run.then(...) of each call
          after,           \* the promise whose then() was given the task
          tail,            \* this.queue
          ticket,          \* history: 1 for the first call, 2 for the next...
          calls            \* history: the number of calls made

vars == <<stage, link, after, tail, ticket, calls>>

Stage == {"new", "waiting", "running", "fulfilled", "rejected"}
Settled == {"fulfilled", "rejected"}

TypeOK == /\ stage \in [Task -> Stage]
          /\ link \in [Task -> {"none", "pending", "resolved"}]
          /\ after \in [Task -> Task \union {Resolved}]
          /\ tail \in Task \union {Resolved}
          /\ ticket \in [Task -> Nat]
          /\ calls \in Nat

Init == /\ stage = [t \in Task |-> "new"]
        /\ link = [t \in Task |-> "none"]
        /\ after = [t \in Task |-> Resolved]
        /\ tail = Resolved
        /\ ticket = [t \in Task |-> 0]
        /\ calls = 0

\* A slip: this.queue is never advanced.
SerializeOnHead(t) ==
  /\ stage[t] = "new"
  /\ stage' = [stage EXCEPT ![t] = "waiting"]
  /\ link' = [link EXCEPT ![t] = "pending"]
  /\ after' = [after EXCEPT ![t] = tail]
  /\ calls' = calls + 1
  /\ ticket' = [ticket EXCEPT ![t] = calls + 1]
  /\ UNCHANGED tail

\* serialize(task): chain the task on this.queue and make its link the queue.
Serialize(t) ==
  /\ stage[t] = "new"
  /\ stage' = [stage EXCEPT ![t] = "waiting"]
  /\ link' = [link EXCEPT ![t] = "pending"]
  /\ after' = [after EXCEPT ![t] = tail]
  /\ tail' = t
  /\ calls' = calls + 1
  /\ ticket' = [ticket EXCEPT ![t] = calls + 1]

LinkResolved(p) == p = Resolved \/ (p \in Task /\ link[p] = "resolved")

\* The promise that the task was chained on has settled: the task is called.
StartTask(t) ==
  /\ stage[t] = "waiting"
  /\ LinkResolved(after[t])
  /\ stage' = [stage EXCEPT ![t] = "running"]
  /\ UNCHANGED <<link, after, tail, ticket, calls>>

\* The task's own promise settles; easy-rsa, openssl or a read may fail.
SettleTask(t) ==
  /\ stage[t] = "running"
  /\ \E r \in Settled : stage' = [stage EXCEPT ![t] = r]
  /\ UNCHANGED <<link, after, tail, ticket, calls>>

\* Slips: the link has no rejection handler; the task is not awaited.
PassedOnSuccess == {"fulfilled"}
PassedUnawaited == {"running", "fulfilled", "rejected"}

\* What a link does with each outcome of run: both handlers swallow it.
Swallowed == {"fulfilled", "rejected"}

ResolveLink(t) ==
  /\ link[t] = "pending"
  /\ stage[t] \in Swallowed
  /\ link' = [link EXCEPT ![t] = "resolved"]
  /\ UNCHANGED <<stage, after, tail, ticket, calls>>

Next == \E t \in Task :
          Serialize(t) \/ StartTask(t) \/ SettleTask(t) \/ ResolveLink(t)

Spec == Init /\ [][Next]_vars

\* Microtasks run, and every task ends: a command is killed at its timeout.
\* Nothing makes a caller submit a task.
LiveSpec == /\ Spec
            /\ \A t \in Task : /\ WF_vars(StartTask(t))
                               /\ WF_vars(SettleTask(t))
                               /\ WF_vars(ResolveLink(t))

(***************************************************************************)
(* Correctness.                                                            *)
(***************************************************************************)
\* easy-rsa mutates a shared PKI: no two tasks run at the same time.
OneAtATime == \A t, u \in Task :
                stage[t] = "running" /\ stage[u] = "running" => t = u

Submitted(t) == stage[t] # "new"

\* A call has a ticket and a link once it is submitted, and only then.
TicketInv == \A t \in Task : /\ Submitted(t) <=> ticket[t] # 0
                             /\ Submitted(t) <=> link[t] # "none"
                             /\ ticket[t] <= calls

\* Two calls never share a ticket.
DistinctInv == \A t, u \in Task :
                 ticket[t] # 0 /\ ticket[t] = ticket[u] => t = u

\* this.queue is the link of the last call.
TailInv == \/ tail = Resolved /\ calls = 0
           \/ tail \in Task /\ ticket[tail] = calls /\ calls # 0

\* Each call is chained on the call before it.
ChainInv == \A t \in Task : Submitted(t) =>
              \/ after[t] = Resolved /\ ticket[t] = 1
              \/ /\ after[t] \in Task
                 /\ ticket[after[t]] # 0
                 /\ ticket[t] = ticket[after[t]] + 1

\* A link resolves only after its call has settled.
LinkInv == \A t \in Task : link[t] = "resolved" => stage[t] \in Settled

\* Everything before a call that has started has settled.
OrderInv == \A t, u \in Task :
              /\ stage[t] \in {"running"} \union Settled
              /\ ticket[u] # 0
              /\ ticket[u] < ticket[t]
              => stage[u] \in Settled

\* How the chain is linked: the inductive invariant of PromiseQueueProofs.
\* Whatever the order of calls and callbacks, this.queue is the last call's
\* link and a call that has started has only settled calls before it.
ChainLinked == /\ TypeOK
        /\ TicketInv
        /\ DistinctInv
        /\ TailInv
        /\ ChainInv
        /\ LinkInv
        /\ OrderInv

\* Every submitted task settles, whatever became of the tasks before it:
\* "keep the chain alive regardless of individual task outcome".
ChainStaysAlive == \A t \in Task : stage[t] = "waiting" ~> stage[t] \in Settled

\* The chain implements the first-in first-out queue its callers rely on:
\* a call waits for exactly the earlier calls that have not settled.
Waiting(t) == IF stage[t] \in {"waiting", "running"}
              THEN {u \in Task : /\ stage[u] \in {"waiting", "running"}
                                 /\ ticket[u] < ticket[t]}
              ELSE {}
Abstract == INSTANCE SerialQueue WITH ahead <- [t \in Task |-> Waiting(t)]
IsSerialQueue == Abstract!Spec
=============================================================================
