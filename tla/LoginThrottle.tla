--------------------------- MODULE LoginThrottle ---------------------------
(***************************************************************************)
(* LoginThrottleService: the failures of each username in memory, and its  *)
(* lock.  Usernames that differ in case or in outer blanks share a key.    *)
(* When a lock runs out is left open: any moment may be past lockedUntil.  *)
(***************************************************************************)
EXTENDS Naturals

CONSTANTS Key,             \* username.trim().toLowerCase()
          MaxAttempts      \* OCM_LOGIN_MAX_ATTEMPTS

ASSUME AttemptsAssumption == MaxAttempts \in Nat \ {0}

VARIABLES fails,           \* attempts[k].count, 0 if there is no entry
          locked           \* the keys whose lockedUntil is in the future

throttleVars == <<fails, locked>>

ThrottleTypeOK == /\ fails \in [Key -> 0 .. MaxAttempts - 1]
                  /\ locked \subseteq Key

ThrottleInit == /\ fails = [k \in Key |-> 0]
                /\ locked = {}

\* A slip: the lock comes one failure late.
RecordFailureLate(k) ==
  IF fails[k] + 1 > MaxAttempts
  THEN locked' = locked \union {k} /\ fails' = [fails EXCEPT ![k] = 0]
  ELSE fails' = [fails EXCEPT ![k] = @ + 1] /\ UNCHANGED locked

\* The count starts over with the lock.
RecordFailure(k) ==
  IF fails[k] + 1 >= MaxAttempts
  THEN locked' = locked \union {k} /\ fails' = [fails EXCEPT ![k] = 0]
  ELSE fails' = [fails EXCEPT ![k] = @ + 1] /\ UNCHANGED locked

\* A successful login forgets the failures, and a lock set meanwhile.
Reset(k) == /\ fails' = [fails EXCEPT ![k] = 0]
            /\ locked' = locked \ {k}

\* Date.now() reaches lockedUntil; the entry stays in the map.
LockRunsOut(k) == /\ k \in locked
                  /\ locked' = locked \ {k}
                  /\ UNCHANGED fails
=============================================================================
