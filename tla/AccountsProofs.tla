--------------------------- MODULE AccountsProofs ---------------------------
(***************************************************************************)
(* Proofs about Accounts: the table of accounts, the requests that wait    *)
(* for scrypt and the counts of the lockout each have lemmas of their own; *)
(* every action is then a change of two or three of them.                  *)
(***************************************************************************)
EXTENDS Accounts, FiniteSetTheorems, TLAPS

(***************************************************************************)
(* The table.                                                              *)
(***************************************************************************)
TableInv == /\ account \in [Id -> Account \union {NoAccount}]
            /\ gone \subseteq Id
            /\ IsFiniteSet(Existing)
            /\ UsernamesUnique /\ DeletedForGood

\* The INSERT stores at most one account, under a username and an id of its own.
LEMMA InsertKeeps ==
  ASSUME TableInv, NEW id \in Id, NEW u \in User, NEW pw \in Password,
         Insert(id, u, pw), UNCHANGED gone
  PROVE  TableInv' /\ Existing \subseteq Existing'
  <1>1. CASE UNCHANGED account
    BY <1>1 DEF TableInv, Existing, Exists, UsernamesUnique, DeletedForGood
  <1>2. CASE Named(u) = {} /\ id \in FreshId
             /\ account' = [account EXCEPT ![id] = [user |-> u, password |-> pw]]
    <2> DEFINE new == [user |-> u, password |-> pw]
    <2>1. new \in Account /\ new # NoAccount /\ new.user = u
      BY NilAssumption DEF Account
    <2> HIDE DEF new
    <2>2. /\ account' \in [Id -> Account \union {NoAccount}]
          /\ account'[id] = new
          /\ \A i \in Id \ {id} : account'[i] = account[i]
      BY <1>2, <2>1 DEF TableInv, new
    <2>3. Existing' = Existing \union {id}
      BY <2>1, <2>2 DEF Existing, Exists
    <2>4. IsFiniteSet(Existing')
      BY <2>3, FS_AddElement DEF TableInv
    <2>5. \A i \in Existing : account[i].user # u
      BY <1>2 DEF Named
    <2>6. UsernamesUnique'
      BY <2>1, <2>2, <2>3, <2>5 DEF TableInv, UsernamesUnique, Existing
    <2>7. DeletedForGood'
      BY <1>2, <2>2 DEF TableInv, DeletedForGood, Exists, FreshId
    <2> QED  BY <2>2, <2>3, <2>4, <2>6, <2>7 DEF TableInv
  <1> QED  BY <1>1, <1>2 DEF Insert

\* Passwords change, accounts do not.
LEMMA PasswordsKeep ==
  ASSUME TableInv, UNCHANGED gone,
         account' \in [Id -> Account \union {NoAccount}],
         \A id \in Id : /\ account'[id] = NoAccount <=> account[id] = NoAccount
                        /\ account[id] # NoAccount => account'[id].user = account[id].user
  PROVE  TableInv' /\ Existing' = Existing
  <1>1. Existing' = Existing
    BY DEF Existing, Exists
  <1> QED  BY <1>1 DEF TableInv, Existing, Exists, UsernamesUnique, DeletedForGood

LEMMA DeleteKeeps ==
  ASSUME TableInv, NEW ids \in SUBSET Id, Delete(ids)
  PROVE  TableInv' /\ Existing' = Existing \ ids
  <1>1. /\ account' \in [Id -> Account \union {NoAccount}]
        /\ \A id \in Id : account'[id] = IF id \in ids THEN NoAccount ELSE account[id]
        /\ gone' = gone \union (ids \intersect Existing)
    BY DEF Delete, TableInv
  <1>2. Existing' = Existing \ ids
    BY <1>1 DEF Existing, Exists
  <1>3. IsFiniteSet(Existing')
    BY <1>2, FS_Subset DEF TableInv
  <1>4. UsernamesUnique'
    BY <1>1, <1>2 DEF TableInv, UsernamesUnique, Existing
  <1>5. DeletedForGood' /\ gone' \subseteq Id
    BY <1>1 DEF TableInv, DeletedForGood, Exists, Existing
  <1> QED  BY <1>1, <1>2, <1>3, <1>4, <1>5 DEF TableInv

\* Accounts are counted.
LEMMA CountIsNat == TableInv => Count \in Nat
  BY FS_CardinalityType DEF TableInv, Count

\* Among two accounts there are two usernames.
LEMMA OneOfAName ==
  ASSUME TableInv, NEW u, Existing \subseteq Named(u)
  PROVE  Count <= 1
  <1>1. CASE Existing = {}
    BY <1>1, FS_EmptySet DEF Count
  <1>2. CASE Existing # {}
    <2>1. PICK id : id \in Existing
      BY <1>2
    <2>2. Existing = {id}
      BY <2>1 DEF TableInv, UsernamesUnique, Named
    <2> QED  BY <2>2, FS_Singleton DEF Count
  <1> QED  BY <1>1, <1>2

(***************************************************************************)
(* The requests.                                                           *)
(***************************************************************************)
SlotInv == slot \in [Req -> Request \union {Idle}]

\* What a request that waits for scrypt carries.
LEMMA RequestTyped ==
  ASSUME SlotInv, NEW s \in Req, slot[s].op # "idle"
  PROVE  /\ slot[s] \in Request /\ slot[s].id \in Id \union {NoId}
         /\ slot[s].op = "login" => slot[s].key \in Key
         /\ slot[s].op # "login" => slot[s].user \in User /\ slot[s].password \in Password
  BY DEF SlotInv, Request, Idle

LEMMA EndKeeps ==
  ASSUME SlotInv, NEW s \in Req, End(s)
  PROVE  SlotInv' /\ \A k \in Key : Pending(k)' = Pending(k) \ {s}
  <1>1. /\ slot' \in [Req -> Request \union {Idle}]
        /\ slot'[s] = Idle /\ \A r \in Req \ {s} : slot'[r] = slot[r]
    BY DEF SlotInv, End
  <1>2. Idle.op # "login"
    BY DEF Idle
  <1> QED  BY <1>1, <1>2 DEF SlotInv, Pending

\* A request that begins, or goes on, as r.
LEMMA BeginKeeps ==
  ASSUME SlotInv, NEW s \in Req, NEW r \in Request,
         slot' = [slot EXCEPT ![s] = r]
  PROVE  /\ SlotInv'
         /\ \A k \in Key : /\ Pending(k)' \subseteq Pending(k) \union {s}
                           /\ ~(r.op = "login" /\ r.id = NoId /\ r.key = k)
                                => Pending(k)' \subseteq Pending(k)
  <1>1. /\ slot' \in [Req -> Request \union {Idle}]
        /\ slot'[s] = r /\ \A q \in Req \ {s} : slot'[q] = slot[q]
    BY DEF SlotInv
  <1> QED  BY <1>1 DEF SlotInv, Pending

(***************************************************************************)
(* The lockout.                                                            *)
(***************************************************************************)
GuardInv == ThrottleTypeOK /\ guesses \in [Key -> Nat] /\ GuessInv

LEMMA PendingFinite ==
  ASSUME NEW k
  PROVE  /\ IsFiniteSet(Pending(k))
         /\ Cardinality(Pending(k)) \in Nat /\ Cardinality(Req) \in Nat
         /\ Cardinality(Pending(k)) <= Cardinality(Req)
  <1>1. Pending(k) \subseteq Req
    BY DEF Pending
  <1> QED  BY <1>1, ReqAssumption, FS_Subset, FS_CardinalityType

\* Fewer pending logins never break the bound.
LEMMA FewerPending ==
  ASSUME GuardInv, UNCHANGED <<throttleVars, guesses>>,
         \A k \in locked : Pending(k)' \subseteq Pending(k)
  PROVE  GuardInv'
  <1>1. ASSUME NEW k \in locked
        PROVE  /\ Cardinality(Pending(k)') \in Nat
               /\ Cardinality(Pending(k)') <= Cardinality(Pending(k))
    BY <1>1, PendingFinite, FS_Subset, FS_CardinalityType
  <1>2. GuessInv'
    <2> SUFFICES ASSUME NEW k \in Key
                 PROVE  (IF k \in locked
                         THEN guesses[k] + Cardinality(Pending(k))
                                <= MaxAttempts + Cardinality(Req) - 1
                         ELSE guesses[k] <= fails[k])'
      BY DEF GuessInv
    <2>1. CASE k \in locked
      BY <1>1, <2>1, PendingFinite, AttemptsAssumption
         DEF GuardInv, GuessInv, throttleVars
    <2>2. CASE k \notin locked
      BY <2>2 DEF GuardInv, GuessInv, throttleVars
    <2> QED  BY <2>1, <2>2
  <1> QED  BY <1>2 DEF GuardInv, ThrottleTypeOK, throttleVars

\* A failure of key k, by the login of slot s: it was pending, and is no more.
LEMMA FailureKeeps ==
  ASSUME GuardInv, NEW k \in Key, NEW s \in Pending(k),
         RecordFailure(k), guesses' = [guesses EXCEPT ![k] = @ + 1],
         \A j \in Key : Pending(j)' = Pending(j) \ {s}
  PROVE  GuardInv'
  <1> DEFINE P == Cardinality(Pending(k))
             Q == Cardinality(Pending(k)')
             R == Cardinality(Req)
  <1>1. /\ fails \in [Key -> 0 .. MaxAttempts - 1] /\ locked \subseteq Key
        /\ guesses \in [Key -> Nat] /\ MaxAttempts \in Nat \ {0}
    BY AttemptsAssumption DEF GuardInv, ThrottleTypeOK
  <1>2. P \in Nat /\ R \in Nat /\ P <= R /\ Q = P - 1
    BY PendingFinite, FS_RemoveElement
  <1> HIDE DEF P, Q, R
  <1>3. ThrottleTypeOK' /\ guesses' \in [Key -> Nat]
    BY <1>1 DEF ThrottleTypeOK, RecordFailure
  <1>4. /\ guesses'[k] = guesses[k] + 1
        /\ \A j \in Key \ {k} : guesses'[j] = guesses[j] /\ fails'[j] = fails[j]
        /\ \A j \in Key \ {k} : j \in locked' <=> j \in locked
    BY <1>1 DEF RecordFailure
  <1>5. IF k \in locked' THEN guesses'[k] + Q <= MaxAttempts + R - 1
                         ELSE guesses'[k] <= fails'[k]
    <2>1. CASE k \in locked
      <3>1. k \in locked' /\ guesses[k] + P <= MaxAttempts + R - 1
        BY <2>1 DEF GuardInv, GuessInv, RecordFailure, P, R
      <3> QED  BY <1>1, <1>2, <1>4, <3>1
    <2>2. CASE k \notin locked /\ fails[k] + 1 >= MaxAttempts
      <3>1. k \in locked' /\ guesses[k] <= fails[k] /\ fails[k] \in 0 .. MaxAttempts - 1
        BY <1>1, <2>2 DEF GuardInv, GuessInv, RecordFailure
      <3> QED  BY <1>1, <1>2, <1>4, <3>1
    <2>3. CASE k \notin locked /\ ~(fails[k] + 1 >= MaxAttempts)
      <3>1. /\ k \notin locked' /\ guesses[k] <= fails[k] /\ fails[k] \in 0 .. MaxAttempts - 1
            /\ fails'[k] = fails[k] + 1
        BY <1>1, <2>3 DEF GuardInv, GuessInv, RecordFailure
      <3> QED  BY <1>1, <1>4, <3>1
    <2> QED  BY <2>1, <2>2, <2>3
  <1>6. ASSUME NEW j \in Key \ {k}, j \in locked
        PROVE  /\ Cardinality(Pending(j)') \in Nat
               /\ Cardinality(Pending(j)') <= Cardinality(Pending(j))
    <2>1. Pending(j)' \subseteq Pending(j)
      OBVIOUS
    <2> QED  BY <2>1, PendingFinite, FS_Subset, FS_CardinalityType
  <1>7. ASSUME NEW j \in Key \ {k}
        PROVE  IF j \in locked'
               THEN guesses'[j] + Cardinality(Pending(j)') <= MaxAttempts + R - 1
               ELSE guesses'[j] <= fails'[j]
    <2>1. CASE j \in locked
      BY <1>1, <1>2, <1>4, <1>6, <2>1, PendingFinite DEF GuardInv, GuessInv, R
    <2>2. CASE j \notin locked
      BY <1>1, <1>4, <2>2 DEF GuardInv, GuessInv
    <2> QED  BY <2>1, <2>2
  <1>8. GuessInv'
    BY <1>5, <1>7 DEF GuessInv, Q, R
  <1> QED  BY <1>3, <1>8 DEF GuardInv

\* The key is open again, and counted from nothing.
LEMMA OpeningKeeps ==
  ASSUME GuardInv, NEW k \in Key,
         locked' = locked \ {k}, fails' \in {fails, [fails EXCEPT ![k] = 0]},
         guesses' = [guesses EXCEPT ![k] = 0],
         \A j \in Key : Pending(j)' \subseteq Pending(j)
  PROVE  GuardInv'
  <1>1. /\ fails \in [Key -> 0 .. MaxAttempts - 1] /\ locked \subseteq Key
        /\ guesses \in [Key -> Nat] /\ MaxAttempts \in Nat \ {0}
    BY AttemptsAssumption DEF GuardInv, ThrottleTypeOK
  <1>2. ThrottleTypeOK' /\ guesses' \in [Key -> Nat]
    BY <1>1 DEF ThrottleTypeOK
  <1>3. guesses'[k] = 0 /\ k \notin locked' /\ fails'[k] \in Nat
    BY <1>1
  <1>4. \A j \in Key \ {k} : /\ guesses'[j] = guesses[j] /\ fails'[j] = fails[j]
                             /\ j \in locked' <=> j \in locked
    BY <1>1
  <1>5. ASSUME NEW j \in Key
        PROVE  /\ Cardinality(Pending(j)') \in Nat
               /\ Cardinality(Pending(j)') <= Cardinality(Pending(j))
    BY <1>5, PendingFinite, FS_Subset, FS_CardinalityType
  <1>6. ASSUME NEW j \in Key \ {k}
        PROVE  IF j \in locked'
               THEN guesses'[j] + Cardinality(Pending(j)')
                      <= MaxAttempts + Cardinality(Req) - 1
               ELSE guesses'[j] <= fails'[j]
    <2>1. CASE j \in locked
      BY <1>1, <1>4, <1>5, <2>1, PendingFinite DEF GuardInv, GuessInv
    <2>2. CASE j \notin locked
      BY <1>4, <2>2 DEF GuardInv, GuessInv
    <2> QED  BY <2>1, <2>2
  <1>7. GuessInv'
    BY <1>3, <1>6 DEF GuessInv
  <1> QED  BY <1>2, <1>7 DEF GuardInv

(***************************************************************************)
(* The actions.                                                            *)
(***************************************************************************)
ToolInv == /\ deleting \in Deletion \union {Idle} /\ cli \in Command \union {Idle}
           /\ CountInv

LEMMA Parts == AccountsInv <=> TableInv /\ SlotInv /\ GuardInv /\ ToolInv /\ token \subseteq Id
  BY DEF AccountsInv, TypeOK, TableInv, SlotInv, GuardInv, ToolInv

\* The parts an action leaves alone.
LEMMA TableStays == TableInv /\ UNCHANGED <<account, gone>> => TableInv'
  BY DEF TableInv, Existing, Exists, UsernamesUnique, DeletedForGood
LEMMA SlotStays ==
  ASSUME SlotInv, UNCHANGED slot
  PROVE  SlotInv' /\ \A k \in Key : Pending(k)' = Pending(k)
  BY DEF SlotInv, Pending
LEMMA ToolStays == ToolInv /\ UNCHANGED <<deleting, cli>> => ToolInv'
  BY DEF ToolInv, CountInv
LEMMA GuardStays ==
  ASSUME SlotInv, GuardInv, UNCHANGED <<slot, throttleVars, guesses>>
  PROVE  GuardInv'
  <1>1. \A k \in locked : Pending(k)' \subseteq Pending(k)
    BY DEF Pending
  <1> QED  BY <1>1, FewerPending
LEMMA PartsNext ==
  TableInv' /\ SlotInv' /\ GuardInv' /\ ToolInv' /\ (token \subseteq Id)' => AccountsInv'
  BY DEF AccountsInv, TypeOK, TableInv, SlotInv, GuardInv, ToolInv

LEMMA InitInv == Init => AccountsInv
  <1> SUFFICES ASSUME Init PROVE AccountsInv
    OBVIOUS
  <1>1. Existing = {}
    BY DEF Init, Existing, Exists
  <1>2. TableInv
    BY <1>1, FS_EmptySet DEF Init, TableInv, UsernamesUnique, DeletedForGood
  <1>3. SlotInv
    BY DEF Init, SlotInv, Idle
  <1>4. GuardInv
    BY AttemptsAssumption
       DEF Init, GuardInv, GuessInv, ThrottleInit, ThrottleTypeOK
  <1>5. ToolInv /\ token \subseteq Id
    BY DEF Init, ToolInv, CountInv, Idle
  <1> QED  BY <1>2, <1>3, <1>4, <1>5, Parts

\* A request that begins.
LEMMA BeginInv ==
  ASSUME AccountsInv, NEW s \in Req, NEW r \in Request, Begin(s, r), UNCHANGED deleting,
         r.op = "login" => r.key \notin locked
  PROVE  AccountsInv'
  <1>1. TableInv /\ SlotInv /\ GuardInv /\ ToolInv /\ token \subseteq Id
    BY Parts
  <1>2. /\ slot' = [slot EXCEPT ![s] = r]
        /\ UNCHANGED <<account, token, cli, gone, guesses, throttleVars>>
    BY DEF Begin
  <1>3. /\ SlotInv'
        /\ \A k \in locked : Pending(k)' \subseteq Pending(k)
    BY <1>1, <1>2, BeginKeeps DEF GuardInv, ThrottleTypeOK
  <1>4. GuardInv'
    BY <1>1, <1>2, <1>3, FewerPending
  <1> QED  BY <1>1, <1>2, <1>3, <1>4, TableStays, ToolStays, PartsNext

\* What login reads.
LEMMA LoginRequestTyped ==
  ASSUME NEW u \in User, NEW pw \in Password
  PROVE  /\ LoginRequest(u, pw) \in Request
         /\ LoginRequest(u, pw).op = "login" /\ LoginRequest(u, pw).key = KeyOf[u]
  <1> DEFINE right == {id \in Named(u) : account[id].password = pw}
             found == IF right = {} THEN NoId ELSE CHOOSE id \in right : TRUE
  <1>1. right \subseteq Id
    BY DEF Named, Existing
  <1>2. found \in Id \union {NoId} /\ KeyOf[u] \in Key
    BY <1>1, KeyAssumption
  <1>3. LoginRequest(u, pw) = [op |-> "login", key |-> KeyOf[u], id |-> found]
    BY DEF LoginRequest
  <1> HIDE DEF found
  <1> QED  BY <1>2, <1>3 DEF Request

LEMMA ServeInv ==
  ASSUME AccountsInv, NEW s \in Req, Uninterrupted, Serve(s)
  PROVE  AccountsInv'
  <1>1. ASSUME NEW u \in User, NEW pw \in Password, Login(s, u, pw) PROVE AccountsInv'
    BY <1>1, LoginRequestTyped, BeginInv DEF Login, Uninterrupted
  <1>2. ASSUME NEW u \in User, NEW pw \in Password, Setup(s, u, pw) PROVE AccountsInv'
    <2> DEFINE r == [op |-> "setup", id |-> NoId, user |-> u, password |-> pw]
    <2>1. r \in Request /\ r.op # "login"
      BY DEF Request
    <2>2. Begin(s, r)
      BY <1>2 DEF Setup
    <2> HIDE DEF r
    <2> QED  BY <2>1, <2>2, BeginInv DEF Uninterrupted
  <1>3. ASSUME NEW by \in Id, NEW u \in User, NEW pw \in Password, Create(s, by, u, pw)
        PROVE  AccountsInv'
    <2> DEFINE r == [op |-> "create", id |-> NoId, user |-> u, password |-> pw]
    <2>1. r \in Request /\ r.op # "login"
      BY DEF Request
    <2>2. Begin(s, r)
      BY <1>3 DEF Create
    <2> HIDE DEF r
    <2> QED  BY <2>1, <2>2, BeginInv DEF Uninterrupted
  <1>4. ASSUME NEW by \in Id, NEW current \in Password, NEW pw \in Password,
               ChangePassword(s, by, current, pw)
        PROVE  AccountsInv'
    <2> DEFINE r == [op |-> "password", user |-> account[by].user, password |-> pw,
                     id |-> IF account[by].password = current THEN by ELSE NoId]
    <2>1. account[by].user \in User
      BY <1>4 DEF ChangePassword, Authorised, Exists, AccountsInv, TypeOK, Account
    <2>2. r \in Request /\ r.op # "login"
      BY <2>1 DEF Request
    <2>3. Begin(s, r)
      BY <1>4 DEF ChangePassword
    <2> HIDE DEF r
    <2> QED  BY <2>2, <2>3, BeginInv DEF Uninterrupted
  <1> QED  BY <1>1, <1>2, <1>3, <1>4 DEF Serve

\* A request that ends, with the lockout left alone.
LEMMA EndInv ==
  ASSUME AccountsInv, NEW s \in Req, End(s), TableInv',
         UNCHANGED <<token, deleting, cli, guesses, throttleVars>>
  PROVE  AccountsInv'
  <1>1. TableInv /\ SlotInv /\ GuardInv /\ ToolInv /\ token \subseteq Id
    BY Parts
  <1>2. SlotInv' /\ \A k \in locked : Pending(k)' \subseteq Pending(k)
    BY <1>1, EndKeeps DEF GuardInv, ThrottleTypeOK
  <1>3. GuardInv'
    BY <1>1, <1>2, FewerPending
  <1> QED  BY <1>1, <1>2, <1>3, ToolStays, PartsNext

LEMMA FinishInv ==
  ASSUME AccountsInv, NEW s \in Req, Uninterrupted, Finish(s)
  PROVE  AccountsInv'
  <1>0. TableInv /\ SlotInv /\ GuardInv /\ ToolInv /\ token \subseteq Id
        /\ UNCHANGED deleting
    BY Parts DEF Uninterrupted
  <1>1. ASSUME LoginSucceeds(s) PROVE AccountsInv'
    <2>1. slot[s].key \in Key /\ slot[s].id \in Id
      BY <1>0, <1>1, RequestTyped DEF LoginSucceeds
    <2>2. SlotInv' /\ \A k \in Key : Pending(k)' \subseteq Pending(k)
      BY <1>0, <1>1, EndKeeps DEF LoginSucceeds
    <2>3. GuardInv'
      BY <1>0, <1>1, <2>1, <2>2, OpeningKeeps DEF LoginSucceeds, Reset
    <2>4. TableInv' /\ ToolInv' /\ token' \subseteq Id
      BY <1>0, <1>1, <2>1, TableStays, ToolStays DEF LoginSucceeds
    <2> QED  BY <2>2, <2>3, <2>4, PartsNext
  <1>2. ASSUME LoginFails(s) PROVE AccountsInv'
    <2> DEFINE k == slot[s].key
    <2>1. k \in Key /\ s \in Pending(k)
      BY <1>0, <1>2, RequestTyped DEF LoginFails, Pending
    <2>2. SlotInv' /\ \A j \in Key : Pending(j)' = Pending(j) \ {s}
      BY <1>0, <1>2, EndKeeps DEF LoginFails
    <2>3. RecordFailure(k) /\ guesses' = [guesses EXCEPT ![k] = @ + 1]
      BY <1>2 DEF LoginFails
    <2> HIDE DEF k
    <2>4. GuardInv'
      BY <1>0, <2>1, <2>2, <2>3, FailureKeeps
    <2>5. TableInv' /\ ToolInv' /\ token' \subseteq Id
      BY <1>0, <1>2, TableStays, ToolStays DEF LoginFails
    <2> QED  BY <2>2, <2>4, <2>5, PartsNext
  <1>3. ASSUME FinishCreate(s) PROVE AccountsInv'
    <2>1. TableInv'
      BY <1>0, <1>3, RequestTyped, InsertKeeps DEF FinishCreate
    <2> QED  BY <1>0, <1>3, <2>1, EndInv DEF FinishCreate
  <1>4. ASSUME FinishSetup(s) PROVE AccountsInv'
    <2>1. slot[s] \in Request /\ slot[s].user \in User /\ slot[s].password \in Password
      BY <1>0, <1>4, RequestTyped DEF FinishSetup
    <2>2. PICK id \in Id :
            /\ Insert(id, slot[s].user, slot[s].password)
            /\ IF Named(slot[s].user) # {} \/ KeyOf[slot[s].user] \in locked THEN End(s)
               ELSE slot' = [slot EXCEPT ![s] = [op |-> "login", id |-> id,
                                                 key |-> KeyOf[slot[s].user]]]
      BY <1>4 DEF FinishSetup
    <2>3. UNCHANGED <<token, cli, gone, guesses, throttleVars>>
      BY <1>4 DEF FinishSetup
    <2>4. TableInv'
      BY <1>0, <2>1, <2>2, <2>3, InsertKeeps
    <2>5. CASE End(s)
      BY <1>0, <2>3, <2>4, <2>5, EndInv
    <2>6. CASE /\ KeyOf[slot[s].user] \notin locked
               /\ slot' = [slot EXCEPT ![s] = [op |-> "login", id |-> id,
                                                key |-> KeyOf[slot[s].user]]]
      <3> DEFINE r == [op |-> "login", id |-> id, key |-> KeyOf[slot[s].user]]
      <3>1. /\ r \in Request /\ r.key \notin locked
            /\ slot' = [slot EXCEPT ![s] = r]
        BY <2>1, <2>6, KeyAssumption DEF Request
      <3> HIDE DEF r
      <3>2. SlotInv' /\ \A k \in locked : Pending(k)' \subseteq Pending(k)
        BY <1>0, <3>1, BeginKeeps DEF GuardInv, ThrottleTypeOK
      <3>3. GuardInv'
        BY <1>0, <2>3, <3>2, FewerPending
      <3> QED  BY <1>0, <2>3, <2>4, <3>2, <3>3, ToolStays, PartsNext
    <2> QED  BY <2>2, <2>5, <2>6
  <1>5. ASSUME FinishPassword(s) PROVE AccountsInv'
    <2>1. slot[s].password \in Password
      BY <1>0, <1>5, RequestTyped DEF FinishPassword
    <2>2. UNCHANGED gone /\ (account' = account
            \/ UpdatePassword(slot[s].id, slot[s].user, slot[s].password))
      BY <1>5 DEF FinishPassword
    <2>3. TableInv'
      <3>1. CASE account' = account
        BY <1>0, <2>2, <3>1, TableStays
      <3>2. CASE UpdatePassword(slot[s].id, slot[s].user, slot[s].password)
        <4>1. /\ account' \in [Id -> Account \union {NoAccount}]
              /\ \A id \in Id :
                   /\ account'[id] = NoAccount <=> account[id] = NoAccount
                   /\ account[id] # NoAccount => account'[id].user = account[id].user
          BY <1>0, <2>1, <3>2, NilAssumption
             DEF UpdatePassword, TableInv, Exists, Account
        <4> QED  BY <1>0, <2>2, <4>1, PasswordsKeep
      <3> QED  BY <2>2, <3>1, <3>2
    <2> QED  BY <1>0, <1>5, <2>3, EndInv DEF FinishPassword
  <1> QED  BY <1>1, <1>2, <1>3, <1>4, <1>5 DEF Finish

\* A deletion is checked, counted, done.
LEMMA DeleteInv ==
  ASSUME AccountsInv,
         (\E by, id \in Id : DeleteAdmin(by, id)) \/ CountAdmins \/ DeleteCounted
  PROVE  AccountsInv'
  <1>1. TableInv /\ SlotInv /\ GuardInv /\ ToolInv /\ token \subseteq Id
    BY Parts
  <1>2. UNCHANGED <<token, slot, cli, guesses, throttleVars>>
    BY DEF DeleteAdmin, CountAdmins, DeleteCounted
  <1>3. TableInv' /\ ToolInv'
    <2>1. ASSUME NEW by \in Id, NEW id \in Id, DeleteAdmin(by, id)
          PROVE  TableInv' /\ ToolInv'
      <3>1. [op |-> "delete", id |-> id, count |-> 0] \in Deletion
        BY DEF Deletion
      <3>2. ToolInv'
        BY <1>1, <2>1, <3>1 DEF DeleteAdmin, ToolInv, CountInv
      <3> QED  BY <1>1, <2>1, <3>2, TableStays DEF DeleteAdmin
    <2>2. CASE CountAdmins
      <3>1. deleting \in Deletion /\ Count \in Nat
        BY <1>1, <2>2, CountIsNat DEF CountAdmins, ToolInv, Idle
      <3>2. [deleting EXCEPT !.count = Count] \in Deletion
        BY <3>1 DEF Deletion
      <3>3. CASE Count > 1 /\ deleting' = [deleting EXCEPT !.count = Count]
        <4>1. deleting'.count # 1
          BY <3>1, <3>3 DEF Deletion
        <4> QED  BY <1>1, <1>2, <2>2, <3>2, <3>3, <4>1, TableStays
                 DEF CountAdmins, ToolInv, CountInv
      <3>4. CASE deleting' = Idle
        BY <1>1, <2>2, <3>4, TableStays DEF CountAdmins, ToolInv, CountInv, Idle
      <3> QED  BY <2>2, <3>3, <3>4 DEF CountAdmins
    <2>3. CASE DeleteCounted
      <3>1. deleting.id \in Id
        BY <1>1, <2>3 DEF DeleteCounted, ToolInv, Deletion, Idle
      <3>2. TableInv'
        BY <1>1, <2>3, <3>1, DeleteKeeps DEF DeleteCounted
      <3> QED  BY <1>1, <2>3, <3>2 DEF DeleteCounted, ToolInv, CountInv, Idle
    <2> QED  BY <2>1, <2>2, <2>3
  <1> QED
    BY <1>1, <1>2, <1>3, SlotStays, GuardStays, PartsNext

LEMMA CliBeginInv ==
  ASSUME AccountsInv, NEW op \in Commands, NEW u \in User, NEW pw \in Password,
         CliBegin(op, u, pw)
  PROVE  AccountsInv'
  <1>1. TableInv /\ SlotInv /\ GuardInv /\ ToolInv /\ token \subseteq Id
    BY Parts
  <1>2. op \in {"create", "reset", "delete"}
    BY CommandsAssumption
  <1>3. cli' \in Command /\ (cli'.op = "delete" => cli'.count > 1)
    <2>1. CASE op = "delete"
      BY <1>1, <2>1, CountIsNat DEF CliBegin, Command
    <2>2. CASE op # "delete"
      BY <1>2, <2>2 DEF CliBegin, Command
    <2> QED  BY <2>1, <2>2
  <1>4. ToolInv'
    BY <1>1, <1>3 DEF CliBegin, ToolInv, CountInv
  <1> QED
    BY <1>1, <1>4, TableStays, SlotStays, GuardStays, PartsNext DEF CliBegin

LEMMA CliEndInv ==
  ASSUME AccountsInv, CliEnd
  PROVE  AccountsInv'
  <1>1. TableInv /\ SlotInv /\ GuardInv /\ ToolInv /\ token \subseteq Id
    BY Parts
  <1>2. /\ cli.op \in {"create", "reset", "delete"} /\ cli.user \in User
        /\ cli.op # "delete" => cli.password \in Password
    BY <1>1 DEF CliEnd, ToolInv, Command
  <1>3. TableInv'
    <2>1. CASE cli.op = "create"
      <3>1. UNCHANGED gone /\ \E id \in Id : Insert(id, cli.user, cli.password)
        BY <2>1 DEF CliEnd
      <3>2. cli.password \in Password
        BY <1>2, <2>1
      <3> QED  BY <1>1, <1>2, <3>1, <3>2, InsertKeeps
    <2>2. CASE cli.op = "reset"
      <3>1. /\ UNCHANGED gone
            /\ account' = [id \in Id |-> IF id \in Named(cli.user)
                             THEN [account[id] EXCEPT !.password = cli.password]
                             ELSE account[id]]
        BY <2>2 DEF CliEnd
      <3>2. \A id \in Named(cli.user) :
              /\ account[id] # NoAccount /\ account[id] \in Account
              /\ [account[id] EXCEPT !.password = cli.password] \in Account
              /\ [account[id] EXCEPT !.password = cli.password].user = account[id].user
        BY <1>1, <1>2, <2>2 DEF TableInv, Named, Existing, Exists, Account
      <3>3. /\ account' \in [Id -> Account \union {NoAccount}]
            /\ \A id \in Id :
                 /\ account'[id] = NoAccount <=> account[id] = NoAccount
                 /\ account[id] # NoAccount => account'[id].user = account[id].user
        BY <1>1, <3>1, <3>2, NilAssumption DEF TableInv
      <3> QED  BY <1>1, <3>1, <3>3, PasswordsKeep
    <2>3. CASE cli.op = "delete"
      <3>1. Delete(Named(cli.user)) /\ Named(cli.user) \subseteq Id
        BY <2>3 DEF CliEnd, Named, Existing
      <3> QED  BY <1>1, <3>1, DeleteKeeps
    <2> QED  BY <1>2, <2>1, <2>2, <2>3
  <1>4. ToolInv'
    BY <1>1 DEF CliEnd, ToolInv, CountInv, Idle
  <1> QED
    BY <1>1, <1>3, <1>4, SlotStays, GuardStays, PartsNext DEF CliEnd

LEMMA TokenExpiresInv ==
  ASSUME AccountsInv, NEW id \in Id, TokenExpires(id)
  PROVE  AccountsInv'
  <1>1. TableInv /\ SlotInv /\ GuardInv /\ ToolInv /\ token \subseteq Id
    BY Parts
  <1>2. token' \subseteq Id
    BY <1>1 DEF TokenExpires
  <1> QED
    BY <1>1, <1>2, TableStays, SlotStays, GuardStays, ToolStays, PartsNext DEF TokenExpires

LEMMA LockExpiresInv ==
  ASSUME AccountsInv, NEW k \in Key, LockExpires(k)
  PROVE  AccountsInv'
  <1>1. TableInv /\ SlotInv /\ GuardInv /\ ToolInv /\ token \subseteq Id
    BY Parts
  <1>2. SlotInv' /\ \A j \in Key : Pending(j)' = Pending(j)
    BY <1>1, SlotStays DEF LockExpires
  <1>3. GuardInv'
    BY <1>1, <1>2, OpeningKeeps DEF LockExpires, LockRunsOut
  <1> QED
    BY <1>1, <1>2, <1>3, TableStays, ToolStays, PartsNext DEF LockExpires

LEMMA RestartInv ==
  ASSUME AccountsInv, Restart
  PROVE  AccountsInv'
  <1>1. TableInv /\ SlotInv /\ GuardInv /\ ToolInv /\ token \subseteq Id
    BY Parts
  <1>2. SlotInv'
    BY DEF Restart, SlotInv, Idle
  <1>3. GuardInv'
    BY AttemptsAssumption DEF Restart, GuardInv, GuessInv, ThrottleTypeOK
  <1>4. ToolInv'
    BY <1>1 DEF Restart, ToolInv, CountInv, Idle
  <1> QED
    BY <1>1, <1>2, <1>3, <1>4, TableStays, PartsNext DEF Restart

LEMMA NextInv == AccountsInv /\ [Next]_vars => AccountsInv'
  <1> SUFFICES ASSUME AccountsInv, [Next]_vars PROVE AccountsInv'
    OBVIOUS
  <1>1. CASE UNCHANGED vars
    BY <1>1, Parts, TableStays, SlotStays, GuardStays, ToolStays, PartsNext DEF vars
  <1>2. ASSUME NEW s \in Req, Uninterrupted, Serve(s) PROVE AccountsInv'
    BY <1>2, ServeInv
  <1>3. ASSUME NEW s \in Req, Uninterrupted, Finish(s) PROVE AccountsInv'
    BY <1>3, FinishInv
  <1>4. CASE (\E by, id \in Id : DeleteAdmin(by, id)) \/ CountAdmins \/ DeleteCounted
    BY <1>4, DeleteInv
  <1>5. ASSUME NEW op \in Commands, NEW u \in User, NEW pw \in Password,
               CliBegin(op, u, pw)
        PROVE  AccountsInv'
    BY <1>5, CliBeginInv
  <1>6. CASE CliEnd
    BY <1>6, CliEndInv
  <1>7. ASSUME NEW id \in Id, TokenExpires(id) PROVE AccountsInv'
    BY <1>7, TokenExpiresInv
  <1>8. ASSUME NEW k \in Key, LockExpires(k) PROVE AccountsInv'
    BY <1>8, LockExpiresInv
  <1>9. CASE Restart
    BY <1>9, RestartInv
  <1> QED
    BY <1>1, <1>2, <1>3, <1>4, <1>5, <1>6, <1>7, <1>8, <1>9 DEF Next

(***************************************************************************)
(* The theorems.                                                           *)
(***************************************************************************)
\* The table, the requests and the lockout agree in every reachable state.
THEOREM AccountsInvariant == Spec => []AccountsInv
  BY InitInv, NextInv, PTL DEF Spec

\* A username names one account, however creations overlap.
THEOREM OneAccountPerUsername == Spec => []UsernamesUnique
  <1>1. AccountsInv => UsernamesUnique
    BY DEF AccountsInv
  <1> QED  BY <1>1, AccountsInvariant, PTL

\* No answer of scrypt brings a deleted account back.
THEOREM DeletedStaysDeleted == Spec => []DeletedForGood
  <1>1. AccountsInv => DeletedForGood
    BY DEF AccountsInv
  <1> QED  BY <1>1, AccountsInvariant, PTL

\* Overlapping logins exceed the limit by their own number at most.
THEOREM GuessesBounded == Spec => []LockoutBound
  <1>1. AccountsInv => LockoutBound
    <2> SUFFICES ASSUME AccountsInv, NEW k \in Key
                 PROVE  guesses[k] <= MaxAttempts + Cardinality(Req) - 1
      BY DEF LockoutBound
    <2>1. /\ guesses[k] \in Nat /\ fails[k] \in 0 .. MaxAttempts - 1
          /\ MaxAttempts \in Nat
      BY AttemptsAssumption DEF AccountsInv, TypeOK, ThrottleTypeOK
    <2>2. CASE k \in locked
      BY <2>1, <2>2, PendingFinite DEF AccountsInv, GuessInv
    <2>3. CASE k \notin locked
      BY <2>1, <2>3, PendingFinite DEF AccountsInv, GuessInv
    <2> QED  BY <2>2, <2>3
  <1> QED  BY <1>1, AccountsInvariant, PTL

\* The accounts that survive each step.  A deletion removes the accounts of
\* one username, which is all there are only if there is one account by then;
\* what it has counted was more.
THEOREM LastAdminGoesOnStaleCount == Spec => LastGoesOnStaleCountOnly
  <1> DEFINE ByApi == deleting.op = "delete" /\ deleting' = Idle /\ Count < deleting.count
             ByCli == cli.op = "delete" /\ cli' = Idle /\ Count < cli.count
             Kept == HasAny /\ ~HasAny' => ByApi \/ ByCli
  <1>1. AccountsInv /\ [Next]_vars => [Kept]_vars
    <2> SUFFICES ASSUME AccountsInv, Next PROVE Kept
      OBVIOUS
    <2>0. TableInv /\ SlotInv /\ ToolInv
      BY Parts
    <2>1. UNCHANGED account => Kept
      BY DEF HasAny, Existing, Exists
    <2>2. Existing \subseteq Existing' => Kept
      BY DEF HasAny
    <2> HIDE DEF Kept
    <2>3. ASSUME NEW s \in Req, Serve(s) PROVE Kept
      BY <2>1, <2>3 DEF Serve, Login, Setup, Create, ChangePassword, Begin
    <2>4. ASSUME NEW s \in Req, Finish(s) PROVE Kept
      <3>1. CASE LoginSucceeds(s) \/ LoginFails(s)
        BY <2>1, <3>1 DEF LoginSucceeds, LoginFails
      <3>2. CASE FinishCreate(s) \/ FinishSetup(s)
        <4>1. slot[s].op \notin {"idle", "login"} /\ UNCHANGED gone
              /\ \E id \in Id : Insert(id, slot[s].user, slot[s].password)
          BY <3>2 DEF FinishCreate, FinishSetup
        <4> QED  BY <2>0, <2>2, <4>1, RequestTyped, InsertKeeps
      <3>3. CASE FinishPassword(s)
        <4>1. \A id \in Existing : account'[id] # NoAccount
          <5>1. CASE UNCHANGED account
            BY <5>1 DEF Existing, Exists
          <5>2. CASE UpdatePassword(slot[s].id, slot[s].user, slot[s].password)
            <6>1. slot[s].password \in Password
              BY <2>0, <3>3, RequestTyped DEF FinishPassword
            <6> QED  BY <2>0, <5>2, <6>1, NilAssumption
                     DEF UpdatePassword, TableInv, Existing, Exists, Account
          <5> QED  BY <3>3, <5>1, <5>2 DEF FinishPassword
        <4> QED  BY <2>2, <4>1 DEF Existing, Exists
      <3> QED  BY <2>4, <3>1, <3>2, <3>3 DEF Finish
    <2>5. CASE DeleteCounted
      <3>1. /\ deleting.op = "delete" /\ deleting.id \in Id /\ deleting' = Idle
            /\ deleting.count \in Nat /\ deleting.count > 1 /\ Count \in Nat
        BY <2>0, <2>5, CountIsNat DEF DeleteCounted, ToolInv, CountInv, Deletion, Idle
      <3>2. Existing' = Existing \ {deleting.id}
        BY <2>0, <2>5, <3>1, DeleteKeeps DEF DeleteCounted
      <3>3. CASE Existing = {deleting.id}
        <4>1. Count = 1
          BY <3>3, FS_Singleton DEF Count
        <4> QED  BY <3>1, <4>1 DEF Kept
      <3>4. CASE Existing # {deleting.id}
        BY <3>2, <3>4 DEF Kept, HasAny
      <3> QED  BY <3>3, <3>4
    <2>6. CASE CliEnd
      <3>1. cli.op \in {"create", "reset", "delete"} /\ cli \in Command
        BY <2>0, <2>6 DEF CliEnd, ToolInv, Command
      <3>2. CASE cli.op = "create"
        <4>1. UNCHANGED gone /\ \E id \in Id : Insert(id, cli.user, cli.password)
          BY <2>6, <3>2 DEF CliEnd
        <4>2. cli.user \in User /\ cli.password \in Password
          BY <3>1, <3>2 DEF Command
        <4> QED  BY <2>0, <2>2, <4>1, <4>2, InsertKeeps
      <3>3. CASE cli.op = "reset"
        <4>1. account' = [id \in Id |-> IF id \in Named(cli.user)
                             THEN [account[id] EXCEPT !.password = cli.password]
                             ELSE account[id]]
          BY <2>6, <3>3 DEF CliEnd
        <4>2. \A id \in Existing :
                [account[id] EXCEPT !.password = cli.password] # NoAccount
          BY <2>0, <3>1, <3>3, NilAssumption DEF TableInv, Existing, Exists, Account, Command
        <4>3. \A id \in Existing : account'[id] # NoAccount
          BY <4>1, <4>2 DEF Existing, Exists
        <4> QED  BY <2>2, <4>3 DEF Existing, Exists
      <3>4. CASE cli.op = "delete"
        <4>1. Existing' = Existing \ Named(cli.user) /\ cli' = Idle
          <5>1. Delete(Named(cli.user)) /\ Named(cli.user) \subseteq Id /\ cli' = Idle
            BY <2>6, <3>4 DEF CliEnd, Named, Existing
          <5> QED  BY <2>0, <5>1, DeleteKeeps
        <4>2. cli.count > 1 /\ cli.count \in Nat /\ Count \in Nat
          BY <2>0, <3>1, <3>4, CountIsNat DEF ToolInv, CountInv, Command
        <4>3. CASE Existing \subseteq Named(cli.user)
          BY <2>0, <3>4, <4>1, <4>2, <4>3, OneOfAName DEF Kept
        <4>4. CASE ~(Existing \subseteq Named(cli.user))
          BY <4>1, <4>4 DEF Kept, HasAny
        <4> QED  BY <4>3, <4>4
      <3> QED  BY <3>1, <3>2, <3>3, <3>4
    <2>7. CASE \/ \E by, id \in Id : DeleteAdmin(by, id)
               \/ CountAdmins
               \/ \E op \in Commands, u \in User, pw \in Password : CliBegin(op, u, pw)
               \/ \E id \in Id : TokenExpires(id)
               \/ \E k \in Key : LockExpires(k)
               \/ Restart
      BY <2>1, <2>7
         DEF DeleteAdmin, CountAdmins, CliBegin, TokenExpires, LockExpires, Restart
    <2> QED  BY <2>3, <2>4, <2>5, <2>6, <2>7 DEF Next
  <1> QED  BY <1>1, AccountsInvariant, PTL DEF Spec, LastGoesOnStaleCountOnly
=============================================================================
