------------------------------ MODULE Accounts ------------------------------
(***************************************************************************)
(* Administrator accounts: AdminsService and AuthService in the API, and   *)
(* the account commands of ocm-admin, a second process on the same         *)
(* admin_users table.                                                      *)
(*                                                                         *)
(* A handler of the API is interrupted by other requests where it awaits   *)
(* scrypt, and nowhere else.  ocm-admin may come between any two of its    *)
(* statements: nothing is in a transaction, on either side.  That counts   *)
(* where a handler checks the table and then writes to it, so what the     *)
(* handler of a deletion counts and what it deletes are separate steps.    *)
(* Passwords are compared by value: a hash is good for one password.       *)
(***************************************************************************)
EXTENDS LoginThrottle, FiniteSets

CONSTANTS Id,              \* randomUUID(): every account gets a new one
          User, Password,
          KeyOf,           \* KeyOf[u]: the throttle key of username u
          Req,             \* slots for concurrent requests
          Commands,        \* the commands of ocm-admin in use
          NoAccount, NoId

Account == [user : User, password : Password]

ASSUME KeyAssumption == KeyOf \in [User -> Key]
ASSUME CommandsAssumption == Commands \subseteq {"create", "reset", "delete"}
ASSUME NilAssumption == NoAccount \notin Account /\ NoId \notin Id
ASSUME ReqAssumption == IsFiniteSet(Req)

VARIABLES account,         \* admin_users, by id
          token,           \* the ids with a token that has not expired
          slot,            \* what each request is doing
          deleting,        \* the deletion the API is in the middle of
          cli,             \* what the ocm-admin process is doing
          gone,            \* history: the ids of deleted accounts
          guesses          \* history: failed logins since the key was open

vars == <<account, token, slot, deleting, cli, gone, guesses, throttleVars>>

\* What a request still needs after scrypt.  The id is that of the account
\* logged in or changed; a login or a change with NoId has a wrong password.
Request == [op : {"login"}, id : Id \union {NoId}, key : Key]
             \union [op : {"setup", "create", "password"}, id : Id \union {NoId},
                     user : User, password : Password]
Command == [op : {"create", "reset"}, user : User, password : Password]
             \union [op : {"delete"}, user : User, count : Nat]
Deletion == [op : {"delete"}, id : Id, count : Nat]   \* 0: not counted yet
Idle == [op |-> "idle"]

TypeOK == /\ ThrottleTypeOK
          /\ account \in [Id -> Account \union {NoAccount}]
          /\ token \subseteq Id
          /\ slot \in [Req -> Request \union {Idle}]
          /\ deleting \in Deletion \union {Idle}
          /\ cli \in Command \union {Idle}
          /\ gone \subseteq Id
          /\ guesses \in [Key -> Nat]

Init == /\ ThrottleInit
        /\ account = [id \in Id |-> NoAccount]
        /\ token = {}
        /\ slot = [s \in Req |-> Idle]
        /\ deleting = Idle
        /\ cli = Idle
        /\ gone = {}
        /\ guesses = [k \in Key |-> 0]

(***************************************************************************)
(* admin_users.                                                            *)
(***************************************************************************)
Exists(id) == account[id] # NoAccount
Existing == {id \in Id : Exists(id)}
Count == Cardinality(Existing)
HasAny == Existing # {}
Named(u) == {id \in Existing : account[id].user = u}

\* An id never used before.
FreshId == {id \in Id : ~Exists(id) /\ id \notin gone}

\* A slip: no UNIQUE constraint behind the check that create made earlier.
InsertUnchecked(id, u, pw) ==
  /\ id \in FreshId
  /\ account' = [account EXCEPT ![id] = [user |-> u, password |-> pw]]

\* The INSERT, which fails on a username taken meanwhile: username is UNIQUE.
Insert(id, u, pw) ==
  IF Named(u) # {} THEN UNCHANGED account
  ELSE /\ id \in FreshId
       /\ account' = [account EXCEPT ![id] = [user |-> u, password |-> pw]]

\* A slip: INSERT OR REPLACE.
ReplacePassword(id, u, pw) ==
  account' = [account EXCEPT ![id] = [user |-> u, password |-> pw]]

\* UPDATE ... WHERE id = ?: nothing happens if the row is gone.
UpdatePassword(id, u, pw) ==
  account' = [account EXCEPT ![id] = IF Exists(id) THEN [@ EXCEPT !.password = pw]
                                                  ELSE @]

Delete(ids) == /\ account' = [id \in Id |-> IF id \in ids THEN NoAccount
                                                         ELSE account[id]]
               /\ gone' = gone \union (ids \intersect Existing)

(***************************************************************************)
(* The API: the part of each handler before scrypt.                        *)
(***************************************************************************)
\* JwtAuthGuard: a token that has not expired, of an account that exists.
Authorised(id) == id \in token /\ Exists(id)

Begin(s, request) == /\ slot[s] = Idle
                     /\ slot' = [slot EXCEPT ![s] = request]
                     /\ UNCHANGED <<account, token, cli, gone, guesses, throttleVars>>

\* login: the record is read before the password is verified.  An unknown
\* username is verified as well, against a hash that nothing matches.
LoginRequest(u, pw) ==
  LET right == {id \in Named(u) : account[id].password = pw}
  IN  [op |-> "login", key |-> KeyOf[u],
       id |-> IF right = {} THEN NoId ELSE CHOOSE id \in right : TRUE]

Login(s, u, pw) == /\ KeyOf[u] \notin locked
                   /\ Begin(s, LoginRequest(u, pw))

\* createFirstAdmin: open to everybody as long as there is no account.
Setup(s, u, pw) ==
  /\ ~HasAny
  /\ Begin(s, [op |-> "setup", id |-> NoId, user |-> u, password |-> pw])

Create(s, by, u, pw) ==
  /\ Authorised(by)
  /\ Named(u) = {}
  /\ Begin(s, [op |-> "create", id |-> NoId, user |-> u, password |-> pw])

\* changePassword: the record it reads decides on the current password.
ChangePassword(s, by, current, pw) ==
  /\ Authorised(by)
  /\ Begin(s, [op |-> "password", user |-> account[by].user, password |-> pw,
               id |-> IF account[by].password = current THEN by ELSE NoId])

\* delete, up to its checks on the accounts: the other one exists.
DeleteAdmin(by, id) ==
  /\ deleting = Idle
  /\ Authorised(by)
  /\ Exists(id)
  /\ id # by
  /\ deleting' = [op |-> "delete", id |-> id, count |-> 0]
  /\ UNCHANGED <<account, token, slot, cli, gone, guesses, throttleVars>>

\* A slip: the last account is not protected.
CountUnchecked ==
  /\ deleting.op = "delete" /\ deleting.count = 0
  /\ deleting' = [deleting EXCEPT !.count = Count]
  /\ UNCHANGED <<account, token, slot, cli, gone, guesses, throttleVars>>

\* "Cannot delete the last remaining admin": SELECT COUNT(*).
CountAdmins ==
  /\ deleting.op = "delete" /\ deleting.count = 0
  /\ deleting' = IF Count > 1 THEN [deleting EXCEPT !.count = Count] ELSE Idle
  /\ UNCHANGED <<account, token, slot, cli, gone, guesses, throttleVars>>

\* DELETE ... WHERE id = ?, whatever the count would be by now.
DeleteCounted ==
  /\ deleting.op = "delete" /\ deleting.count # 0
  /\ Delete({deleting.id})
  /\ deleting' = Idle
  /\ UNCHANGED <<token, slot, cli, guesses, throttleVars>>

\* The event loop runs no other handler before that one has returned.
Uninterrupted == deleting = Idle /\ UNCHANGED deleting

(***************************************************************************)
(* The API: what follows scrypt.                                           *)
(***************************************************************************)
End(s) == slot' = [slot EXCEPT ![s] = Idle]

LoginSucceeds(s) ==
  /\ slot[s].op = "login" /\ slot[s].id # NoId
  /\ Reset(slot[s].key)
  /\ guesses' = [guesses EXCEPT ![slot[s].key] = 0]
  /\ token' = token \union {slot[s].id}
  /\ End(s)
  /\ UNCHANGED <<account, cli, gone>>

LoginFails(s) ==
  /\ slot[s].op = "login" /\ slot[s].id = NoId
  /\ RecordFailure(slot[s].key)
  /\ guesses' = [guesses EXCEPT ![slot[s].key] = @ + 1]
  /\ End(s)
  /\ UNCHANGED <<account, token, cli, gone>>

FinishCreate(s) ==
  /\ slot[s].op = "create"
  /\ \E id \in Id : Insert(id, slot[s].user, slot[s].password)
  /\ End(s)
  /\ UNCHANGED <<token, cli, gone, guesses, throttleVars>>

\* The first account is stored, and its owner logged in, unless the username
\* is taken (500) or locked (429, with the account already there).
FinishSetup(s) ==
  /\ slot[s].op = "setup"
  /\ \E id \in Id :
       /\ Insert(id, slot[s].user, slot[s].password)
       /\ IF Named(slot[s].user) # {} \/ KeyOf[slot[s].user] \in locked THEN End(s)
          ELSE slot' = [slot EXCEPT ![s] = [op |-> "login", id |-> id,
                                            key |-> KeyOf[slot[s].user]]]
  /\ UNCHANGED <<token, cli, gone, guesses, throttleVars>>

FinishPassword(s) ==
  /\ slot[s].op = "password"
  /\ IF slot[s].id = NoId THEN UNCHANGED account
     ELSE UpdatePassword(slot[s].id, slot[s].user, slot[s].password)
  /\ End(s)
  /\ UNCHANGED <<token, cli, gone, guesses, throttleVars>>

(***************************************************************************)
(* ocm-admin.                                                              *)
(***************************************************************************)
CliBegin(op, u, pw) ==
  /\ op \in Commands
  /\ cli = Idle
  /\ CASE op = "create" -> Named(u) = {}
       [] op = "reset" -> Named(u) # {}
       [] op = "delete" -> Count > 1
  /\ cli' = IF op = "delete" THEN [op |-> op, user |-> u, count |-> Count]
                             ELSE [op |-> op, user |-> u, password |-> pw]
  /\ UNCHANGED <<account, token, slot, deleting, gone, guesses, throttleVars>>

\* The second statement of the command: INSERT, UPDATE or DELETE by username.
CliEnd ==
  /\ cli # Idle
  /\ CASE cli.op = "create" ->
            /\ \E id \in Id : Insert(id, cli.user, cli.password)
            /\ UNCHANGED gone
       [] cli.op = "reset" ->
            /\ account' = [id \in Id |-> IF id \in Named(cli.user)
                             THEN [account[id] EXCEPT !.password = cli.password]
                             ELSE account[id]]
            /\ UNCHANGED gone
       [] cli.op = "delete" -> Delete(Named(cli.user))
  /\ cli' = Idle
  /\ UNCHANGED <<token, slot, deleting, guesses, throttleVars>>

(***************************************************************************)
(* Time and restarts.                                                      *)
(***************************************************************************)
TokenExpires(id) == /\ id \in token
                    /\ token' = token \ {id}
                    /\ UNCHANGED <<account, slot, deleting, cli, gone, guesses, throttleVars>>

LockExpires(k) == /\ LockRunsOut(k)
                  /\ guesses' = [guesses EXCEPT ![k] = 0]
                  /\ UNCHANGED <<account, token, slot, deleting, cli, gone>>

\* The lockout is in memory; tokens and accounts survive.  The process may
\* be killed between two statements.
Restart == /\ slot' = [s \in Req |-> Idle] /\ deleting' = Idle
           /\ fails' = [k \in Key |-> 0] /\ locked' = {}
           /\ guesses' = [k \in Key |-> 0]
           /\ UNCHANGED <<account, token, cli, gone>>

Serve(s) == \/ \E u \in User, pw \in Password : Login(s, u, pw) \/ Setup(s, u, pw)
            \/ \E by \in Id, u \in User, pw \in Password : Create(s, by, u, pw)
            \/ \E by \in Id, current, pw \in Password :
                 ChangePassword(s, by, current, pw)

Finish(s) == \/ LoginSucceeds(s) \/ LoginFails(s)
             \/ FinishCreate(s) \/ FinishSetup(s) \/ FinishPassword(s)

Next == \/ \E s \in Req : Uninterrupted /\ (Serve(s) \/ Finish(s))
        \/ \E by, id \in Id : DeleteAdmin(by, id)
        \/ CountAdmins
        \/ DeleteCounted
        \/ \E op \in Commands, u \in User, pw \in Password : CliBegin(op, u, pw)
        \/ CliEnd
        \/ \E id \in Id : TokenExpires(id)
        \/ \E k \in Key : LockExpires(k)
        \/ Restart

Spec == Init /\ [][Next]_vars

(***************************************************************************)
(* Correctness.                                                            *)
(***************************************************************************)
\* A username names one account, although create checks it before it awaits
\* the hash and two creations, or a creation and ocm-admin, overlap.
UsernamesUnique ==
  \A a, b \in Existing : account[a].user = account[b].user => a = b

\* "Cannot delete the last remaining admin": the count and the DELETE are two
\* statements, in the API and in ocm-admin, so two deletions that both count two
\* accounts remove both, and the public setup opens again.  Nothing else does:
\* the step that removes the last account is a deletion whose count is out of
\* date, because another one came in between.
LastGoesOnStaleCountOnly ==
  [][HasAny /\ ~HasAny' =>
       \/ deleting.op = "delete" /\ deleting' = Idle /\ Count < deleting.count
       \/ cli.op = "delete" /\ cli' = Idle /\ Count < cli.count]_vars

\* A deleted account stays deleted: an answer of scrypt that comes after the
\* deletion does not bring it back, nor its tokens.
DeletedForGood == \A id \in gone : ~Exists(id)

\* "After OCM_LOGIN_MAX_ATTEMPTS failures a username is locked": a username
\* can be tried that many times before its lock runs out, and once more by
\* each login that was already being verified when the last attempt failed.
LockoutBound == \A k \in Key : guesses[k] <= MaxAttempts + Cardinality(Req) - 1

(***************************************************************************)
(* The inductive invariant.                                                *)
(***************************************************************************)
\* A deletion that has counted has counted more accounts than one.
CountInv == /\ deleting.op = "delete" => deleting.count # 1
            /\ cli.op = "delete" => cli.count > 1

\* The logins of key k that are being verified and will fail.
Pending(k) == {s \in Req : /\ slot[s].op = "login" /\ slot[s].id = NoId
                           /\ slot[s].key = k}

\* An open key counts every failure; a locked one takes no new login, so what
\* can still fail is what was being verified when it was locked.
GuessInv ==
  \A k \in Key :
    IF k \in locked
    THEN guesses[k] + Cardinality(Pending(k)) <= MaxAttempts + Cardinality(Req) - 1
    ELSE guesses[k] <= fails[k]

AccountsInv == /\ TypeOK /\ IsFiniteSet(Existing)
               /\ UsernamesUnique /\ DeletedForGood
               /\ CountInv /\ GuessInv
=============================================================================
