---------------------------- MODULE Credentials ----------------------------
(***************************************************************************)
(* The life of VPN credentials: VpnService over the vpn_credentials table  *)
(* and over EasyRsaService, with the CRL refresh of CrlRefreshService.     *)
(*                                                                         *)
(* A request slot holds one handler of VpnController; every `await` of the *)
(* handler is a point where other handlers run, so each piece between two  *)
(* awaits is an action.  PKI operations go through the queue of            *)
(* EasyRsaService.serialize (see SerialQueue, PromiseQueue): ahead[s] is   *)
(* the set of operations that the operation of slot s still waits for.     *)
(*                                                                         *)
(* Rows are keyed by Common Name: common_name is UNIQUE and never updated, *)
(* and no row is ever deleted, so a row's id and its Common Name stand for *)
(* each other.  Faults names the failures that may happen:                 *)
(*   "pki"    a command or a file read fails and has done nothing more     *)
(*            than leave a key behind                                      *)
(*   "late"   a command is reported failed (killed at its timeout) after   *)
(*            it has done its work                                         *)
(*   "chmod"  the chmod of crl.pem fails                                   *)
(*   "db"     a database statement fails                                   *)
(*   "crash"  the process dies and systemd restarts it                     *)
(***************************************************************************)
EXTENDS Pki

CONSTANTS Label,           \* credential names, reusable
          Candidates,      \* Candidates[l]: the Common Names <l>-<6 hex>
          Req,             \* slots for concurrent requests
          Cron,            \* the slot of the scheduled CRL refresh
          Faults,          \* the failures that may happen
          NoCN, NoLabel, NoRow

FaultKind == {"pki", "late", "chmod", "db", "crash"}

\* The columns of vpn_credentials that matter here.
Row == [name : Label, status : {"ACTIVE", "REVOKED"},
        superseded : BOOLEAN, hasPassword : BOOLEAN]

ASSUME CandidatesAssumption ==
  /\ Candidates \in [Label -> SUBSET CN]
  /\ \A l, m \in Label : l # m => Candidates[l] \intersect Candidates[m] = {}
ASSUME SlotAssumption == Cron \notin Req
ASSUME FaultsAssumption == Faults \subseteq FaultKind
ASSUME NilAssumption ==
  NoCN \notin CN /\ NoLabel \notin Label /\ NoRow \notin Row

VARIABLES phase,           \* "down", "booting" (not listening yet) or "up"
          task,            \* what each slot is doing
          ahead,           \* the queued operations each slot waits for
          row              \* the vpn_credentials table

vars == <<phase, task, ahead, row, pkiVars>>

Slot == Req \union {Cron}

\* Where a handler is.  The steps of QueuedPc hold a place in the queue.
QueuedPc == {"build", "encrypt", "store", "profile",
             "revoke", "gencrl", "chmod", "mark"}
Pc == {"idle", "supersede", "ok"} \union QueuedPc

Task == [op : {"none", "create", "renew", "revoke", "download", "refresh"},
         pc : Pc,
         cn : CN \union {NoCN},          \* the certificate acted upon
         label : Label \union {NoLabel}, \* the name to store
         old : CN \union {NoCN},         \* the credential being renewed
         password : BOOLEAN]             \* a passphrase was given

Idle == [op |-> "none", pc |-> "idle", cn |-> NoCN, label |-> NoLabel,
         old |-> NoCN, password |-> FALSE]

TypeOK == /\ PkiTypeOK
          /\ phase \in {"down", "booting", "up"}
          /\ task \in [Slot -> Task]
          /\ ahead \in [Slot -> SUBSET Slot]
          /\ row \in [CN -> Row \union {NoRow}]

Init == /\ PkiInit
        /\ phase = "down"
        /\ task = [s \in Slot |-> Idle]
        /\ ahead = [s \in Slot |-> {}]
        /\ row = [cn \in CN |-> NoRow]

(***************************************************************************)
(* The queue of EasyRsaService.serialize.                                  *)
(***************************************************************************)
Queued == {s \in Slot : task[s].pc \in QueuedPc}

\* A slip: a new operation jumps the queue.
EnqueueFirst(s, t) == /\ task' = [task EXCEPT ![s] = t]
                      /\ ahead' = [u \in Slot |-> IF u = s \/ task[u].pc # "build"
                                                 THEN {} ELSE ahead[u] \union {s}]

Enqueue(s, t) == /\ task' = [task EXCEPT ![s] = t]
                 /\ ahead' = [ahead EXCEPT ![s] = Queued]

\* No handler is between the two statements of a renewal: they run without
\* an await in between, so nothing else of this process runs there.
Uninterrupted == \A s \in Slot : task[s].pc # "supersede"

\* The operation of slot s is at the head of the queue, at step pc.
At(s, pc) == task[s].pc = pc /\ ahead[s] = {} /\ Uninterrupted

Advance(s, pc) == /\ task' = [task EXCEPT ![s].pc = pc]
                  /\ UNCHANGED ahead

\* The operation settles; the handler goes on as t.  The refresh made at boot
\* is awaited before the server listens.
Settle(s, t) == /\ task' = [task EXCEPT ![s] = t]
                /\ ahead' = [u \in Slot |-> ahead[u] \ {s}]
                /\ phase' = IF s = Cron /\ phase = "booting" THEN "up" ELSE phase

\* A slip: a rejected operation keeps its place in the chain.
FailHoldingQueue(s) == task' = [task EXCEPT ![s] = Idle] /\ UNCHANGED <<ahead, phase>>

\* The operation throws: the caller gets a 500, the refresh logs a warning.
Fail(s) == Settle(s, Idle)

Done(s) == [task[s] EXCEPT !.pc = "ok"]

(***************************************************************************)
(* Requests: the synchronous part of each handler, up to its first await.  *)
(***************************************************************************)
Free(s) == phase = "up" /\ Uninterrupted /\ task[s].pc \in {"idle", "ok"}

HasRow(cn) == row[cn] # NoRow

\* findActiveByName: a superseded or revoked credential frees its name.
IsCurrent(cn, l) == /\ HasRow(cn)
                    /\ row[cn].name = l
                    /\ row[cn].status = "ACTIVE"
                    /\ ~row[cn].superseded

FindActiveByName(l) == {cn \in CN : IsCurrent(cn, l)}

\* A slip: the Common Name of a revoked credential counts as free.
UnusedCommonName(l) == {cn \in Candidates[l] :
                          ~HasRow(cn) \/ row[cn].status = "REVOKED"}

\* uniqueCommonName: a candidate that no row has.  It looks at the table
\* only, not at the PKI and not at the requests still in flight.
UniqueCommonName(l) == {cn \in Candidates[l] : ~HasRow(cn)}

Create(s, l, pw) ==
  /\ Free(s)
  /\ FindActiveByName(l) = {}
  /\ \E cn \in UniqueCommonName(l) :
       Enqueue(s, [Idle EXCEPT !.op = "create", !.pc = "build", !.cn = cn,
                               !.label = l, !.password = pw])
  /\ UNCHANGED <<phase, row, pkiVars>>

\* A revoked credential, and one already renewed, cannot be renewed.
Renew(s, id, pw) ==
  /\ Free(s)
  /\ HasRow(id)
  /\ row[id].status # "REVOKED"
  /\ ~row[id].superseded
  /\ \E cn \in UniqueCommonName(row[id].name) :
       Enqueue(s, [Idle EXCEPT !.op = "renew", !.pc = "build", !.cn = cn,
                               !.label = row[id].name, !.old = id,
                               !.password = pw])
  /\ UNCHANGED <<phase, row, pkiVars>>

\* A slip: the row is marked first, the PKI follows.
RevokeMarkingFirst(s, id) ==
  /\ Free(s)
  /\ HasRow(id)
  /\ row[id].status # "REVOKED"
  /\ row' = [row EXCEPT ![id].status = "REVOKED"]
  /\ Enqueue(s, [Idle EXCEPT !.op = "revoke", !.pc = "revoke", !.cn = id])
  /\ UNCHANGED <<phase, pkiVars>>

Revoke(s, id) ==
  /\ Free(s)
  /\ HasRow(id)
  /\ row[id].status # "REVOKED"
  /\ Enqueue(s, [Idle EXCEPT !.op = "revoke", !.pc = "revoke", !.cn = id])
  /\ UNCHANGED <<phase, row, pkiVars>>

DownloadProfile(s, id) ==
  /\ Free(s)
  /\ HasRow(id)
  /\ row[id].status # "REVOKED"
  /\ Enqueue(s, [Idle EXCEPT !.op = "download", !.pc = "profile", !.cn = id])
  /\ UNCHANGED <<phase, row, pkiVars>>

\* The weekly refresh: regenerateCrl, a no-op without a CA.
RefreshCrl ==
  /\ phase = "up" /\ Uninterrupted
  /\ task[Cron].pc = "idle"
  /\ ca
  /\ Enqueue(Cron, [Idle EXCEPT !.op = "refresh", !.pc = "gencrl"])
  /\ UNCHANGED <<phase, row, pkiVars>>

(***************************************************************************)
(* issueClient and what create and renew do with its result.               *)
(***************************************************************************)
Build(s) ==
  /\ At(s, "build")
  /\ LET cn == task[s].cn IN
       \/ /\ BuildClientFull(cn)
          /\ Advance(s, IF task[s].password THEN "encrypt" ELSE "store")
          /\ UNCHANGED phase
       \/ /\ Fail(s)
          /\ \/ ~CanBuild(cn) /\ UNCHANGED pkiVars
             \/ "pki" \in Faults /\ UNCHANGED pkiVars
             \/ "pki" \in Faults /\ BuildOnlyKey(cn)
             \/ "late" \in Faults /\ BuildClientFull(cn)
  /\ UNCHANGED row

\* A slip: a failing openssl is logged and the issuance goes on.
EncryptBestEffort(s) ==
  /\ At(s, "encrypt")
  /\ key' \in {key, [key EXCEPT ![task[s].cn] = "encrypted"]}
  /\ Advance(s, "store")
  /\ UNCHANGED <<phase, row, ca, cert, crl, crlReadable>>

\* openssl writes the encrypted key beside the plain one; a rename swaps them.
EncryptPrivateKey(s) ==
  /\ At(s, "encrypt")
  /\ \/ /\ key' = [key EXCEPT ![task[s].cn] = "encrypted"]
        /\ Advance(s, "store")
        /\ UNCHANGED <<phase, ca, cert, crl, crlReadable>>
     \/ /\ "pki" \in Faults
        /\ Fail(s)
        /\ UNCHANGED pkiVars
  /\ UNCHANGED row

\* A slip: a renewal takes the name from its body, which has none.
NewRowFromBody(s) == [name |-> IF task[s].op = "renew" THEN NoLabel ELSE task[s].label,
                      status |-> "ACTIVE", superseded |-> FALSE,
                      hasPassword |-> task[s].password]

NewRow(s) == [name |-> task[s].label, status |-> "ACTIVE",
              superseded |-> FALSE, hasPassword |-> task[s].password]

\* A slip: the name is checked again once the certificate exists.
StoreCheckingAgain(s) ==
  /\ At(s, "store")
  /\ IF FindActiveByName(task[s].label) # {} /\ task[s].op = "create"
     THEN Fail(s) /\ UNCHANGED row
     ELSE /\ row' = [row EXCEPT ![task[s].cn] = NewRow(s)]
          /\ Settle(s, [task[s] EXCEPT
                          !.pc = IF task[s].op = "renew" THEN "supersede"
                                                         ELSE "ok"])
  /\ UNCHANGED pkiVars

\* A slip: the original is superseded before its replacement is stored.
StoreSupersedingFirst(s) ==
  /\ At(s, "store")
  /\ \/ /\ row' = [row EXCEPT ![task[s].cn] = NewRow(s)]
        /\ Settle(s, Done(s))
     \/ /\ Fail(s)
        /\ row' = IF task[s].op = "renew"
                  THEN [row EXCEPT ![task[s].old].superseded = TRUE] ELSE row
  /\ UNCHANGED pkiVars

\* The profile is read back, and the credential enters the table.
Store(s) ==
  /\ At(s, "store")
  /\ LET cn == task[s].cn IN
       \/ /\ HasProfile(cn)
          /\ ~HasRow(cn)
          /\ row' = [row EXCEPT ![cn] = NewRow(s)]
          /\ Settle(s, [task[s] EXCEPT
                          !.pc = IF task[s].op = "renew" THEN "supersede"
                                                         ELSE "ok"])
       \/ /\ HasRow(cn) \/ {"pki", "db"} \intersect Faults # {}
          /\ Fail(s)
          /\ UNCHANGED row
  /\ UNCHANGED pkiVars

\* markSuperseded, right after the insert of the replacement.
Supersede(s) ==
  /\ task[s].pc = "supersede"
  /\ \/ /\ row' = [row EXCEPT ![task[s].old].superseded = TRUE]
        /\ task' = [task EXCEPT ![s] = Done(s)]
     \/ /\ "db" \in Faults
        /\ task' = [task EXCEPT ![s] = Idle]
        /\ UNCHANGED row
  /\ UNCHANGED <<phase, ahead, pkiVars>>

\* downloadProfile, once getProfile has read the files.
ReadProfile(s) ==
  /\ At(s, "profile")
  /\ \/ HasProfile(task[s].cn) /\ Settle(s, Done(s))
     \/ (~HasProfile(task[s].cn) \/ "pki" \in Faults) /\ Fail(s)
  /\ UNCHANGED <<row, pkiVars>>

(***************************************************************************)
(* revokeClient, regenerateCrl, and what revoke does with their result.    *)
(***************************************************************************)
RevokeStep(s) ==
  /\ At(s, "revoke")
  /\ LET cn == task[s].cn IN
       \/ RevokeCert(cn) /\ Advance(s, "gencrl") /\ UNCHANGED phase
       \/ /\ Fail(s)
          /\ \/ cert[cn] # "valid" /\ UNCHANGED pkiVars
             \/ "pki" \in Faults /\ UNCHANGED pkiVars
             \/ "late" \in Faults /\ RevokeCert(cn)
  /\ UNCHANGED row

\* A slip: a failing gen-crl is logged, as in the scheduled refresh.
GenCrlBestEffort(s) ==
  /\ At(s, "gencrl")
  /\ GenCrl \/ UNCHANGED pkiVars
  /\ Advance(s, "chmod")
  /\ UNCHANGED <<phase, row>>

GenCrlStep(s) ==
  /\ At(s, "gencrl")
  /\ \/ GenCrl /\ Advance(s, "chmod") /\ UNCHANGED phase
     \/ /\ Fail(s)
        /\ \/ "pki" \in Faults /\ UNCHANGED pkiVars
           \/ "late" \in Faults /\ GenCrl
  /\ UNCHANGED row

\* A slip: the scheduled refresh leaves the file mode alone.
ChmodAfterRevokeOnly(s) ==
  /\ At(s, "chmod")
  /\ IF task[s].op = "revoke"
     THEN crlReadable' = TRUE /\ Advance(s, "mark") /\ UNCHANGED phase
     ELSE UNCHANGED crlReadable /\ Settle(s, Idle)
  /\ UNCHANGED <<ca, cert, key, crl, row>>

\* ensureCrlReadable: a failing chmod is logged, and the operation goes on.
EnsureCrlReadable(s) ==
  /\ At(s, "chmod")
  /\ crlReadable' \in {TRUE} \union (IF "chmod" \in Faults THEN {crlReadable} ELSE {})
  /\ IF task[s].op = "revoke" THEN Advance(s, "mark") /\ UNCHANGED phase
                              ELSE Settle(s, Idle)
  /\ UNCHANGED <<ca, cert, key, crl, row>>

\* A slip: UPDATE ... WHERE superseded_at IS NULL.
MarkRevokedIfCurrent(s) ==
  /\ At(s, "mark")
  /\ row' = [row EXCEPT ![task[s].cn].status =
               IF row[task[s].cn].superseded THEN @ ELSE "REVOKED"]
  /\ Settle(s, Done(s))
  /\ UNCHANGED pkiVars

MarkRevoked(s) ==
  /\ At(s, "mark")
  /\ \/ /\ row' = [row EXCEPT ![task[s].cn].status = "REVOKED"]
        /\ Settle(s, Done(s))
     \/ "db" \in Faults /\ Fail(s) /\ UNCHANGED row
  /\ UNCHANGED pkiVars

(***************************************************************************)
(* The process.                                                            *)
(***************************************************************************)
\* onApplicationBootstrap is awaited: the API listens after the refresh.
Boot ==
  /\ phase = "down"
  /\ IF ca
     THEN /\ phase' = "booting"
          /\ Enqueue(Cron, [Idle EXCEPT !.op = "refresh", !.pc = "gencrl"])
     ELSE phase' = "up" /\ UNCHANGED <<task, ahead>>
  /\ UNCHANGED <<row, pkiVars>>

\* Handlers and queue are memory; the table and the PKI are on disk.
Crash ==
  /\ "crash" \in Faults
  /\ phase # "down"
  /\ phase' = "down"
  /\ task' = [s \in Slot |-> Idle]
  /\ ahead' = [s \in Slot |-> {}]
  /\ UNCHANGED <<row, pkiVars>>

Request(s) == \/ \E l \in Label, pw \in BOOLEAN : Create(s, l, pw)
              \/ \E id \in CN, pw \in BOOLEAN : Renew(s, id, pw)
              \/ \E id \in CN : Revoke(s, id) \/ DownloadProfile(s, id)

Step(s) == \/ Build(s) \/ EncryptPrivateKey(s) \/ Store(s) \/ Supersede(s)
           \/ ReadProfile(s)
           \/ RevokeStep(s) \/ GenCrlStep(s) \/ EnsureCrlReadable(s)
           \/ MarkRevoked(s)

Next == \/ \E s \in Req : Request(s)
        \/ \E s \in Slot : Step(s)
        \/ RefreshCrl
        \/ Boot
        \/ Crash

Spec == Init /\ [][Next]_vars

\* Commands end (or are killed at their timeout), the cron fires, systemd
\* restarts the service.  Nothing obliges anyone to make a request.
LiveSpec == /\ Spec
            /\ \A s \in Slot : WF_vars(Step(s))
            /\ WF_vars(Boot)
            /\ WF_vars(RefreshCrl)

(***************************************************************************)
(* Correctness.                                                            *)
(***************************************************************************)
\* A credential listed as REVOKED is refused by the server: its certificate
\* is revoked and in the published CRL ("Blocked by the CRL"), whatever fails
\* and in whatever order requests on it overlap.
RevokedIsBlocked ==
  \A cn \in CN : HasRow(cn) /\ row[cn].status = "REVOKED" => ~Accepted(cn)

\* has_password "only records whether a key is passphrase-encrypted": it says
\* so exactly when the key a download hands out is encrypted.
FlagHonest ==
  \A cn \in CN : HasRow(cn) /\ cert[cn] = "valid" =>
                   (row[cn].hasPassword <=> key[cn] = "encrypted")

\* "Only after the replacement exists": a name that has credentials always has
\* one that has not been replaced, even if a renewal fails or is cut short.
NameKeepsACredential ==
  \A cn \in CN : HasRow(cn) =>
    \E new \in CN : /\ HasRow(new)
                    /\ row[new].name = row[cn].name
                    /\ ~row[new].superseded

\* Without failures no working certificate is outside the table, where nobody
\* could revoke it, except the one being issued.
InFlight(cn) == \E s \in Slot : task[s].cn = cn /\ task[s].pc \in {"encrypt", "store"}
NoOrphans == \A cn \in CN : cert[cn] = "valid" => HasRow(cn) \/ InFlight(cn)

\* What the console lists as active and "Valid" gets its holder in, unless it
\* is being revoked at this moment.
BeingRevoked(cn) == \E s \in Slot : task[s].cn = cn
                                    /\ task[s].pc \in {"gencrl", "chmod", "mark"}
ActiveMeansValid ==
  \A cn \in CN : HasRow(cn) /\ row[cn].status = "ACTIVE" =>
                   cert[cn] = "valid" \/ BeingRevoked(cn)

\* "only an ACTIVE credential with the same name is a conflict": a name has at
\* most one current credential (two rows while a renewal is finishing).
Renewing(cn) == \E s \in Slot : task[s].pc = "supersede" /\ task[s].old = cn
OneCurrentPerName ==
  \A l \in Label : \A a, b \in FindActiveByName(l) :
    a = b \/ Renewing(a) \/ Renewing(b)

\* A CRL the server cannot read makes it reject every client: once the API
\* listens, crl.pem is readable except between a gen-crl and its chmod.
CrlReadableWhileServing ==
  phase = "up" => crlReadable \/ \E s \in Slot : task[s].pc = "chmod"

\* A download that was admitted before a revocation never answers with the
\* profile of a credential listed as revoked by then.
DownloadServesUsable ==
  [][\A s \in Slot : task[s].pc = "profile" /\ task'[s].pc = "ok" =>
       row[task[s].cn].status = "ACTIVE" /\ task[s].cn \notin crl]_vars

\* A certificate the server rejects stays rejected: neither an issuance that
\* was already queued nor a refresh of the CRL brings it back.
BlockedForever ==
  [][\A cn \in CN : cert[cn] = "revoked" /\ ~Accepted(cn) => ~Accepted(cn)']_vars

\* Every request is answered, or lost with the process: the queue is never
\* stuck behind a failed operation.
Pending(s) == task[s].pc \notin {"idle", "ok"}
EveryRequestAnswered == \A s \in Req : Pending(s) ~> ~Pending(s)

\* When crashes stop, the server gets a CRL it can read and that lists every
\* certificate revoked so far: boot and cron repair what a crash cut short.
CrlHeals ==
  <>[][~Crash]_vars =>
    \A cn \in CN : cert[cn] = "revoked" /\ ca ~> crlReadable /\ ~Accepted(cn)

(***************************************************************************)
(* The ledger that the table and the PKI together implement.               *)
(***************************************************************************)
AccessOf(cn) == CASE Accepted(cn) -> "granted"
                  [] cert[cn] = "absent" -> "never"
                  [] OTHER -> "blocked"

ShownAs(cn) == CASE ~HasRow(cn) -> "unlisted"
                 [] HasRow(cn) /\ row[cn].status = "REVOKED" -> "revoked"
                 [] HasRow(cn) /\ row[cn].status = "ACTIVE" ->
                      IF row[cn].superseded THEN "replaced" ELSE "current"

Ledger == INSTANCE CredentialLedger WITH
            access <- [cn \in CN |-> AccessOf(cn)],
            shown <- [cn \in CN |-> ShownAs(cn)],
            owner <- [cn \in CN |-> IF HasRow(cn) THEN row[cn].name ELSE "unlisted"]
ImplementsLedger == Ledger!Spec
=============================================================================
