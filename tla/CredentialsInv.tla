--------------------------- MODULE CredentialsInv ---------------------------
(***************************************************************************)
(* The inductive invariant of Credentials, part by part.                   *)
(***************************************************************************)
EXTENDS Credentials

\* Queued operations are totally ordered: of any two, one waits for the other.
QueueInv ==
  \A s, u \in Slot :
    /\ ahead[s] \subseteq Queued
    /\ s \notin Queued => ahead[s] = {}
    /\ s \in Queued /\ u \in Queued /\ s # u => s \in ahead[u] \/ u \in ahead[s]

\* An operation that has done its first step is at the head of the queue.
Started(s) == \/ task[s].pc \in {"encrypt", "store", "chmod", "mark"}
              \/ task[s].pc = "gencrl" /\ task[s].op = "revoke"
StartedInv == \A s \in Slot : Started(s) => ahead[s] = {}

\* What an issuance knows.  A build is never queued for a revoked certificate,
\* and past the build the certificate is there, unlisted, with the right key.
Issuing(s) == task[s].pc \in {"build", "encrypt", "store"}
IssueInv ==
  \A s \in Slot : LET t == task[s] IN
    /\ Issuing(s) => /\ t.op \in {"create", "renew"}
                     /\ t.cn \in CN
                     /\ t.label \in Label
                     /\ t.op = "renew" => /\ t.old \in CN
                                          /\ HasRow(t.old)
                                          /\ row[t.old].name = t.label
    /\ t.pc = "build" => cert[t.cn] # "revoked"
    /\ t.pc = "encrypt" => /\ ~HasRow(t.cn) /\ t.password
                           /\ cert[t.cn] = "valid" /\ key[t.cn] = "plain"
    /\ t.pc = "store" => /\ ~HasRow(t.cn) /\ cert[t.cn] = "valid"
                         /\ key[t.cn] = IF t.password THEN "encrypted" ELSE "plain"

\* What a revocation knows.
Revoking(s) == task[s].op = "revoke" /\ task[s].pc \in QueuedPc
RevokeInv ==
  \A s \in Slot : LET t == task[s] IN
    /\ t.pc \in {"revoke", "mark"} => t.op = "revoke"
    /\ t.pc \in {"gencrl", "chmod"} => t.op \in {"revoke", "refresh"}
    /\ Revoking(s) =>
         /\ t.pc \in {"revoke", "gencrl", "chmod", "mark"}
         /\ t.cn \in CN /\ HasRow(t.cn)
         /\ t.pc # "revoke" => cert[t.cn] = "revoked"
         /\ t.pc \in {"chmod", "mark"} => t.cn \in crl

\* An issuance of the certificate that is being revoked was submitted first,
\* so it comes too early to issue it again.
BuildBeforeRevoke ==
  \A s, u \in Slot : /\ task[s].pc = "build"
                     /\ Revoking(u)
                     /\ task[s].cn = task[u].cn
                     => s \in ahead[u]

\* What the table says of a certificate.
RowInv ==
  \A cn \in CN :
    /\ HasRow(cn) => cert[cn] # "absent"
    /\ cert[cn] = "revoked" => HasRow(cn)
    /\ cn \in crl => cert[cn] = "revoked"
    /\ HasRow(cn) /\ row[cn].status = "REVOKED" => cn \in crl

\* Between the two statements of a renewal.
SupersedeInv ==
  \A s, u \in Slot : LET t == task[s] IN
    /\ t.pc = "supersede" /\ task[u].pc = "supersede" => s = u
    /\ t.pc = "supersede" => /\ t.cn \in CN /\ t.old \in CN
                             /\ t.cn # t.old
                             /\ HasRow(t.cn) /\ HasRow(t.old)
                             /\ row[t.cn].status = "ACTIVE"
                             /\ ~row[t.cn].superseded
                             /\ row[t.cn].name = row[t.old].name

\* A downloaded profile belongs to a credential of the table.
DownloadInv ==
  \A s \in Slot : task[s].pc = "profile" => task[s].cn \in CN /\ HasRow(task[s].cn)

\* A stopped process does nothing.
PhaseInv == phase = "down" => \A s \in Slot : task[s] = Idle

\* The table, the PKI and the queue agree, in every reachable state.
IInv == /\ TypeOK /\ PhaseInv
        /\ QueueInv /\ StartedInv
        /\ IssueInv /\ RevokeInv /\ BuildBeforeRevoke
        /\ RowInv /\ FlagHonest
        /\ SupersedeInv /\ DownloadInv /\ NameKeepsACredential

(***************************************************************************)
(* What holds on top of IInv when some failures do not happen.             *)
(***************************************************************************)
\* No statement or command fails and the process does not die: only the chmod,
\* whose failure is swallowed, may fail.
NothingFails == Faults \subseteq {"chmod"}

\* An active row without a working certificate has its revocation under way.
ActiveInv ==
  \A cn \in CN : HasRow(cn) /\ row[cn].status = "ACTIVE" =>
    \/ cert[cn] = "valid"
    \/ \E s \in Slot : Revoking(s) /\ task[s].pc # "revoke" /\ task[s].cn = cn

\* The file mode is set after every gen-crl: the chmod works, a gen-crl that
\* did its work is not reported failed, and no gen-crl fails at the boot that
\* follows a crash.
ModeIsSet == /\ {"chmod", "late"} \intersect Faults = {}
             /\ ~({"pki", "crash"} \subseteq Faults)

\* Unless the process dies between a gen-crl and its chmod, the CRL is always
\* readable; and if it does, the refresh at boot makes it so.
ReadableOrSoon == crlReadable \/ \E s \in Slot : task[s].pc = "chmod"
ServingInv ==
  /\ ~ca => crlReadable
  /\ phase = "booting" => task[Cron].pc \in {"gencrl", "chmod"}
                          /\ task[Cron].op = "refresh"
  /\ phase = "up" \/ "crash" \notin Faults => ReadableOrSoon
=============================================================================
