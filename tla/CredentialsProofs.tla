------------------------- MODULE CredentialsProofs -------------------------
(***************************************************************************)
(* Proofs about Credentials, for any set of names, Common Names and        *)
(* request slots and for any combination of failures.  The invariant is    *)
(* IInv of CredentialsInv; each action has a lemma that says it preserves  *)
(* IInv, with one step per part of IInv it can disturb.                    *)
(***************************************************************************)
EXTENDS CredentialsInv, TLAPS

(***************************************************************************)
(* The queue: what Enqueue, Advance and Settle do to it.                   *)
(***************************************************************************)
LEMMA IdleType == Idle \in Task /\ Idle.pc = "idle" /\ Idle.op = "none"
  BY DEF Idle, Task, Pc

\* A new operation goes to the end of the queue.
LEMMA EnqueueLemma ==
  ASSUME TypeOK, QueueInv, NEW s \in Slot, NEW t \in Task, Enqueue(s, t),
         task[s].pc \notin QueuedPc, t.pc \in QueuedPc
  PROVE  /\ task' \in [Slot -> Task] /\ ahead' \in [Slot -> SUBSET Slot]
         /\ task'[s] = t /\ ahead'[s] = Queued
         /\ \A u \in Slot : u # s => task'[u] = task[u] /\ ahead'[u] = ahead[u]
         /\ QueueInv'
<1>1. /\ task' \in [Slot -> Task] /\ ahead' \in [Slot -> SUBSET Slot]
      /\ task'[s] = t /\ ahead'[s] = Queued
      /\ \A u \in Slot : u # s => task'[u] = task[u] /\ ahead'[u] = ahead[u]
  BY DEF TypeOK, Enqueue, Queued
<1>2. Queued' = Queued \union {s}
  BY <1>1 DEF Queued
<1>3. QueueInv'
  BY <1>1, <1>2 DEF QueueInv, Queued
<1> QED
  BY <1>1, <1>3

\* The operation at the head goes on and stays there.
LEMMA AdvanceLemma ==
  ASSUME TypeOK, QueueInv, NEW s \in Slot, NEW pc \in QueuedPc, Advance(s, pc),
         task[s].pc \in QueuedPc
  PROVE  /\ task' \in [Slot -> Task] /\ ahead' = ahead
         /\ task'[s] = [task[s] EXCEPT !.pc = pc]
         /\ \A u \in Slot : u # s => task'[u] = task[u]
         /\ QueueInv'
<1>1. /\ task' \in [Slot -> Task] /\ ahead' = ahead
      /\ task'[s] = [task[s] EXCEPT !.pc = pc]
      /\ \A u \in Slot : u # s => task'[u] = task[u]
  BY DEF TypeOK, Advance, Task, Pc
<1>2. Queued' = Queued
  BY <1>1 DEF Queued, TypeOK, Task
<1>3. QueueInv'
  BY <1>1, <1>2 DEF QueueInv
<1> QED
  BY <1>1, <1>3

\* The operation at the head leaves: the one behind it comes to the head.
LEMMA SettleLemma ==
  ASSUME TypeOK, QueueInv, NEW s \in Slot, NEW t \in Task, Settle(s, t),
         t.pc \notin QueuedPc, ahead[s] = {}
  PROVE  /\ task' \in [Slot -> Task] /\ ahead' \in [Slot -> SUBSET Slot]
         /\ phase' \in {"down", "booting", "up"}
         /\ task'[s] = t
         /\ \A u \in Slot : u # s => task'[u] = task[u]
         /\ \A u \in Slot : ahead'[u] = ahead[u] \ {s}
         /\ QueueInv'
<1>1. /\ task' \in [Slot -> Task] /\ ahead' \in [Slot -> SUBSET Slot]
      /\ phase' \in {"down", "booting", "up"}
      /\ task'[s] = t
      /\ \A u \in Slot : u # s => task'[u] = task[u]
      /\ \A u \in Slot : ahead'[u] = ahead[u] \ {s}
  BY DEF TypeOK, Settle
<1>2. Queued' = Queued \ {s}
  BY <1>1 DEF Queued
<1>3. QueueInv'
  BY <1>1, <1>2 DEF QueueInv
<1> QED
  BY <1>1, <1>3

\* Only one operation is past its first step.
LEMMA OneStarted ==
  ASSUME QueueInv, StartedInv, NEW s \in Slot, NEW u \in Slot,
         task[s].pc \in QueuedPc, ahead[s] = {}, Started(u)
  PROVE  s = u
  BY DEF QueueInv, StartedInv, Started, Queued, QueuedPc

(***************************************************************************)
(* Requests.                                                               *)
(***************************************************************************)
LEMMA FreeLemma ==
  ASSUME TypeOK, NEW s \in Slot, Free(s)
  PROVE  task[s].pc \notin QueuedPc /\ task[s].pc # "supersede"
  BY DEF Free, QueuedPc

\* What every admitted request preserves, given what its first step needs.
LEMMA RequestLemma ==
  ASSUME IInv, NEW s \in Slot, NEW t \in Task, Enqueue(s, t),
         UNCHANGED <<row, pkiVars>>, phase' \in {"booting", "up"},
         task[s].pc \notin QueuedPc, Uninterrupted,
         \/ /\ t.pc = "build" /\ t.op \in {"create", "renew"}
            /\ t.cn \in CN /\ ~HasRow(t.cn) /\ t.label \in Label
            /\ t.op = "renew" => /\ t.old \in CN
                                 /\ HasRow(t.old)
                                 /\ row[t.old].name = t.label
         \/ t.pc = "revoke" /\ t.op = "revoke" /\ t.cn \in CN /\ HasRow(t.cn)
         \/ t.pc = "profile" /\ t.op = "download" /\ t.cn \in CN /\ HasRow(t.cn)
         \/ t.pc = "gencrl" /\ t.op = "refresh"
  PROVE  IInv'
<1> USE DEF IInv
<1>0. t.pc \in QueuedPc
  BY DEF QueuedPc
<1>1. /\ task' \in [Slot -> Task] /\ ahead' \in [Slot -> SUBSET Slot]
      /\ task'[s] = t /\ ahead'[s] = Queued
      /\ \A u \in Slot : u # s => task'[u] = task[u] /\ ahead'[u] = ahead[u]
      /\ QueueInv'
  BY <1>0, EnqueueLemma
<1>2. UNCHANGED <<row, ca, cert, key, crl, crlReadable>>
  BY DEF pkiVars
<1>3. TypeOK' /\ PhaseInv'
  BY <1>1, <1>2 DEF TypeOK, PkiTypeOK, PhaseInv
<1>4. StartedInv'
  BY <1>1 DEF StartedInv, Started
<1>5. IssueInv'
  <2>1. t.pc = "build" => cert[t.cn] # "revoked"
    BY DEF RowInv, HasRow
  <2> QED
    BY <1>1, <1>2, <2>1 DEF IssueInv, Issuing, HasRow
<1>6. RevokeInv'
  BY <1>1, <1>2 DEF RevokeInv, Revoking, HasRow, QueuedPc
<1>7. BuildBeforeRevoke'
  <2> SUFFICES ASSUME NEW v \in Slot, NEW u \in Slot,
                      task'[v].pc = "build", Revoking(u)',
                      task'[v].cn = task'[u].cn
               PROVE  v \in ahead'[u]
    BY DEF BuildBeforeRevoke
  <2>1. CASE u = s /\ v = s
    BY <1>1, <2>1 DEF Revoking
  <2>2. CASE u = s /\ v # s
    BY <1>1, <2>2 DEF Queued, QueuedPc
  <2>3. CASE u # s /\ v = s
    BY <1>1, <2>3 DEF Revoking, RevokeInv, HasRow, QueuedPc
  <2>4. CASE u # s /\ v # s
    BY <1>1, <2>4 DEF BuildBeforeRevoke, Revoking
  <2> QED
    BY <2>1, <2>2, <2>3, <2>4
<1>8. RowInv' /\ FlagHonest' /\ NameKeepsACredential'
  BY <1>2 DEF RowInv, FlagHonest, NameKeepsACredential, HasRow
<1>9. SupersedeInv'
  BY <1>1, <1>2 DEF SupersedeInv, HasRow, Uninterrupted
<1>10. DownloadInv'
  BY <1>1, <1>2 DEF DownloadInv, HasRow
<1> QED
  BY <1>1, <1>3, <1>4, <1>5, <1>6, <1>7, <1>8, <1>9, <1>10

LEMMA CreateIInv ==
  ASSUME IInv, NEW s \in Req, NEW l \in Label, NEW pw \in BOOLEAN,
         Create(s, l, pw)
  PROVE  IInv'
<1>1. PICK cn \in UniqueCommonName(l) :
        Enqueue(s, [Idle EXCEPT !.op = "create", !.pc = "build", !.cn = cn,
                                !.label = l, !.password = pw])
  BY DEF Create
<1> DEFINE t == [Idle EXCEPT !.op = "create", !.pc = "build", !.cn = cn,
                             !.label = l, !.password = pw]
<1>2. cn \in CN /\ ~HasRow(cn)
  BY CandidatesAssumption DEF UniqueCommonName
<1>3. /\ t \in Task /\ t.pc = "build" /\ t.op = "create" /\ t.cn = cn
      /\ t.label = l
  BY <1>2 DEF Idle, Task, Pc, QueuedPc
<1>4. /\ Uninterrupted /\ UNCHANGED <<row, pkiVars>> /\ s \in Slot
      /\ phase' = "up"
  BY DEF Create, Free, Slot
<1>5. task[s].pc \notin QueuedPc
  BY <1>4, FreeLemma DEF Create, IInv
<1> HIDE DEF t
<1> QED
  BY <1>1, <1>2, <1>3, <1>4, <1>5, RequestLemma DEF t

LEMMA RenewIInv ==
  ASSUME IInv, NEW s \in Req, NEW id \in CN, NEW pw \in BOOLEAN,
         Renew(s, id, pw)
  PROVE  IInv'
<1> DEFINE l == row[id].name
<1>1. PICK cn \in UniqueCommonName(l) :
        Enqueue(s, [Idle EXCEPT !.op = "renew", !.pc = "build", !.cn = cn,
                                !.label = l, !.old = id, !.password = pw])
  BY DEF Renew
<1> DEFINE t == [Idle EXCEPT !.op = "renew", !.pc = "build", !.cn = cn,
                             !.label = l, !.old = id, !.password = pw]
<1>2. l \in Label /\ HasRow(id)
  BY DEF Renew, HasRow, IInv, TypeOK, Row
<1>3. cn \in CN /\ ~HasRow(cn)
  BY <1>2, CandidatesAssumption DEF UniqueCommonName
<1>4. /\ t \in Task /\ t.pc = "build" /\ t.op = "renew" /\ t.cn = cn
      /\ t.label = l /\ t.old = id
  BY <1>2, <1>3 DEF Idle, Task, Pc, QueuedPc
<1>5. /\ Uninterrupted /\ UNCHANGED <<row, pkiVars>> /\ s \in Slot
      /\ phase' = "up"
  BY DEF Renew, Free, Slot
<1>6. task[s].pc \notin QueuedPc
  BY <1>5, FreeLemma DEF Renew, IInv
<1> HIDE DEF t
<1> QED
  BY <1>1, <1>2, <1>3, <1>4, <1>5, <1>6, RequestLemma DEF t

LEMMA RevokeIInv ==
  ASSUME IInv, NEW s \in Req, NEW id \in CN, Revoke(s, id)
  PROVE  IInv'
<1> DEFINE t == [Idle EXCEPT !.op = "revoke", !.pc = "revoke", !.cn = id]
<1>1. t \in Task /\ t.pc = "revoke" /\ t.op = "revoke" /\ t.cn = id
  BY DEF Idle, Task, Pc, QueuedPc
<1>2. /\ Uninterrupted /\ UNCHANGED <<row, pkiVars>> /\ s \in Slot
      /\ Enqueue(s, t) /\ HasRow(id) /\ phase' = "up"
  BY DEF Revoke, Free, Slot
<1>3. task[s].pc \notin QueuedPc
  BY <1>2, FreeLemma DEF Revoke, IInv
<1> HIDE DEF t
<1> QED
  BY <1>1, <1>2, <1>3, RequestLemma

LEMMA DownloadIInv ==
  ASSUME IInv, NEW s \in Req, NEW id \in CN, DownloadProfile(s, id)
  PROVE  IInv'
<1> DEFINE t == [Idle EXCEPT !.op = "download", !.pc = "profile", !.cn = id]
<1>1. t \in Task /\ t.pc = "profile" /\ t.op = "download" /\ t.cn = id
  BY DEF Idle, Task, Pc, QueuedPc
<1>2. /\ Uninterrupted /\ UNCHANGED <<row, pkiVars>> /\ s \in Slot
      /\ Enqueue(s, t) /\ HasRow(id) /\ phase' = "up"
  BY DEF DownloadProfile, Free, Slot
<1>3. task[s].pc \notin QueuedPc
  BY <1>2, FreeLemma DEF DownloadProfile, IInv
<1> HIDE DEF t
<1> QED
  BY <1>1, <1>2, <1>3, RequestLemma

LEMMA RefreshIInv ==
  ASSUME IInv, RefreshCrl
  PROVE  IInv'
<1> DEFINE t == [Idle EXCEPT !.op = "refresh", !.pc = "gencrl"]
<1>1. t \in Task /\ t.pc = "gencrl" /\ t.op = "refresh"
  BY DEF Idle, Task, Pc, QueuedPc
<1>2. /\ Uninterrupted /\ UNCHANGED <<row, pkiVars>> /\ Cron \in Slot
      /\ phase' = "up" /\ Enqueue(Cron, t) /\ task[Cron].pc \notin QueuedPc
  BY DEF RefreshCrl, Slot, QueuedPc
<1> HIDE DEF t
<1> QED
  BY <1>1, <1>2, RequestLemma

(***************************************************************************)
(* Issuance.                                                               *)
(***************************************************************************)
\* A step takes place in a running process, outside a renewal's two statements.
LEMMA AtLemma ==
  ASSUME IInv, NEW s \in Slot, NEW pc \in QueuedPc, At(s, pc)
  PROVE  /\ task[s].pc = pc /\ ahead[s] = {} /\ task[s] \in Task
         /\ phase # "down"
         /\ \A u \in Slot : task[u].pc # "supersede"
  BY IdleType DEF At, IInv, PhaseInv, Uninterrupted, TypeOK, QueuedPc

\* The operation at the head fails: what is left is what it did to the PKI.
LEMMA FailLemma ==
  ASSUME IInv, NEW s \in Slot, NEW pc \in QueuedPc, At(s, pc), Fail(s),
         UNCHANGED row, PkiTypeOK', RowInv', FlagHonest',
         \A u \in Slot : u # s => /\ task[u].pc = "build" => cert'[task[u].cn] # "revoked"
                                  /\ Revoking(u) /\ task[u].pc # "revoke"
                                       => cert'[task[u].cn] = "revoked"
  PROVE  IInv'
<1> USE DEF IInv
<1>1. /\ task[s].pc = pc /\ ahead[s] = {} /\ phase # "down"
      /\ \A u \in Slot : task[u].pc # "supersede"
  BY AtLemma
<1>2. /\ task' \in [Slot -> Task] /\ ahead' \in [Slot -> SUBSET Slot]
      /\ phase' \in {"down", "booting", "up"}
      /\ task'[s] = Idle
      /\ \A u \in Slot : u # s => task'[u] = task[u]
      /\ \A u \in Slot : ahead'[u] = ahead[u] \ {s}
      /\ QueueInv'
  BY <1>1, IdleType, SettleLemma DEF Fail, QueuedPc
<1>3. \A u \in Slot : u # s => ~Started(u)
  BY <1>1, OneStarted
<1>4. TypeOK' /\ PhaseInv'
  BY <1>1, <1>2 DEF TypeOK, PhaseInv, Fail, Settle
<1>5. StartedInv'
  BY <1>2, <1>3, IdleType DEF StartedInv, Started
<1>6. IssueInv'
  BY <1>2, <1>3, IdleType DEF IssueInv, Issuing, Started, HasRow
<1>7. RevokeInv'
  BY <1>2, <1>3, IdleType DEF RevokeInv, Revoking, Started, HasRow, QueuedPc
<1>8. BuildBeforeRevoke'
  BY <1>1, <1>2, IdleType DEF BuildBeforeRevoke, Revoking, QueuedPc
<1>9. SupersedeInv' /\ NameKeepsACredential'
  BY <1>1, <1>2, IdleType DEF SupersedeInv, NameKeepsACredential, HasRow
<1>10. DownloadInv'
  BY <1>2, IdleType DEF DownloadInv, HasRow
<1> QED
  BY <1>2, <1>4, <1>5, <1>6, <1>7, <1>8, <1>9, <1>10

\* A certificate that is about to be built has no row and is in no CRL.
LEMMA BuildLemma ==
  ASSUME IInv, NEW s \in Slot, At(s, "build"), CanBuild(task[s].cn)
  PROVE  LET cn == task[s].cn IN
         /\ cn \in CN /\ cert[cn] = "absent" /\ ~HasRow(cn) /\ cn \notin crl
         /\ key[cn] = "none"
         /\ \A u \in Slot : Revoking(u) => task[u].cn # cn
<1> USE DEF IInv
<1>1. task[s].pc = "build"
  BY DEF At
<1>2. task[s].cn \in CN /\ cert[task[s].cn] = "absent"
  BY <1>1 DEF IssueInv, Issuing, CanBuild, TypeOK, PkiTypeOK
<1>3. ~HasRow(task[s].cn) /\ task[s].cn \notin crl
  BY <1>2 DEF RowInv
<1> QED
  BY <1>2, <1>3 DEF RevokeInv, CanBuild

LEMMA BuildIInv ==
  ASSUME IInv, NEW s \in Slot, Build(s)
  PROVE  IInv'
<1> USE DEF IInv
<1> DEFINE cn == task[s].cn
<1>1. /\ At(s, "build") /\ UNCHANGED row
      /\ task[s].pc = "build" /\ ahead[s] = {} /\ task[s] \in Task
      /\ phase # "down"
      /\ \A u \in Slot : task[u].pc # "supersede"
  BY AtLemma DEF Build, QueuedPc
<1>2. \A u \in Slot : ~Started(u)
  BY <1>1, OneStarted DEF Started, QueuedPc
<1>3. CASE /\ BuildClientFull(cn) /\ UNCHANGED phase
           /\ Advance(s, IF task[s].password THEN "encrypt" ELSE "store")
  <2> DEFINE pc == IF task[s].password THEN "encrypt" ELSE "store"
  <2>1. /\ task' \in [Slot -> Task] /\ ahead' = ahead
        /\ task'[s] = [task[s] EXCEPT !.pc = pc]
        /\ \A u \in Slot : u # s => task'[u] = task[u]
        /\ QueueInv'
    BY <1>1, <1>3, AdvanceLemma DEF QueuedPc
  <2>2. /\ cn \in CN /\ cert[cn] = "absent" /\ ~HasRow(cn) /\ cn \notin crl
        /\ key[cn] = "none"
        /\ \A u \in Slot : Revoking(u) => task[u].cn # cn
    BY <1>1, <1>3, BuildLemma DEF BuildClientFull
  <2>3. /\ cert' = [cert EXCEPT ![cn] = "valid"]
        /\ key' = [key EXCEPT ![cn] = "plain"]
        /\ UNCHANGED <<ca, crl, crlReadable, phase, row>>
    BY <1>1, <1>3 DEF BuildClientFull
  <2>4. task[s].password \in BOOLEAN
    BY <1>1 DEF Task
  <2>5. TypeOK' /\ PhaseInv'
    BY <1>1, <2>1, <2>3 DEF TypeOK, PkiTypeOK, PhaseInv
  <2>6. StartedInv'
    BY <1>1, <2>1 DEF StartedInv, Started
  <2>7. IssueInv'
    <3> SUFFICES ASSUME NEW u \in Slot
                 PROVE  IssueInv!(u)'
      BY DEF IssueInv
    <3>1. CASE u = s
      BY <1>1, <2>1, <2>2, <2>3, <2>4, <3>1
      DEF IssueInv, Issuing, HasRow, TypeOK, PkiTypeOK, Task
    <3>2. CASE u # s
      BY <1>2, <2>1, <2>2, <2>3, <3>2
      DEF IssueInv, Issuing, Started, HasRow, TypeOK, PkiTypeOK
    <3> QED
      BY <3>1, <3>2
  <2>8. RevokeInv'
    <3>1. ~Revoking(s) /\ ~Revoking(s)'
      BY <1>1, <2>1 DEF Revoking, IssueInv, Issuing, Task
    <3> QED
      BY <1>1, <2>1, <2>2, <2>3, <3>1
      DEF RevokeInv, Revoking, HasRow, TypeOK, PkiTypeOK, Task
  <2>9. BuildBeforeRevoke'
    BY <1>1, <2>1 DEF BuildBeforeRevoke, Revoking, IssueInv, Issuing, Task
  <2>10. RowInv' /\ FlagHonest' /\ NameKeepsACredential'
    BY <2>2, <2>3 DEF RowInv, FlagHonest, NameKeepsACredential, HasRow,
                      TypeOK, PkiTypeOK
  <2>11. SupersedeInv' /\ DownloadInv'
    BY <1>1, <2>1, <2>3 DEF SupersedeInv, DownloadInv, HasRow, Task
  <2> QED
    BY <2>1, <2>5, <2>6, <2>7, <2>8, <2>9, <2>10, <2>11
<1>4. CASE /\ Fail(s)
           /\ \/ UNCHANGED pkiVars
              \/ BuildOnlyKey(cn)
              \/ BuildClientFull(cn)
  <2>1. PkiTypeOK' /\ RowInv' /\ FlagHonest'
    <3>1. CASE UNCHANGED pkiVars
      BY <1>1, <3>1 DEF pkiVars, PkiTypeOK, RowInv, FlagHonest, HasRow, TypeOK
    <3>2. CASE BuildOnlyKey(cn) \/ BuildClientFull(cn)
      <4>1. CanBuild(cn)
        BY <3>2 DEF BuildOnlyKey, BuildClientFull
      <4>2. cn \in CN /\ cert[cn] = "absent" /\ ~HasRow(cn) /\ cn \notin crl
        BY <1>1, <4>1, BuildLemma
      <4>3. UNCHANGED <<ca, crl, crlReadable, row>>
        BY <1>1, <3>2 DEF BuildOnlyKey, BuildClientFull
      <4>4. /\ cert' \in {cert, [cert EXCEPT ![cn] = "valid"]}
            /\ key' = [key EXCEPT ![cn] = "plain"]
        BY <3>2 DEF BuildOnlyKey, BuildClientFull
      <4> QED
        BY <4>2, <4>3, <4>4 DEF PkiTypeOK, RowInv, FlagHonest, HasRow, TypeOK
    <3> QED
      BY <1>4, <3>1, <3>2
  <2>2. ASSUME NEW u \in Slot, u # s
        PROVE  /\ task[u].pc = "build" => cert'[task[u].cn] # "revoked"
               /\ Revoking(u) /\ task[u].pc # "revoke"
                    => cert'[task[u].cn] = "revoked"
    <3>1. CASE UNCHANGED pkiVars
      BY <3>1 DEF pkiVars, IssueInv, RevokeInv
    <3>2. CASE BuildOnlyKey(cn)
      BY <3>2 DEF BuildOnlyKey, IssueInv, RevokeInv
    <3>3. CASE BuildClientFull(cn)
      <4>1. \A v \in Slot : Revoking(v) => task[v].cn # cn
        BY <1>1, <3>3, BuildLemma DEF BuildClientFull
      <4>2. cn \in CN /\ cert' = [cert EXCEPT ![cn] = "valid"]
        BY <1>1, <3>3, BuildLemma DEF BuildClientFull
      <4> QED
        BY <4>1, <4>2 DEF IssueInv, Issuing, RevokeInv, TypeOK, PkiTypeOK
    <3> QED
      BY <1>4, <3>1, <3>2, <3>3
  <2> QED
    BY <1>1, <1>4, <2>1, <2>2, FailLemma DEF QueuedPc
<1> QED
  BY <1>3, <1>4 DEF Build

LEMMA EncryptIInv ==
  ASSUME IInv, NEW s \in Slot, EncryptPrivateKey(s)
  PROVE  IInv'
<1> USE DEF IInv
<1> DEFINE cn == task[s].cn
<1>1. /\ At(s, "encrypt") /\ UNCHANGED row
      /\ task[s].pc = "encrypt" /\ ahead[s] = {} /\ task[s] \in Task
      /\ phase # "down"
      /\ \A u \in Slot : task[u].pc # "supersede"
  BY AtLemma DEF EncryptPrivateKey, QueuedPc
<1>2. \A u \in Slot : u # s => ~Started(u)
  BY <1>1, OneStarted DEF Started, QueuedPc
<1>3. cn \in CN /\ ~HasRow(cn) /\ cert[cn] = "valid" /\ task[s].password = TRUE
  BY <1>1 DEF IssueInv, Issuing, Task
<1>4. CASE /\ key' = [key EXCEPT ![cn] = "encrypted"]
           /\ Advance(s, "store")
           /\ UNCHANGED <<phase, ca, cert, crl, crlReadable>>
  <2>1. /\ task' \in [Slot -> Task] /\ ahead' = ahead
        /\ task'[s] = [task[s] EXCEPT !.pc = "store"]
        /\ \A u \in Slot : u # s => task'[u] = task[u]
        /\ QueueInv'
    BY <1>1, <1>4, AdvanceLemma DEF QueuedPc
  <2>2. TypeOK' /\ PhaseInv'
    BY <1>1, <1>4, <2>1 DEF TypeOK, PkiTypeOK, PhaseInv
  <2>3. StartedInv'
    BY <1>1, <2>1 DEF StartedInv, Started
  <2>4. IssueInv'
    <3> SUFFICES ASSUME NEW u \in Slot
                 PROVE  IssueInv!(u)'
      BY DEF IssueInv
    <3>1. CASE u = s
      BY <1>1, <1>3, <1>4, <2>1, <3>1
      DEF IssueInv, Issuing, HasRow, TypeOK, PkiTypeOK, Task
    <3>2. CASE u # s
      BY <1>1, <1>2, <1>4, <2>1, <3>2 DEF IssueInv, Issuing, Started, HasRow
    <3> QED
      BY <3>1, <3>2
  <2>5. RevokeInv' /\ BuildBeforeRevoke'
    <3>1. ~Revoking(s) /\ ~Revoking(s)'
      BY <1>1, <2>1 DEF Revoking, IssueInv, Issuing, Task
    <3> QED
      BY <1>1, <1>4, <2>1, <3>1
      DEF RevokeInv, BuildBeforeRevoke, Revoking, HasRow, Task
  <2>6. RowInv' /\ FlagHonest' /\ NameKeepsACredential'
    BY <1>1, <1>3, <1>4 DEF RowInv, FlagHonest, NameKeepsACredential, HasRow,
                            TypeOK, PkiTypeOK
  <2>7. SupersedeInv' /\ DownloadInv'
    BY <1>1, <2>1 DEF SupersedeInv, DownloadInv, HasRow, Task
  <2> QED
    BY <2>1, <2>2, <2>3, <2>4, <2>5, <2>6, <2>7
<1>5. CASE Fail(s) /\ UNCHANGED pkiVars
  <2>1. PkiTypeOK' /\ RowInv' /\ FlagHonest'
    BY <1>1, <1>5 DEF pkiVars, PkiTypeOK, RowInv, FlagHonest, HasRow, TypeOK
  <2> QED
    BY <1>1, <1>5, <2>1, FailLemma DEF QueuedPc, pkiVars, IssueInv, RevokeInv
<1> QED
  BY <1>4, <1>5 DEF EncryptPrivateKey

\* The operation at the head fails or ends without having touched the PKI.
LEMMA PlainFailLemma ==
  ASSUME IInv, NEW s \in Slot, NEW pc \in QueuedPc, At(s, pc), Fail(s),
         UNCHANGED <<row, pkiVars>>
  PROVE  IInv'
<1>1. PkiTypeOK' /\ RowInv' /\ FlagHonest'
  BY DEF pkiVars, PkiTypeOK, RowInv, FlagHonest, HasRow, TypeOK, IInv
<1> QED
  BY <1>1, FailLemma DEF pkiVars, IssueInv, RevokeInv, IInv

LEMMA StoreIInv ==
  ASSUME IInv, NEW s \in Slot, Store(s)
  PROVE  IInv'
<1> USE DEF IInv
<1> DEFINE cn == task[s].cn
           t == [task[s] EXCEPT !.pc = IF task[s].op = "renew" THEN "supersede"
                                                               ELSE "ok"]
<1>1. /\ At(s, "store") /\ UNCHANGED pkiVars
      /\ task[s].pc = "store" /\ ahead[s] = {} /\ task[s] \in Task
      /\ phase # "down"
      /\ \A u \in Slot : task[u].pc # "supersede"
  BY AtLemma DEF Store, QueuedPc
<1>2. \A u \in Slot : u # s => ~Started(u)
  BY <1>1, OneStarted DEF Started, QueuedPc
<1>3. /\ cn \in CN /\ ~HasRow(cn) /\ cert[cn] = "valid" /\ cn \notin crl
      /\ task[s].label \in Label
      /\ key[cn] = IF task[s].password THEN "encrypted" ELSE "plain"
      /\ task[s].op = "renew" => /\ task[s].old \in CN /\ HasRow(task[s].old)
                                 /\ row[task[s].old].name = task[s].label
  BY <1>1 DEF IssueInv, Issuing, RowInv
<1>4. CASE /\ row' = [row EXCEPT ![cn] = NewRow(s)]
           /\ Settle(s, t)
  <2>1. /\ t \in Task /\ t.pc \in {"supersede", "ok"}
        /\ t.cn = cn /\ t.old = task[s].old /\ t.op = task[s].op
        /\ t.pc = "supersede" => t.op = "renew"
    BY <1>1 DEF Task, Pc
  <2> HIDE DEF t
  <2>2. /\ task' \in [Slot -> Task] /\ ahead' \in [Slot -> SUBSET Slot]
        /\ phase' \in {"down", "booting", "up"}
        /\ task'[s] = t
        /\ \A u \in Slot : u # s => task'[u] = task[u]
        /\ \A u \in Slot : ahead'[u] = ahead[u] \ {s}
        /\ QueueInv'
    BY <1>1, <1>4, <2>1, SettleLemma DEF QueuedPc
  <2>3. /\ UNCHANGED <<ca, cert, key, crl, crlReadable>>
        /\ \A c \in CN : c # cn => row'[c] = row[c]
        /\ row'[cn] = NewRow(s) /\ NewRow(s) \in Row
        /\ row' \in [CN -> Row \union {NoRow}]
    BY <1>1, <1>3, <1>4 DEF pkiVars, TypeOK, NewRow, Row, Task
  <2>4. /\ \A c \in CN : HasRow(c)' <=> c = cn \/ HasRow(c)
        /\ row'[cn].name = task[s].label /\ row'[cn].status = "ACTIVE"
        /\ row'[cn].superseded = FALSE
        /\ row'[cn].hasPassword = task[s].password
    <3>1. \A c \in CN : HasRow(c)' <=> c = cn \/ HasRow(c)
      BY <1>3, <2>3, NilAssumption DEF HasRow
    <3> QED
      BY <2>3, <3>1 DEF NewRow
  <2>5. TypeOK' /\ PhaseInv'
    BY <1>1, <1>4, <2>2, <2>3 DEF TypeOK, PkiTypeOK, PhaseInv, Settle
  <2>6. StartedInv'
    BY <1>2, <2>1, <2>2 DEF StartedInv, Started
  <2>7. IssueInv'
    <3> SUFFICES ASSUME NEW u \in Slot
                 PROVE  IssueInv!(u)'
      BY DEF IssueInv
    <3>1. CASE u = s
      BY <2>1, <2>2, <3>1 DEF Issuing
    <3>2. CASE u # s
      BY <1>2, <1>3, <2>2, <2>3, <2>4, <3>2 DEF IssueInv, Issuing, Started
    <3> QED
      BY <3>1, <3>2
  <2>8. RevokeInv' /\ BuildBeforeRevoke' /\ DownloadInv'
    <3>1. ~Revoking(s)'
      BY <2>1, <2>2 DEF Revoking, QueuedPc
    <3> QED
      BY <1>1, <2>1, <2>2, <2>3, <2>4, <3>1
      DEF RevokeInv, BuildBeforeRevoke, Revoking, DownloadInv
  <2>9. RowInv'
    BY <1>3, <2>3, <2>4 DEF RowInv
  <2>10. FlagHonest'
    BY <1>1, <1>3, <2>3, <2>4 DEF FlagHonest, Task
  <2>11. NameKeepsACredential'
    BY <1>3, <2>3, <2>4 DEF NameKeepsACredential
  <2>12. SupersedeInv'
    <3>1. t.pc = "supersede" =>
            /\ t.cn \in CN /\ t.old \in CN /\ t.cn # t.old
            /\ row'[t.cn] # NoRow /\ row'[t.old] # NoRow
            /\ row'[t.cn].status = "ACTIVE"
            /\ ~row'[t.cn].superseded
            /\ row'[t.cn].name = row'[t.old].name
      BY <1>3, <2>1, <2>3, <2>4 DEF HasRow
    <3> QED
      BY <1>1, <2>2, <3>1 DEF SupersedeInv, HasRow
  <2> QED
    BY <2>2, <2>5, <2>6, <2>7, <2>8, <2>9, <2>10, <2>11, <2>12
<1>5. CASE Fail(s) /\ UNCHANGED row
  BY <1>1, <1>5, PlainFailLemma DEF QueuedPc
<1> QED
  BY <1>4, <1>5 DEF Store

LEMMA SupersedeIInv ==
  ASSUME IInv, NEW s \in Slot, Supersede(s)
  PROVE  IInv'
<1> USE DEF IInv
<1> DEFINE old == task[s].old
<1>1. /\ task[s].pc = "supersede" /\ task[s] \in Task
      /\ task[s].cn \in CN /\ old \in CN /\ task[s].cn # old
      /\ HasRow(task[s].cn) /\ HasRow(old)
      /\ ~row[task[s].cn].superseded
      /\ row[task[s].cn].name = row[old].name
      /\ \A u \in Slot : u # s => task[u].pc # "supersede"
  BY DEF Supersede, SupersedeInv, TypeOK
<1>2. UNCHANGED <<phase, ahead, ca, cert, key, crl, crlReadable>>
  BY DEF Supersede, pkiVars
<1>3. /\ row' \in {row, [row EXCEPT ![old].superseded = TRUE]}
      /\ \/ task' = [task EXCEPT ![s] = Done(s)]
         \/ task' = [task EXCEPT ![s] = Idle]
  BY DEF Supersede
<1>4. /\ task' \in [Slot -> Task]
      /\ task'[s].pc \in {"ok", "idle"}
      /\ \A u \in Slot : u # s => task'[u] = task[u]
  BY <1>1, <1>3, IdleType DEF TypeOK, Done, Task, Pc
<1>5. /\ \A c \in CN : /\ HasRow(c)' <=> HasRow(c)
                       /\ c # old => row'[c] = row[c]
      /\ row'[old].name = row[old].name
      /\ row'[old].status = row[old].status
      /\ row'[old].hasPassword = row[old].hasPassword
      /\ row' \in [CN -> Row \union {NoRow}]
  <2>1. CASE row' = row
    BY <2>1 DEF TypeOK, HasRow
  <2>2. CASE row' = [row EXCEPT ![old].superseded = TRUE]
    <3>1. row[old] \in Row
      BY <1>1 DEF TypeOK, HasRow
    <3>2. /\ row'[old] = [row[old] EXCEPT !.superseded = TRUE]
          /\ \A c \in CN : c # old => row'[c] = row[c]
          /\ row' = [c \in CN |-> row'[c]]
      BY <1>1, <2>2 DEF TypeOK
    <3>3. /\ row'[old] \in Row
          /\ row'[old].name = row[old].name
          /\ row'[old].status = row[old].status
          /\ row'[old].hasPassword = row[old].hasPassword
      BY <3>1, <3>2 DEF Row
    <3>4. row' \in [CN -> Row \union {NoRow}]
      BY <3>2, <3>3 DEF TypeOK
    <3> QED
      BY <1>1, <3>2, <3>3, <3>4, NilAssumption DEF HasRow
  <2> QED
    BY <1>3, <2>1, <2>2
<1>6. TypeOK' /\ PhaseInv'
  BY <1>1, <1>2, <1>4, <1>5, IdleType DEF TypeOK, PkiTypeOK, PhaseInv
<1>7. QueueInv'
  <2>1. Queued' = Queued
    BY <1>1, <1>4 DEF Queued, QueuedPc
  <2> QED
    BY <1>2, <2>1 DEF QueueInv
<1>8. StartedInv'
  BY <1>2, <1>4 DEF StartedInv, Started
<1>9. IssueInv'
  <2> SUFFICES ASSUME NEW u \in Slot
               PROVE  IssueInv!(u)'
    BY DEF IssueInv
  <2>1. CASE u = s
    BY <1>4, <2>1 DEF Issuing
  <2>2. CASE u # s
    BY <1>2, <1>4, <1>5, <2>2 DEF IssueInv, Issuing, TypeOK, Task
  <2> QED
    BY <2>1, <2>2
<1>10. RevokeInv' /\ BuildBeforeRevoke' /\ DownloadInv'
  BY <1>2, <1>4, <1>5
  DEF RevokeInv, BuildBeforeRevoke, Revoking, DownloadInv, QueuedPc
<1>11. RowInv' /\ FlagHonest'
  BY <1>2, <1>5 DEF RowInv, FlagHonest
<1>12. NameKeepsACredential'
  <2> SUFFICES ASSUME NEW c \in CN, HasRow(c)'
               PROVE  \E new \in CN : /\ HasRow(new)'
                                      /\ row'[new].name = row'[c].name
                                      /\ ~row'[new].superseded
    BY DEF NameKeepsACredential
  <2>1. row'[c].name = row[c].name /\ HasRow(c)
    BY <1>5
  <2>2. CASE row[c].name = row[old].name
    BY <1>1, <1>5, <2>1, <2>2
  <2>3. CASE row[c].name # row[old].name
    BY <1>5, <2>1, <2>3 DEF NameKeepsACredential
  <2> QED
    BY <2>2, <2>3
<1>13. SupersedeInv'
  BY <1>1, <1>4 DEF SupersedeInv
<1> QED
  BY <1>6, <1>7, <1>8, <1>9, <1>10, <1>11, <1>12, <1>13

LEMMA ReadProfileIInv ==
  ASSUME IInv, NEW s \in Slot, ReadProfile(s)
  PROVE  IInv'
<1> USE DEF IInv
<1>1. /\ At(s, "profile") /\ UNCHANGED <<row, pkiVars>>
      /\ task[s].pc = "profile" /\ ahead[s] = {} /\ task[s] \in Task
      /\ phase # "down"
      /\ \A u \in Slot : task[u].pc # "supersede"
  BY AtLemma DEF ReadProfile, QueuedPc
<1>2. CASE Settle(s, Done(s))
  <2>1. Done(s) \in Task /\ Done(s).pc = "ok"
    BY <1>1 DEF Done, Task, Pc
  <2>2. /\ task' \in [Slot -> Task] /\ ahead' \in [Slot -> SUBSET Slot]
        /\ phase' \in {"down", "booting", "up"}
        /\ task'[s] = Done(s)
        /\ \A u \in Slot : u # s => task'[u] = task[u]
        /\ \A u \in Slot : ahead'[u] = ahead[u] \ {s}
        /\ QueueInv'
    BY <1>1, <1>2, <2>1, SettleLemma DEF QueuedPc
  <2>3. UNCHANGED <<ca, cert, key, crl, crlReadable, row>>
    BY <1>1 DEF pkiVars
  <2>4. TypeOK' /\ PhaseInv'
    BY <1>1, <1>2, <2>2, <2>3 DEF TypeOK, PkiTypeOK, PhaseInv, Settle
  <2>5. StartedInv' /\ RevokeInv' /\ BuildBeforeRevoke' /\ DownloadInv'
    BY <1>1, <2>1, <2>2, <2>3
    DEF StartedInv, Started, RevokeInv, Revoking, BuildBeforeRevoke,
        DownloadInv, HasRow, QueuedPc
  <2>6. IssueInv'
    BY <2>1, <2>2, <2>3 DEF IssueInv, Issuing, HasRow
  <2>7. RowInv' /\ FlagHonest' /\ NameKeepsACredential' /\ SupersedeInv'
    BY <1>1, <2>1, <2>2, <2>3
    DEF RowInv, FlagHonest, NameKeepsACredential, SupersedeInv, HasRow
  <2> QED
    BY <2>2, <2>4, <2>5, <2>6, <2>7
<1>3. CASE Fail(s)
  BY <1>1, <1>3, PlainFailLemma DEF QueuedPc
<1> QED
  BY <1>2, <1>3 DEF ReadProfile

(***************************************************************************)
(* Revocation and refresh.                                                 *)
(***************************************************************************)
\* Nothing that was queued before a revocation at the head is left, so no
\* build of its certificate is.
LEMMA NoBuildLeft ==
  ASSUME IInv, NEW s \in Slot, Revoking(s), ahead[s] = {}
  PROVE  \A u \in Slot : task[u].pc = "build" => task[u].cn # task[s].cn
  BY DEF IInv, BuildBeforeRevoke

\* Revoking the certificate of a row keeps what the table says true.
LEMMA RevokeCertLemma ==
  ASSUME IInv, NEW s \in Slot, At(s, "revoke"), RevokeCert(task[s].cn),
         UNCHANGED row
  PROVE  LET cn == task[s].cn IN
         /\ cn \in CN /\ HasRow(cn)
         /\ cert' = [cert EXCEPT ![cn] = "revoked"]
         /\ UNCHANGED <<ca, crl, crlReadable>>
         /\ PkiTypeOK' /\ RowInv' /\ FlagHonest'
         /\ \A u \in Slot : task[u].pc = "build" => cert'[task[u].cn] # "revoked"
         /\ \A u \in Slot : Revoking(u) /\ task[u].pc # "revoke"
                              => cert'[task[u].cn] = "revoked"
<1> USE DEF IInv
<1> DEFINE cn == task[s].cn
<1>1. task[s].pc = "revoke" /\ ahead[s] = {} /\ Revoking(s)
  BY AtLemma DEF QueuedPc, RevokeInv, Revoking
<1>2. cn \in CN /\ HasRow(cn) /\ cert[cn] = "valid"
  BY <1>1 DEF RevokeInv, RevokeCert
<1>3. /\ cert' = [cert EXCEPT ![cn] = "revoked"]
      /\ key' = [key EXCEPT ![cn] = "none"]
      /\ UNCHANGED <<ca, crl, crlReadable>>
  BY DEF RevokeCert
<1>4. PkiTypeOK' /\ RowInv' /\ FlagHonest'
  BY <1>2, <1>3 DEF PkiTypeOK, RowInv, FlagHonest, HasRow, TypeOK
<1>5. \A u \in Slot : task[u].pc = "build" => cert'[task[u].cn] # "revoked"
  BY <1>1, <1>3, NoBuildLeft DEF IssueInv, Issuing, TypeOK, PkiTypeOK
<1>6. \A u \in Slot : Revoking(u) /\ task[u].pc # "revoke"
                        => cert'[task[u].cn] = "revoked"
  BY <1>3 DEF RevokeInv, TypeOK, PkiTypeOK
<1> QED
  BY <1>2, <1>3, <1>4, <1>5, <1>6

LEMMA RevokeStepIInv ==
  ASSUME IInv, NEW s \in Slot, RevokeStep(s)
  PROVE  IInv'
<1> USE DEF IInv
<1> DEFINE cn == task[s].cn
<1>1. /\ At(s, "revoke") /\ UNCHANGED row
      /\ task[s].pc = "revoke" /\ ahead[s] = {} /\ task[s] \in Task
      /\ phase # "down"
      /\ \A u \in Slot : task[u].pc # "supersede"
  BY AtLemma DEF RevokeStep, QueuedPc
<1>2. \A u \in Slot : ~Started(u)
  BY <1>1, OneStarted DEF Started, QueuedPc
<1>3. CASE RevokeCert(cn) /\ Advance(s, "gencrl") /\ UNCHANGED phase
  <2>1. /\ task' \in [Slot -> Task] /\ ahead' = ahead
        /\ task'[s] = [task[s] EXCEPT !.pc = "gencrl"]
        /\ \A u \in Slot : u # s => task'[u] = task[u]
        /\ QueueInv'
    BY <1>1, <1>3, AdvanceLemma DEF QueuedPc
  <2>2. /\ task'[s].pc = "gencrl" /\ task'[s].op = "revoke"
        /\ task'[s].cn = cn
    BY <1>1, <2>1 DEF Task, RevokeInv
  <2>3. /\ cn \in CN /\ HasRow(cn)
        /\ cert' = [cert EXCEPT ![cn] = "revoked"]
        /\ UNCHANGED <<ca, crl, crlReadable>>
        /\ PkiTypeOK' /\ RowInv' /\ FlagHonest'
        /\ \A u \in Slot : task[u].pc = "build" => cert'[task[u].cn] # "revoked"
        /\ \A u \in Slot : Revoking(u) /\ task[u].pc # "revoke"
                             => cert'[task[u].cn] = "revoked"
    BY <1>1, <1>3, RevokeCertLemma
  <2>4. TypeOK' /\ PhaseInv'
    BY <1>1, <1>3, <2>1, <2>3 DEF TypeOK, PhaseInv
  <2>5. StartedInv'
    BY <1>1, <1>2, <2>1 DEF StartedInv, Started
  <2>6. IssueInv'
    <3> SUFFICES ASSUME NEW u \in Slot
                 PROVE  IssueInv!(u)'
      BY DEF IssueInv
    <3>1. CASE u = s
      BY <2>2, <3>1 DEF Issuing
    <3>2. CASE u # s
      BY <1>1, <1>2, <2>1, <2>3, <3>2 DEF IssueInv, Issuing, Started, HasRow
    <3> QED
      BY <3>1, <3>2
  <2>7. RevokeInv'
    <3> SUFFICES ASSUME NEW u \in Slot
                 PROVE  RevokeInv!(u)'
      BY DEF RevokeInv
    <3>1. cert'[cn] = "revoked"
      BY <2>3 DEF TypeOK, PkiTypeOK
    <3>2. CASE u = s
      BY <1>1, <2>1, <2>2, <2>3, <3>1, <3>2 DEF RevokeInv, Revoking, HasRow, QueuedPc
    <3>3. CASE u # s
      BY <1>1, <2>1, <2>3, <3>3 DEF RevokeInv, Revoking, HasRow
    <3> QED
      BY <3>2, <3>3
  <2>8. BuildBeforeRevoke'
    <3> SUFFICES ASSUME NEW v \in Slot, NEW u \in Slot,
                        task'[v].pc = "build", Revoking(u)',
                        task'[v].cn = task'[u].cn
                 PROVE  v \in ahead'[u]
      BY DEF BuildBeforeRevoke
    <3>1. v # s /\ task[v].pc = "build" /\ task'[v].cn = task[v].cn
      BY <2>1, <2>2
    <3>2. Revoking(s)
      BY <1>1 DEF RevokeInv, Revoking, QueuedPc
    <3>3. u # s
      BY <1>1, <2>2, <3>1, <3>2, NoBuildLeft
    <3> QED
      BY <2>1, <3>1, <3>3 DEF BuildBeforeRevoke, Revoking
  <2>9. SupersedeInv' /\ DownloadInv' /\ NameKeepsACredential'
    BY <1>1, <2>1, <2>2
    DEF SupersedeInv, DownloadInv, NameKeepsACredential, HasRow
  <2> QED
    BY <2>1, <2>3, <2>4, <2>5, <2>6, <2>7, <2>8, <2>9
<1>4. CASE Fail(s) /\ UNCHANGED pkiVars
  BY <1>1, <1>4, PlainFailLemma DEF QueuedPc
<1>5. CASE Fail(s) /\ RevokeCert(cn)
  <2>1. /\ PkiTypeOK' /\ RowInv' /\ FlagHonest'
        /\ \A u \in Slot : task[u].pc = "build" => cert'[task[u].cn] # "revoked"
        /\ \A u \in Slot : Revoking(u) /\ task[u].pc # "revoke"
                             => cert'[task[u].cn] = "revoked"
    BY <1>1, <1>5, RevokeCertLemma
  <2> QED
    BY <1>1, <1>5, <2>1, FailLemma DEF QueuedPc
<1> QED
  BY <1>3, <1>4, <1>5 DEF RevokeStep

\* A new CRL lists at least what the table shows as revoked.
LEMMA GenCrlLemma ==
  ASSUME IInv, GenCrl, UNCHANGED row
  PROVE  /\ UNCHANGED <<ca, cert, key>>
         /\ \A cn \in CN : cn \in crl' <=> cert[cn] = "revoked"
         /\ PkiTypeOK' /\ RowInv' /\ FlagHonest'
  BY DEF GenCrl, IInv, PkiTypeOK, RowInv, FlagHonest, HasRow, TypeOK

LEMMA GenCrlStepIInv ==
  ASSUME IInv, NEW s \in Slot, GenCrlStep(s)
  PROVE  IInv'
<1> USE DEF IInv
<1>1. /\ At(s, "gencrl") /\ UNCHANGED row
      /\ task[s].pc = "gencrl" /\ ahead[s] = {} /\ task[s] \in Task
      /\ phase # "down"
      /\ \A u \in Slot : task[u].pc # "supersede"
  BY AtLemma DEF GenCrlStep, QueuedPc
<1>2. \A u \in Slot : u # s => ~Started(u)
  BY <1>1, OneStarted DEF QueuedPc
<1>3. CASE GenCrl /\ Advance(s, "chmod") /\ UNCHANGED phase
  <2>1. /\ task' \in [Slot -> Task] /\ ahead' = ahead
        /\ task'[s] = [task[s] EXCEPT !.pc = "chmod"]
        /\ \A u \in Slot : u # s => task'[u] = task[u]
        /\ QueueInv'
    BY <1>1, <1>3, AdvanceLemma DEF QueuedPc
  <2>2. /\ task'[s].pc = "chmod" /\ task'[s].op = task[s].op
        /\ task'[s].cn = task[s].cn
    BY <1>1, <2>1 DEF Task
  <2>3. /\ UNCHANGED <<ca, cert, key>>
        /\ \A cn \in CN : cn \in crl' <=> cert[cn] = "revoked"
        /\ PkiTypeOK' /\ RowInv' /\ FlagHonest'
    BY <1>1, <1>3, GenCrlLemma
  <2>4. TypeOK' /\ PhaseInv' /\ StartedInv'
    BY <1>1, <1>3, <2>1, <2>3 DEF TypeOK, PhaseInv, StartedInv, Started
  <2>5. IssueInv'
    <3> SUFFICES ASSUME NEW u \in Slot
                 PROVE  IssueInv!(u)'
      BY DEF IssueInv
    <3>1. CASE u = s
      BY <2>2, <3>1 DEF Issuing
    <3>2. CASE u # s
      BY <1>1, <2>1, <2>3, <3>2 DEF IssueInv, Issuing, HasRow
    <3> QED
      BY <3>1, <3>2
  <2>6. RevokeInv'
    <3> SUFFICES ASSUME NEW u \in Slot
                 PROVE  RevokeInv!(u)'
      BY DEF RevokeInv
    <3>1. CASE u = s
      BY <1>1, <2>1, <2>2, <2>3, <3>1 DEF RevokeInv, Revoking, HasRow, QueuedPc
    <3>2. CASE u # s
      BY <1>1, <1>2, <2>1, <2>3, <3>2
      DEF RevokeInv, Revoking, Started, HasRow, QueuedPc
    <3> QED
      BY <3>1, <3>2
  <2>7. BuildBeforeRevoke'
    <3> SUFFICES ASSUME NEW v \in Slot, NEW u \in Slot,
                        task'[v].pc = "build", Revoking(u)',
                        task'[v].cn = task'[u].cn
                 PROVE  v \in ahead'[u]
      BY DEF BuildBeforeRevoke
    <3>1. v # s /\ task[v].pc = "build" /\ task'[v].cn = task[v].cn
      BY <2>1, <2>2
    <3>2. Revoking(u) /\ task'[u].cn = task[u].cn
      BY <1>1, <2>1, <2>2 DEF Revoking, QueuedPc
    <3> QED
      BY <2>1, <3>1, <3>2 DEF BuildBeforeRevoke
  <2>8. SupersedeInv' /\ DownloadInv' /\ NameKeepsACredential'
    BY <1>1, <2>1, <2>2
    DEF SupersedeInv, DownloadInv, NameKeepsACredential, HasRow
  <2> QED
    BY <2>1, <2>3, <2>4, <2>5, <2>6, <2>7, <2>8
<1>4. CASE Fail(s) /\ UNCHANGED pkiVars
  BY <1>1, <1>4, PlainFailLemma DEF QueuedPc
<1>5. CASE Fail(s) /\ GenCrl
  BY <1>1, <1>5, GenCrlLemma, FailLemma DEF QueuedPc, IssueInv, RevokeInv
<1> QED
  BY <1>3, <1>4, <1>5 DEF GenCrlStep

LEMMA EnsureCrlReadableIInv ==
  ASSUME IInv, NEW s \in Slot, EnsureCrlReadable(s)
  PROVE  IInv'
<1> USE DEF IInv
<1>1. /\ At(s, "chmod") /\ UNCHANGED <<ca, cert, key, crl, row>>
      /\ task[s].pc = "chmod" /\ ahead[s] = {} /\ task[s] \in Task
      /\ phase # "down"
      /\ \A u \in Slot : task[u].pc # "supersede"
  BY AtLemma DEF EnsureCrlReadable, QueuedPc
<1>2. PkiTypeOK' /\ RowInv' /\ FlagHonest'
  BY <1>1 DEF EnsureCrlReadable, PkiTypeOK, RowInv, FlagHonest, HasRow, TypeOK
<1>3. CASE task[s].op = "revoke" /\ Advance(s, "mark") /\ UNCHANGED phase
  <2>1. /\ task' \in [Slot -> Task] /\ ahead' = ahead
        /\ task'[s] = [task[s] EXCEPT !.pc = "mark"]
        /\ \A u \in Slot : u # s => task'[u] = task[u]
        /\ QueueInv'
    BY <1>1, <1>3, AdvanceLemma DEF QueuedPc
  <2>2. /\ task'[s].pc = "mark" /\ task'[s].op = "revoke"
        /\ task'[s].cn = task[s].cn
    BY <1>1, <1>3, <2>1 DEF Task
  <2>3. TypeOK' /\ PhaseInv' /\ StartedInv'
    BY <1>1, <1>2, <1>3, <2>1 DEF TypeOK, PhaseInv, StartedInv, Started
  <2>4. IssueInv'
    <3> SUFFICES ASSUME NEW u \in Slot
                 PROVE  IssueInv!(u)'
      BY DEF IssueInv
    <3>1. CASE u = s
      BY <2>2, <3>1 DEF Issuing
    <3>2. CASE u # s
      BY <1>1, <2>1, <3>2 DEF IssueInv, Issuing, HasRow
    <3> QED
      BY <3>1, <3>2
  <2>5. RevokeInv'
    <3> SUFFICES ASSUME NEW u \in Slot
                 PROVE  RevokeInv!(u)'
      BY DEF RevokeInv
    <3>1. CASE u = s
      BY <1>1, <1>3, <2>2, <3>1 DEF RevokeInv, Revoking, HasRow, QueuedPc
    <3>2. CASE u # s
      BY <1>1, <2>1, <3>2 DEF RevokeInv, Revoking, HasRow
    <3> QED
      BY <3>1, <3>2
  <2>6. BuildBeforeRevoke'
    <3> SUFFICES ASSUME NEW v \in Slot, NEW u \in Slot,
                        task'[v].pc = "build", Revoking(u)',
                        task'[v].cn = task'[u].cn
                 PROVE  v \in ahead'[u]
      BY DEF BuildBeforeRevoke
    <3>1. v # s /\ task[v].pc = "build" /\ task'[v].cn = task[v].cn
      BY <2>1, <2>2
    <3>2. Revoking(u) /\ task'[u].cn = task[u].cn
      BY <1>1, <1>3, <2>1, <2>2 DEF Revoking, QueuedPc
    <3> QED
      BY <2>1, <3>1, <3>2 DEF BuildBeforeRevoke
  <2>7. SupersedeInv' /\ DownloadInv' /\ NameKeepsACredential'
    BY <1>1, <2>1, <2>2
    DEF SupersedeInv, DownloadInv, NameKeepsACredential, HasRow
  <2> QED
    BY <1>2, <2>1, <2>3, <2>4, <2>5, <2>6, <2>7
<1>4. CASE Settle(s, Idle)
  BY <1>1, <1>2, <1>4, FailLemma DEF Fail, QueuedPc, IssueInv, RevokeInv
<1> QED
  BY <1>3, <1>4 DEF EnsureCrlReadable

LEMMA MarkRevokedIInv ==
  ASSUME IInv, NEW s \in Slot, MarkRevoked(s)
  PROVE  IInv'
<1> USE DEF IInv
<1> DEFINE cn == task[s].cn
<1>1. /\ At(s, "mark") /\ UNCHANGED pkiVars
      /\ task[s].pc = "mark" /\ ahead[s] = {} /\ task[s] \in Task
      /\ phase # "down"
      /\ \A u \in Slot : task[u].pc # "supersede"
  BY AtLemma DEF MarkRevoked, QueuedPc
<1>2. cn \in CN /\ HasRow(cn) /\ cn \in crl
  BY <1>1 DEF RevokeInv, Revoking, QueuedPc
<1>3. CASE /\ row' = [row EXCEPT ![cn].status = "REVOKED"]
           /\ Settle(s, Done(s))
  <2>1. Done(s) \in Task /\ Done(s).pc = "ok"
    BY <1>1 DEF Done, Task, Pc
  <2>2. /\ task' \in [Slot -> Task] /\ ahead' \in [Slot -> SUBSET Slot]
        /\ phase' \in {"down", "booting", "up"}
        /\ task'[s] = Done(s)
        /\ \A u \in Slot : u # s => task'[u] = task[u]
        /\ \A u \in Slot : ahead'[u] = ahead[u] \ {s}
        /\ QueueInv'
    BY <1>1, <1>3, <2>1, SettleLemma DEF QueuedPc
  <2>3. UNCHANGED <<ca, cert, key, crl, crlReadable>>
    BY <1>1 DEF pkiVars
  <2>4. /\ row' \in [CN -> Row \union {NoRow}]
        /\ \A c \in CN : /\ HasRow(c)' <=> HasRow(c)
                         /\ c # cn => row'[c] = row[c]
        /\ row'[cn].name = row[cn].name
        /\ row'[cn].superseded = row[cn].superseded
        /\ row'[cn].hasPassword = row[cn].hasPassword
    <3>1. row[cn] \in Row
      BY <1>2 DEF TypeOK, HasRow
    <3>2. /\ row'[cn] = [row[cn] EXCEPT !.status = "REVOKED"]
          /\ \A c \in CN : c # cn => row'[c] = row[c]
          /\ row' = [c \in CN |-> row'[c]]
      BY <1>2, <1>3 DEF TypeOK
    <3>3. /\ row'[cn] \in Row
          /\ row'[cn].name = row[cn].name
          /\ row'[cn].superseded = row[cn].superseded
          /\ row'[cn].hasPassword = row[cn].hasPassword
      BY <3>1, <3>2 DEF Row
    <3>4. row' \in [CN -> Row \union {NoRow}]
      BY <3>2, <3>3 DEF TypeOK
    <3> QED
      BY <1>2, <3>2, <3>3, <3>4, NilAssumption DEF HasRow
  <2>5. TypeOK' /\ PhaseInv'
    BY <1>1, <1>3, <2>2, <2>3, <2>4 DEF TypeOK, PkiTypeOK, PhaseInv, Settle
  <2>6. StartedInv' /\ RevokeInv' /\ BuildBeforeRevoke' /\ DownloadInv'
    BY <1>1, <2>1, <2>2, <2>3, <2>4
    DEF StartedInv, Started, RevokeInv, Revoking, BuildBeforeRevoke,
        DownloadInv, QueuedPc
  <2>7. IssueInv'
    <3> SUFFICES ASSUME NEW u \in Slot
                 PROVE  IssueInv!(u)'
      BY DEF IssueInv
    <3>1. CASE u = s
      BY <2>1, <2>2, <3>1 DEF Issuing
    <3>2. CASE u # s
      BY <2>2, <2>3, <2>4, <3>2 DEF IssueInv, Issuing, TypeOK, Task
    <3> QED
      BY <3>1, <3>2
  <2>8. RowInv' /\ FlagHonest'
    BY <1>2, <2>3, <2>4 DEF RowInv, FlagHonest
  <2>9. NameKeepsACredential'
    <3> SUFFICES ASSUME NEW c \in CN, HasRow(c)'
                 PROVE  \E new \in CN : /\ HasRow(new)'
                                        /\ row'[new].name = row'[c].name
                                        /\ ~row'[new].superseded
      BY DEF NameKeepsACredential
    <3>1. HasRow(c) /\ row'[c].name = row[c].name
      BY <2>4
    <3>2. PICK new \in CN : /\ HasRow(new)
                            /\ row[new].name = row[c].name
                            /\ ~row[new].superseded
      BY <3>1 DEF NameKeepsACredential
    <3>3. /\ row'[new].name = row[new].name
          /\ row'[new].superseded = row[new].superseded
      <4>1. CASE new = cn
        BY <2>4, <4>1
      <4>2. CASE new # cn
        BY <2>4, <4>2
      <4> QED
        BY <4>1, <4>2
    <3>4. HasRow(new)'
      BY <2>4, <3>2
    <3> QED
      BY <3>1, <3>2, <3>3, <3>4
  <2>10. SupersedeInv'
    BY <1>1, <2>1, <2>2 DEF SupersedeInv
  <2> QED
    BY <2>2, <2>5, <2>6, <2>7, <2>8, <2>9, <2>10
<1>4. CASE Fail(s) /\ UNCHANGED row
  BY <1>1, <1>4, PlainFailLemma DEF QueuedPc
<1> QED
  BY <1>3, <1>4 DEF MarkRevoked

(***************************************************************************)
(* The process, and the invariance of IInv.                                *)
(***************************************************************************)
LEMMA InitIInv == Init => IInv
<1> SUFFICES ASSUME Init
             PROVE  IInv
  OBVIOUS
<1>1. \A s \in Slot : task[s] = Idle /\ ahead[s] = {} /\ task[s].pc = "idle"
                      /\ task[s].op = "none"
  BY IdleType DEF Init
<1>2. \A cn \in CN : ~HasRow(cn) /\ cert[cn] = "absent" /\ cn \notin crl
  BY DEF Init, PkiInit, HasRow
<1>3. TypeOK /\ PhaseInv
  BY IdleType DEF Init, PkiInit, TypeOK, PkiTypeOK, PhaseInv
<1>4. QueueInv /\ StartedInv
  BY <1>1 DEF QueueInv, StartedInv, Started, Queued, QueuedPc
<1>5. IssueInv /\ RevokeInv /\ BuildBeforeRevoke
  BY <1>1 DEF IssueInv, Issuing, RevokeInv, Revoking, BuildBeforeRevoke
<1>6. RowInv /\ FlagHonest /\ NameKeepsACredential
  BY <1>2 DEF RowInv, FlagHonest, NameKeepsACredential
<1>7. SupersedeInv /\ DownloadInv
  BY <1>1 DEF SupersedeInv, DownloadInv
<1> QED
  BY <1>3, <1>4, <1>5, <1>6, <1>7 DEF IInv

LEMMA BootIInv ==
  ASSUME IInv, Boot
  PROVE  IInv'
<1> USE DEF IInv
<1>1. UNCHANGED <<row, pkiVars>>
  BY DEF Boot
<1>2. \A s \in Slot : task[s] = Idle
  BY DEF Boot, PhaseInv
<1>3. CASE ca
  <2> DEFINE t == [Idle EXCEPT !.op = "refresh", !.pc = "gencrl"]
  <2>1. t \in Task /\ t.pc = "gencrl" /\ t.op = "refresh"
    BY DEF Idle, Task, Pc, QueuedPc
  <2>2. phase' = "booting" /\ Enqueue(Cron, t) /\ Cron \in Slot
    BY <1>3 DEF Boot, Slot
  <2>3. task[Cron].pc \notin QueuedPc /\ Uninterrupted
    BY <1>2, <2>2, IdleType DEF QueuedPc, Uninterrupted
  <2> HIDE DEF t
  <2> QED
    BY <1>1, <2>1, <2>2, <2>3, RequestLemma
<1>4. CASE ~ca
  <2>1. phase' = "up" /\ UNCHANGED <<task, ahead, row, pkiVars>>
    BY <1>4 DEF Boot
  <2>2. UNCHANGED <<ca, cert, key, crl, crlReadable>>
    BY <2>1 DEF pkiVars
  <2>3. TypeOK' /\ PhaseInv'
    BY <2>1, <2>2 DEF TypeOK, PkiTypeOK, PhaseInv
  <2>4. QueueInv' /\ StartedInv'
    BY <2>1 DEF QueueInv, StartedInv, Started, Queued
  <2>5. IssueInv' /\ RevokeInv' /\ BuildBeforeRevoke'
    BY <2>1, <2>2
    DEF IssueInv, Issuing, RevokeInv, Revoking, BuildBeforeRevoke, HasRow
  <2>6. RowInv' /\ FlagHonest' /\ NameKeepsACredential'
    BY <2>1, <2>2 DEF RowInv, FlagHonest, NameKeepsACredential, HasRow
  <2>7. SupersedeInv' /\ DownloadInv'
    BY <2>1 DEF SupersedeInv, DownloadInv, HasRow
  <2> QED
    BY <2>3, <2>4, <2>5, <2>6, <2>7
<1> QED
  BY <1>3, <1>4

\* A crash forgets the queue; the table and the PKI still agree.
LEMMA CrashIInv ==
  ASSUME IInv, Crash
  PROVE  IInv'
<1> USE DEF IInv
<1>1. /\ \A s \in Slot : task'[s] = Idle /\ ahead'[s] = {}
      /\ task' \in [Slot -> Task] /\ ahead' \in [Slot -> SUBSET Slot]
      /\ phase' = "down"
  BY IdleType DEF Crash
<1>2. UNCHANGED <<row, ca, cert, key, crl, crlReadable>>
  BY DEF Crash, pkiVars
<1>3. TypeOK' /\ PhaseInv'
  BY <1>1, <1>2 DEF TypeOK, PkiTypeOK, PhaseInv
<1>4. QueueInv' /\ StartedInv'
  BY <1>1, IdleType DEF QueueInv, StartedInv, Started, Queued, QueuedPc
<1>5. IssueInv' /\ RevokeInv' /\ BuildBeforeRevoke'
  BY <1>1, IdleType
  DEF IssueInv, Issuing, RevokeInv, Revoking, BuildBeforeRevoke
<1>6. RowInv' /\ FlagHonest' /\ NameKeepsACredential'
  BY <1>2 DEF RowInv, FlagHonest, NameKeepsACredential, HasRow
<1>7. SupersedeInv' /\ DownloadInv'
  BY <1>1, IdleType DEF SupersedeInv, DownloadInv
<1> QED
  BY <1>3, <1>4, <1>5, <1>6, <1>7

LEMMA StutterIInv ==
  ASSUME IInv, UNCHANGED vars
  PROVE  IInv'
<1> USE DEF IInv
<1>1. UNCHANGED <<phase, task, ahead, row, ca, cert, key, crl, crlReadable>>
  BY DEF vars, pkiVars
<1>2. TypeOK' /\ PhaseInv'
  BY <1>1 DEF TypeOK, PkiTypeOK, PhaseInv
<1>3. QueueInv' /\ StartedInv'
  BY <1>1 DEF QueueInv, StartedInv, Started, Queued
<1>4. IssueInv' /\ RevokeInv' /\ BuildBeforeRevoke'
  BY <1>1
  DEF IssueInv, Issuing, RevokeInv, Revoking, BuildBeforeRevoke, HasRow
<1>5. RowInv' /\ FlagHonest' /\ NameKeepsACredential'
  BY <1>1 DEF RowInv, FlagHonest, NameKeepsACredential, HasRow
<1>6. SupersedeInv' /\ DownloadInv'
  BY <1>1 DEF SupersedeInv, DownloadInv, HasRow
<1> QED
  BY <1>2, <1>3, <1>4, <1>5, <1>6

LEMMA StepIInv ==
  ASSUME IInv, NEW s \in Slot, Step(s)
  PROVE  IInv'
  BY BuildIInv, EncryptIInv, StoreIInv, SupersedeIInv, ReadProfileIInv,
     RevokeStepIInv, GenCrlStepIInv, EnsureCrlReadableIInv, MarkRevokedIInv
  DEF Step

LEMMA NextIInv == IInv /\ [Next]_vars => IInv'
<1> SUFFICES ASSUME IInv, [Next]_vars
             PROVE  IInv'
  OBVIOUS
<1>1. ASSUME NEW s \in Req, Request(s)
      PROVE  IInv'
  BY <1>1, CreateIInv, RenewIInv, RevokeIInv, DownloadIInv DEF Request
<1> QED
  BY <1>1, StepIInv, RefreshIInv, BootIInv, CrashIInv, StutterIInv DEF Next

\* The invariant of CredentialsInv holds in every reachable state.
THEOREM CredentialsInvariant == Spec => []IInv
  BY InitIInv, NextIInv, PTL DEF Spec

\* The state has the shape declared for it: VpnService and EasyRsaService
\* never store anything else.
THEOREM TypeCorrect == Spec => []TypeOK
  BY CredentialsInvariant, PTL DEF IInv

LEMMA IInvBlocks == IInv => RevokedIsBlocked
  BY DEF IInv, RowInv, RevokedIsBlocked, Accepted

\* VpnService.revoke: a credential shown as REVOKED is in the CRL, for any
\* number of overlapping requests and under every failure of the model.
THEOREM RevokedStaysBlocked == Spec => []RevokedIsBlocked
  BY CredentialsInvariant, IInvBlocks, PTL

\* issueClient and insert: has_password tells the truth about the key that a
\* download hands out, whatever fails between key, encryption and row.
THEOREM PasswordFlagHonest == Spec => []FlagHonest
  BY CredentialsInvariant, PTL DEF IInv

\* VpnService.renew: a name never loses its current credential to a renewal.
THEOREM RenewalKeepsName == Spec => []NameKeepsACredential
  BY CredentialsInvariant, PTL DEF IInv

(***************************************************************************)
(* Action properties.                                                      *)
(***************************************************************************)
\* No step takes a certificate off the revoked ones, or off the CRL.
LEMMA RevocationIsFinal ==
  ASSUME IInv, [Next]_vars, NEW cn \in CN, cert[cn] = "revoked"
  PROVE  cert'[cn] = "revoked" /\ (cn \in crl => cn \in crl')
<1> USE DEF IInv
<1>1. CASE UNCHANGED pkiVars
  BY <1>1 DEF pkiVars
<1>2. ASSUME NEW s \in Slot, Build(s)
      PROVE  cert'[cn] = "revoked" /\ crl' = crl
  <2>1. At(s, "build")
    BY <1>2 DEF Build
  <2>2. CASE UNCHANGED pkiVars
    BY <2>2 DEF pkiVars
  <2>3. CASE BuildOnlyKey(task[s].cn)
    BY <2>3 DEF BuildOnlyKey
  <2>4. CASE BuildClientFull(task[s].cn)
    BY <2>1, <2>4, BuildLemma DEF BuildClientFull, TypeOK, PkiTypeOK
  <2> QED
    BY <1>2, <2>2, <2>3, <2>4 DEF Build
<1>3. ASSUME NEW s \in Slot, EncryptPrivateKey(s)
      PROVE  cert' = cert /\ crl' = crl
  BY <1>3 DEF EncryptPrivateKey, pkiVars
<1>4. ASSUME NEW s \in Slot, RevokeStep(s)
      PROVE  cert'[cn] = "revoked" /\ crl' = crl
  BY <1>4 DEF RevokeStep, RevokeCert, pkiVars, TypeOK, PkiTypeOK
<1>5. ASSUME NEW s \in Slot, GenCrlStep(s)
      PROVE  cert' = cert /\ (cn \in crl => cn \in crl')
  BY <1>5 DEF GenCrlStep, GenCrl, pkiVars
<1>6. ASSUME NEW s \in Slot, EnsureCrlReadable(s)
      PROVE  cert' = cert /\ crl' = crl
  BY <1>6 DEF EnsureCrlReadable
<1>7. ASSUME NEW s \in Slot, Store(s) \/ Supersede(s) \/ ReadProfile(s) \/ MarkRevoked(s)
      PROVE  UNCHANGED pkiVars
  BY <1>7 DEF Store, Supersede, ReadProfile, MarkRevoked
<1>8. ASSUME NEW s \in Req, Request(s)
      PROVE  UNCHANGED pkiVars
  BY <1>8 DEF Request, Create, Renew, Revoke, DownloadProfile
<1>9. CASE RefreshCrl \/ Boot \/ Crash \/ UNCHANGED vars
  BY <1>1, <1>9 DEF RefreshCrl, Boot, Crash, vars
<1> QED
  BY <1>1, <1>2, <1>3, <1>4, <1>5, <1>6, <1>7, <1>8, <1>9 DEF Next, Step

\* EasyRsaService.revokeClient and uniqueCommonName: a certificate the server
\* rejects is never accepted again, whatever was queued before it was revoked.
THEOREM BlockedStaysBlocked == Spec => BlockedForever
<1>1. ASSUME IInv, [Next]_vars
      PROVE  [\A cn \in CN : cert[cn] = "revoked" /\ ~Accepted(cn)
                               => ~Accepted(cn)']_vars
  BY <1>1, RevocationIsFinal DEF Accepted
<1> QED
  BY <1>1, CredentialsInvariant, PTL DEF Spec, BlockedForever

\* The only step that answers a download is the one that reads the profile.
LEMMA DownloadAnswers ==
  ASSUME IInv, [Next]_vars, NEW s \in Slot,
         task[s].pc = "profile", task'[s].pc = "ok"
  PROVE  HasProfile(task[s].cn)
<1> USE DEF IInv
<1>1. \A t : task' = [task EXCEPT ![s] = t] => t.pc = "ok"
  BY DEF TypeOK
<1>2. ASSUME NEW u \in Slot, u # s, NEW t, task' = [task EXCEPT ![u] = t]
      PROVE  FALSE
  BY <1>2 DEF TypeOK
<1>3. ASSUME NEW u \in Slot, Step(u)
      PROVE  HasProfile(task[s].cn)
  <2>1. CASE u = s
    <3>1. ReadProfile(s)
      BY <1>3, <2>1 DEF Step, Build, EncryptPrivateKey, Store, Supersede,
        RevokeStep, GenCrlStep, EnsureCrlReadable, MarkRevoked, At
    <3> QED
      BY <1>1, <3>1, IdleType DEF ReadProfile, Fail, Settle
  <2>2. CASE u # s
    <3>1. task'[s] = task[s]
      BY <1>3, <2>2 DEF TypeOK, Step, Build, EncryptPrivateKey, Store,
         Supersede, ReadProfile, RevokeStep, GenCrlStep, EnsureCrlReadable,
         MarkRevoked, Advance, Settle, Fail
    <3> QED
      BY <3>1
  <2> QED
    BY <2>1, <2>2
<1>4. ASSUME NEW u \in Req, Request(u)
      PROVE  FALSE
  <2>1. task[u].pc \in {"idle", "ok"}
    BY <1>4 DEF Request, Create, Renew, Revoke, DownloadProfile, Free
  <2>2. u # s /\ u \in Slot
    BY <2>1 DEF Slot
  <2>3. task'[s] = task[s]
    BY <1>4, <2>2 DEF Request, Create, Renew, Revoke, DownloadProfile,
                      Enqueue, TypeOK
  <2> QED
    BY <2>3
<1>5. CASE RefreshCrl \/ Boot \/ Crash \/ UNCHANGED vars
  <2>1. task'[s] = task[s] \/ task'[s].pc \in {"idle", "gencrl"}
    BY <1>5, IdleType DEF RefreshCrl, Boot, Crash, vars, Enqueue, TypeOK, Idle
  <2> QED
    BY <2>1
<1> QED
  BY <1>3, <1>4, <1>5 DEF Next

\* VpnService.downloadProfile: a profile is never served for a credential that
\* is REVOKED by the time the files are read, nor for a certificate in the CRL.
THEOREM DownloadsServeUsable == Spec => DownloadServesUsable
<1>1. ASSUME IInv, [Next]_vars
      PROVE  [\A s \in Slot : task[s].pc = "profile" /\ task'[s].pc = "ok" =>
                row[task[s].cn].status = "ACTIVE" /\ task[s].cn \notin crl]_vars
  <2> SUFFICES ASSUME NEW s \in Slot, task[s].pc = "profile", task'[s].pc = "ok"
               PROVE  row[task[s].cn].status = "ACTIVE" /\ task[s].cn \notin crl
    OBVIOUS
  <2>1. HasProfile(task[s].cn) /\ task[s].cn \in CN /\ HasRow(task[s].cn)
    BY <1>1, DownloadAnswers DEF IInv, DownloadInv
  <2>2. cert[task[s].cn] = "valid" /\ task[s].cn \notin crl
    BY <1>1, <2>1 DEF HasProfile, IInv, RowInv
  <2>3. row[task[s].cn] \in Row
    BY <1>1, <2>1 DEF IInv, TypeOK, HasRow
  <2> QED
    BY <1>1, <2>1, <2>2, <2>3 DEF IInv, RowInv, Row
<1> QED
  BY <1>1, CredentialsInvariant, PTL DEF Spec, DownloadServesUsable

(***************************************************************************)
(* What holds on top of IInv when some failures do not happen.             *)
(***************************************************************************)
\* A request that enters the queue disturbs none of it.
LEMMA EnqueueSound ==
  ASSUME IInv, NoOrphans, ActiveInv, NEW s \in Slot, NEW t, Enqueue(s, t),
         UNCHANGED <<row, pkiVars>>, task[s].pc \in {"idle", "ok"}
  PROVE  NoOrphans' /\ ActiveInv'
<1>1. \A u \in Slot : u # s => task'[u] = task[u]
  BY DEF IInv, TypeOK, Enqueue
<1>2. UNCHANGED <<row, cert>>
  BY DEF pkiVars
<1>3. NoOrphans'
  BY <1>1, <1>2 DEF NoOrphans, InFlight, HasRow
<1>4. ActiveInv'
  BY <1>1, <1>2 DEF ActiveInv, HasRow, Revoking, QueuedPc
<1> QED
  BY <1>3, <1>4

LEMMA BuildSound ==
  ASSUME NothingFails, IInv, NoOrphans, ActiveInv, NEW s \in Slot, Build(s)
  PROVE  NoOrphans' /\ ActiveInv'
<1> DEFINE cn == task[s].cn
<1>1. /\ At(s, "build") /\ UNCHANGED row /\ task[s].pc = "build"
      /\ task[s] \in Task
  BY AtLemma DEF Build, QueuedPc
<1>2. task \in [Slot -> Task] /\ cert \in [CN -> {"absent", "valid", "revoked"}]
  BY DEF IInv, TypeOK, PkiTypeOK
<1>3. cn \in CN
  BY <1>1 DEF IInv, IssueInv, Issuing
<1>4. \A u \in Slot : u # s => task'[u] = task[u]
  BY <1>2 DEF Build, Fail, Settle, Advance
<1>5. CASE /\ BuildClientFull(cn)
           /\ Advance(s, IF task[s].password THEN "encrypt" ELSE "store")
  <2>1. cert' = [cert EXCEPT ![cn] = "valid"]
    BY <1>5 DEF BuildClientFull
  <2>2. task'[s].cn = cn /\ task'[s].pc \in {"encrypt", "store"}
    BY <1>1, <1>2, <1>5 DEF Advance, Task, Pc
  <2>3. NoOrphans'
    BY <1>1, <1>2, <1>3, <1>4, <2>1, <2>2 DEF NoOrphans, InFlight, HasRow
  <2>4. ActiveInv'
    BY <1>1, <1>2, <1>3, <1>4, <2>1 DEF ActiveInv, Revoking, HasRow
  <2> QED
    BY <2>3, <2>4
<1>6. CASE UNCHANGED pkiVars
  <2>1. UNCHANGED cert
    BY <1>6 DEF pkiVars
  <2>2. NoOrphans'
    BY <1>1, <1>4, <2>1 DEF NoOrphans, InFlight, HasRow
  <2>3. ActiveInv'
    BY <1>1, <1>4, <2>1 DEF ActiveInv, Revoking, HasRow, IInv, RevokeInv
  <2> QED
    BY <2>2, <2>3
<1> QED
  BY <1>5, <1>6 DEF Build, NothingFails

LEMMA StoreSound ==
  ASSUME NothingFails, IInv, NoOrphans, ActiveInv, NEW s \in Slot, Store(s)
  PROVE  NoOrphans' /\ ActiveInv'
<1> DEFINE cn == task[s].cn
<1>1. task[s].pc = "store" /\ UNCHANGED cert
  BY DEF Store, At, pkiVars
<1>2. cn \in CN /\ ~HasRow(cn) /\ cert[cn] = "valid"
  BY <1>1 DEF IInv, IssueInv, Issuing
<1>3. task \in [Slot -> Task] /\ row \in [CN -> Row \union {NoRow}]
  BY DEF IInv, TypeOK
<1>4. row' = [row EXCEPT ![cn] = NewRow(s)]
  BY <1>2 DEF Store, NothingFails
<1>5. \A u \in Slot : u # s => task'[u] = task[u]
  BY <1>3 DEF Store, Fail, Settle
<1>6. NewRow(s) # NoRow
  <2>1. task[s].label \in Label /\ task[s].password \in BOOLEAN
    BY <1>1, <1>3 DEF Task, IInv, IssueInv, Issuing
  <2>2. NewRow(s) \in Row
    BY <2>1 DEF NewRow, Row
  <2> QED
    BY <2>2, NilAssumption
<1>7. NoOrphans'
  BY <1>1, <1>2, <1>3, <1>4, <1>5, <1>6 DEF NoOrphans, InFlight, HasRow
<1>8. ActiveInv'
  BY <1>1, <1>2, <1>3, <1>4, <1>5, <1>6 DEF ActiveInv, Revoking, HasRow
<1> QED
  BY <1>7, <1>8

LEMMA RevokeStepSound ==
  ASSUME NothingFails, IInv, NoOrphans, ActiveInv, NEW s \in Slot, RevokeStep(s)
  PROVE  NoOrphans' /\ ActiveInv'
<1> DEFINE cn == task[s].cn
<1>1. task[s].pc = "revoke" /\ UNCHANGED row
  BY DEF RevokeStep, At
<1>2. /\ task[s].op = "revoke" /\ task \in [Slot -> Task]
      /\ cert \in [CN -> {"absent", "valid", "revoked"}]
  BY <1>1 DEF IInv, RevokeInv, TypeOK, PkiTypeOK
<1>3. cn \in CN /\ HasRow(cn)
  BY <1>1, <1>2 DEF IInv, RevokeInv, Revoking, QueuedPc
<1>4. \A u \in Slot : u # s => task'[u] = task[u]
  BY <1>2 DEF RevokeStep, Fail, Settle, Advance
<1>5. CASE RevokeCert(cn) /\ Advance(s, "gencrl")
  <2>1. cert' = [cert EXCEPT ![cn] = "revoked"]
    BY <1>5 DEF RevokeCert
  <2>2. task'[s].pc = "gencrl" /\ task'[s].op = "revoke" /\ task'[s].cn = cn
    BY <1>2, <1>5 DEF Advance, Task, Pc
  <2>3. NoOrphans'
    BY <1>1, <1>2, <1>3, <1>4, <2>1 DEF NoOrphans, InFlight, HasRow
  <2>4. Revoking(s)' /\ task'[s].pc # "revoke"
    BY <2>2 DEF Revoking, QueuedPc
  <2>5. ActiveInv'
    BY <1>1, <1>2, <1>3, <1>4, <2>1, <2>2, <2>4 DEF ActiveInv, Revoking, HasRow
  <2> QED
    BY <2>3, <2>5
<1>6. CASE UNCHANGED pkiVars
  BY <1>1, <1>4, <1>6 DEF NoOrphans, InFlight, ActiveInv, Revoking, HasRow, pkiVars
<1> QED
  BY <1>5, <1>6 DEF RevokeStep, NothingFails

\* The two steps that follow a revoke, and the encryption of a key.
LEMMA AdvanceSound ==
  ASSUME NothingFails, IInv, NoOrphans, ActiveInv, NEW s \in Slot,
         EncryptPrivateKey(s) \/ GenCrlStep(s) \/ EnsureCrlReadable(s)
  PROVE  NoOrphans' /\ ActiveInv'
<1>1. UNCHANGED <<row, cert>>
  BY DEF EncryptPrivateKey, GenCrlStep, GenCrl, EnsureCrlReadable, NothingFails, pkiVars
<1>2. task \in [Slot -> Task] /\ task[s] \in Task
  BY DEF IInv, TypeOK
<1>3. \A u \in Slot : u # s => task'[u] = task[u]
  BY <1>2 DEF EncryptPrivateKey, GenCrlStep, EnsureCrlReadable, Fail, Settle, Advance
<1>4. CASE EncryptPrivateKey(s)
  <2>1. task[s].pc = "encrypt" /\ task'[s] = [task[s] EXCEPT !.pc = "store"]
    BY <1>2, <1>4 DEF EncryptPrivateKey, At, Advance, NothingFails
  <2>2. task'[s].pc = "store" /\ task'[s].cn = task[s].cn
    BY <1>2, <2>1 DEF Task
  <2>3. \A cn : InFlight(cn) => InFlight(cn)'
    BY <1>3, <2>2 DEF InFlight
  <2>4. NoOrphans'
    BY <1>1, <2>3 DEF NoOrphans, HasRow
  <2>5. ActiveInv'
    BY <1>1, <1>3, <2>1 DEF ActiveInv, Revoking, HasRow, IInv, RevokeInv
  <2> QED
    BY <2>4, <2>5
<1>5. CASE GenCrlStep(s) \/ EnsureCrlReadable(s)
  <2>1. task[s].pc \in {"gencrl", "chmod"}
    BY <1>5 DEF GenCrlStep, EnsureCrlReadable, At
  <2>2. NoOrphans'
    BY <1>1, <1>3, <2>1 DEF NoOrphans, InFlight, HasRow
  <2>3. Revoking(s) => /\ Revoking(s)' /\ task'[s].pc # "revoke"
                       /\ task'[s].cn = task[s].cn
    <3>1. ASSUME task[s].op = "revoke"
          PROVE  \E pc \in {"chmod", "mark"} : task'[s] = [task[s] EXCEPT !.pc = pc]
      BY <1>2, <1>5, <3>1
      DEF GenCrlStep, EnsureCrlReadable, Advance, NothingFails
    <3> QED
      BY <1>2, <3>1 DEF Revoking, QueuedPc, Task
  <2>4. ActiveInv'
    BY <1>1, <1>3, <2>3 DEF ActiveInv, Revoking, HasRow
  <2> QED
    BY <2>2, <2>4
<1> QED
  BY <1>4, <1>5

\* The row is marked: it is the one that was being revoked.
LEMMA MarkRevokedSound ==
  ASSUME NothingFails, IInv, NoOrphans, ActiveInv, NEW s \in Slot, MarkRevoked(s)
  PROVE  NoOrphans' /\ ActiveInv'
<1> DEFINE cn == task[s].cn
<1>1. /\ task[s].pc = "mark" /\ UNCHANGED cert
      /\ row' = [row EXCEPT ![cn].status = "REVOKED"]
  BY DEF MarkRevoked, At, pkiVars, NothingFails
<1>2. task \in [Slot -> Task] /\ row \in [CN -> Row \union {NoRow}]
  BY DEF IInv, TypeOK
<1>3. cn \in CN /\ HasRow(cn)
  BY <1>1 DEF IInv, RevokeInv, Revoking, QueuedPc
<1>4. \A u \in Slot : u # s => task'[u] = task[u]
  BY <1>2 DEF MarkRevoked, Fail, Settle
<1>5. /\ row'[cn].status = "REVOKED" /\ row'[cn] # NoRow
      /\ \A d \in CN : d # cn => row'[d] = row[d]
  BY <1>1, <1>2, <1>3, NilAssumption DEF Row, HasRow
<1>6. NoOrphans'
  BY <1>1, <1>3, <1>4, <1>5 DEF NoOrphans, InFlight, HasRow
<1>7. ActiveInv'
  BY <1>1, <1>3, <1>4, <1>5 DEF ActiveInv, Revoking, HasRow
<1> QED
  BY <1>6, <1>7

LEMMA SupersedeSound ==
  ASSUME NothingFails, IInv, NoOrphans, ActiveInv, NEW s \in Slot, Supersede(s)
  PROVE  NoOrphans' /\ ActiveInv'
<1> DEFINE old == task[s].old
<1>1. /\ task[s].pc = "supersede" /\ UNCHANGED cert
      /\ row' = [row EXCEPT ![old].superseded = TRUE]
  BY DEF Supersede, pkiVars, NothingFails
<1>2. task \in [Slot -> Task] /\ row \in [CN -> Row \union {NoRow}]
  BY DEF IInv, TypeOK
<1>3. old \in CN /\ HasRow(old)
  BY <1>1 DEF IInv, SupersedeInv
<1>4. \A u \in Slot : u # s => task'[u] = task[u]
  BY <1>2 DEF Supersede
<1>5. /\ row'[old].status = row[old].status /\ row'[old] # NoRow
      /\ \A d \in CN : d # old => row'[d] = row[d]
  BY <1>1, <1>2, <1>3, NilAssumption DEF Row, HasRow
<1>6. NoOrphans'
  BY <1>1, <1>3, <1>4, <1>5 DEF NoOrphans, InFlight, HasRow
<1>7. ActiveInv'
  BY <1>1, <1>3, <1>4, <1>5 DEF ActiveInv, Revoking, HasRow, QueuedPc
<1> QED
  BY <1>6, <1>7

LEMMA SoundNext ==
  ASSUME NothingFails, IInv, NoOrphans, ActiveInv, [Next]_vars
  PROVE  NoOrphans' /\ ActiveInv'
<1>1. ASSUME NEW s \in Req, Request(s)
      PROVE  NoOrphans' /\ ActiveInv'
  <2>1. \E t : Enqueue(s, t)
    BY <1>1 DEF Request, Create, Renew, Revoke, DownloadProfile
  <2>2. UNCHANGED <<row, pkiVars>> /\ task[s].pc \in {"idle", "ok"}
    BY <1>1 DEF Request, Create, Renew, Revoke, DownloadProfile, Free
  <2> QED
    BY <2>1, <2>2, EnqueueSound DEF Slot
<1>2. ASSUME NEW s \in Slot, ReadProfile(s)
      PROVE  NoOrphans' /\ ActiveInv'
  <2>1. task[s].pc = "profile" /\ UNCHANGED <<row, pkiVars>>
    BY <1>2 DEF ReadProfile, At
  <2>2. \A u \in Slot : u # s => task'[u] = task[u]
    BY <1>2 DEF ReadProfile, Fail, Settle, IInv, TypeOK
  <2> QED
    BY <2>1, <2>2
    DEF NoOrphans, InFlight, ActiveInv, Revoking, HasRow, pkiVars, IInv, RevokeInv
<1>3. CASE RefreshCrl
  BY <1>3, EnqueueSound DEF RefreshCrl, Slot
<1>4. CASE Boot
  <2>1. UNCHANGED <<row, pkiVars>> /\ task[Cron].pc \in {"idle", "ok"}
    BY <1>4, IdleType DEF Boot, IInv, PhaseInv, Slot
  <2>2. CASE UNCHANGED task
    BY <2>1, <2>2 DEF NoOrphans, InFlight, ActiveInv, Revoking, HasRow, pkiVars
  <2> QED
    BY <1>4, <2>1, <2>2, EnqueueSound DEF Boot, Slot
<1>5. CASE Crash
  BY <1>5 DEF Crash, NothingFails
<1>6. CASE UNCHANGED vars
  BY <1>6 DEF vars, NoOrphans, InFlight, ActiveInv, Revoking, HasRow, pkiVars
<1> QED
  BY <1>1, <1>2, <1>3, <1>4, <1>5, <1>6, BuildSound, AdvanceSound, StoreSound,
     SupersedeSound, RevokeStepSound, MarkRevokedSound DEF Next, Step

LEMMA SoundInit ==
  ASSUME Init
  PROVE  NoOrphans /\ ActiveInv
  BY DEF Init, PkiInit, NoOrphans, ActiveInv, HasRow

LEMMA SoundAlways ==
  ASSUME NothingFails
  PROVE  Spec => [](NoOrphans /\ ActiveInv)
<1>1. IInv /\ (NoOrphans /\ ActiveInv) /\ [Next]_vars => (NoOrphans /\ ActiveInv)'
  BY SoundNext
<1>2. Init => NoOrphans /\ ActiveInv
  BY SoundInit
<1> QED
  BY <1>1, <1>2, CredentialsInvariant, PTL DEF Spec

\* issueClient and insert: while nothing fails, a working certificate is in the
\* table, where it can be revoked, or its issuance is still under way, however
\* creations, renewals and revocations overlap.
THEOREM NoCertificateOutsideTheTable ==
  ASSUME NothingFails
  PROVE  Spec => []NoOrphans
  BY SoundAlways, PTL

\* revoke and markRevoked: while nothing fails, a credential listed as active
\* works, unless its revocation is under way.
THEOREM ActiveCredentialsWork ==
  ASSUME NothingFails
  PROVE  Spec => []ActiveMeansValid
<1>1. IInv /\ ActiveInv => ActiveMeansValid
  BY DEF IInv, RevokeInv, ActiveInv, ActiveMeansValid, BeingRevoked, Revoking
<1> QED
  BY <1>1, SoundAlways, CredentialsInvariant, PTL

(***************************************************************************)
(* The CRL that the server reads.                                          *)
(***************************************************************************)
\* A step that leaves the CRL, the phase and the operations at chmod alone.
LEMMA QuietServes ==
  ASSUME ServingInv, NEW s \in Slot, UNCHANGED <<phase, ca, crlReadable>>,
         \A u \in Slot : u # s => task'[u] = task[u],
         task[s].pc \notin {"gencrl", "chmod"}
  PROVE  ServingInv'
<1>1. \A u \in Slot : task[u].pc = "chmod" => task'[u].pc = "chmod"
  OBVIOUS
<1>2. phase = "booting" => task'[Cron] = task[Cron]
  BY DEF ServingInv, Slot
<1>3. ReadableOrSoon => ReadableOrSoon'
  BY <1>1 DEF ReadableOrSoon
<1> QED
  BY <1>2, <1>3 DEF ServingInv

\* An operation of the PKI that is no gen-crl.
LEMMA OtherServes ==
  ASSUME ModeIsSet, IInv, ServingInv, NEW s \in Slot,
         \/ Build(s) \/ EncryptPrivateKey(s) \/ Store(s) \/ Supersede(s)
         \/ ReadProfile(s) \/ RevokeStep(s) \/ MarkRevoked(s)
  PROVE  ServingInv'
<1>1. task[s].pc \notin {"gencrl", "chmod"}
  BY DEF Build, EncryptPrivateKey, Store, Supersede, ReadProfile, RevokeStep,
         MarkRevoked, At
<1>2. \A u \in Slot : u # s => task'[u] = task[u]
  BY DEF Build, EncryptPrivateKey, Store, Supersede, ReadProfile, RevokeStep,
         MarkRevoked, Fail, Settle, Advance, IInv, TypeOK
<1>3. UNCHANGED <<ca, crlReadable>>
  BY DEF Build, BuildOnlyKey, BuildClientFull, EncryptPrivateKey, Store,
         Supersede, ReadProfile, RevokeStep, RevokeCert, MarkRevoked, pkiVars
<1>4. UNCHANGED phase
  <2>1. s = Cron => phase # "booting"
    BY <1>1 DEF ServingInv
  <2> QED
    BY <2>1 DEF Build, EncryptPrivateKey, Store, Supersede, ReadProfile,
                RevokeStep, MarkRevoked, Fail, Settle
<1> QED
  BY <1>1, <1>2, <1>3, <1>4, QuietServes

\* After a gen-crl the chmod follows, unless the gen-crl failed; and then it
\* did nothing, and it was not the one at the boot after a crash.
LEMMA GenCrlServes ==
  ASSUME ModeIsSet, IInv, ServingInv, NEW s \in Slot, GenCrlStep(s)
  PROVE  ServingInv'
<1>1. task[s].pc = "gencrl" /\ task[s] \in Task /\ task \in [Slot -> Task]
  BY DEF GenCrlStep, At, IInv, TypeOK
<1>2. \A u \in Slot : u # s => task'[u] = task[u]
  BY <1>1 DEF GenCrlStep, Fail, Settle, Advance
<1>3. CASE GenCrl /\ Advance(s, "chmod") /\ UNCHANGED phase
  <2>1. task'[s] = [task[s] EXCEPT !.pc = "chmod"] /\ ca /\ UNCHANGED ca
    BY <1>1, <1>3 DEF Advance, GenCrl
  <2>2. task'[s].pc = "chmod" /\ task'[s].op = task[s].op
    BY <1>1, <2>1 DEF Task
  <2>3. ReadableOrSoon'
    BY <2>2 DEF ReadableOrSoon
  <2>4. phase = "booting" => task'[Cron].pc \in {"gencrl", "chmod"}
                             /\ task'[Cron].op = "refresh"
    BY <1>2, <2>2 DEF ServingInv, Slot
  <2> QED
    BY <1>3, <2>1, <2>3, <2>4 DEF ServingInv
<1>4. CASE "pki" \in Faults /\ Fail(s) /\ UNCHANGED pkiVars
  <2>1. "crash" \notin Faults
    BY <1>4 DEF ModeIsSet
  <2>2. ReadableOrSoon'
    BY <1>1, <1>2, <1>4, <2>1 DEF ServingInv, ReadableOrSoon, pkiVars
  <2>3. phase' = "booting" => s # Cron /\ phase = "booting"
    BY <1>4 DEF Fail, Settle
  <2> QED
    BY <1>2, <1>4, <2>2, <2>3 DEF ServingInv, Slot, pkiVars
<1> QED
  BY <1>3, <1>4 DEF GenCrlStep, ModeIsSet

LEMMA ChmodServes ==
  ASSUME ModeIsSet, IInv, ServingInv, NEW s \in Slot, EnsureCrlReadable(s)
  PROVE  ServingInv'
<1>1. /\ task[s].pc = "chmod" /\ task \in [Slot -> Task]
      /\ crlReadable' = TRUE
  BY DEF EnsureCrlReadable, At, IInv, TypeOK, ModeIsSet
<1>2. \A u \in Slot : u # s => task'[u] = task[u]
  BY <1>1 DEF EnsureCrlReadable, Settle, Advance
<1>3. phase' = "booting" => s # Cron /\ phase = "booting"
  BY DEF EnsureCrlReadable, Settle, ServingInv
<1> QED
  BY <1>1, <1>2, <1>3 DEF ServingInv, ReadableOrSoon, Slot

\* The API listens only after the refresh at boot.
LEMMA BootServes ==
  ASSUME IInv, ServingInv, Boot
  PROVE  ServingInv'
<1>1. \A u \in Slot : task[u].pc = "idle"
  BY IdleType DEF Boot, IInv, PhaseInv
<1>2. UNCHANGED <<ca, crlReadable>>
  BY DEF Boot, pkiVars
<1>3. CASE ~ca
  BY <1>2, <1>3 DEF Boot, ServingInv, ReadableOrSoon
<1>4. CASE ca
  <2>1. /\ phase' = "booting"
        /\ task' = [task EXCEPT ![Cron] =
                      [Idle EXCEPT !.op = "refresh", !.pc = "gencrl"]]
    BY <1>4 DEF Boot, Enqueue
  <2>2. task'[Cron].pc = "gencrl" /\ task'[Cron].op = "refresh"
    BY <2>1 DEF IInv, TypeOK, Idle, Slot
  <2> QED
    BY <1>1, <1>2, <1>4, <2>1, <2>2 DEF ServingInv, ReadableOrSoon
<1> QED
  BY <1>3, <1>4

LEMMA ServingNext ==
  ASSUME ModeIsSet, IInv, ServingInv, [Next]_vars
  PROVE  ServingInv'
<1>1. ASSUME NEW s \in Slot, Step(s)
      PROVE  ServingInv'
  BY <1>1, OtherServes, GenCrlServes, ChmodServes DEF Step
<1>2. ASSUME NEW s \in Req, Request(s)
      PROVE  ServingInv'
  <2>1. /\ task[s].pc \in {"idle", "ok"} /\ UNCHANGED <<phase, ca, crlReadable>>
        /\ \E t : Enqueue(s, t)
    BY <1>2 DEF Request, Create, Renew, Revoke, DownloadProfile, Free, pkiVars
  <2>2. \A u \in Slot : u # s => task'[u] = task[u]
    BY <2>1 DEF Enqueue, IInv, TypeOK
  <2> QED
    BY <2>1, <2>2, QuietServes DEF Slot
<1>3. CASE RefreshCrl
  <2>1. task[Cron].pc = "idle" /\ UNCHANGED <<phase, ca, crlReadable>>
    BY <1>3 DEF RefreshCrl, pkiVars
  <2>2. \A u \in Slot : u # Cron => task'[u] = task[u]
    BY <1>3 DEF RefreshCrl, Enqueue, IInv, TypeOK
  <2> QED
    BY <2>1, <2>2, QuietServes DEF Slot
<1>4. CASE Crash
  BY <1>4 DEF Crash, ServingInv, pkiVars
<1>5. CASE UNCHANGED vars
  BY <1>5 DEF vars, pkiVars, ServingInv, ReadableOrSoon
<1> QED
  BY <1>1, <1>2, <1>3, <1>4, <1>5, BootServes DEF Next

\* ensureCrlReadable and onApplicationBootstrap: once the API listens, the
\* server can read the CRL, or its chmod is the next step of the queue; also
\* after any number of crashes, if no gen-crl fails at a boot.
THEOREM CrlReadable ==
  ASSUME ModeIsSet
  PROVE  Spec => []CrlReadableWhileServing
<1>1. IInv /\ ServingInv /\ [Next]_vars => ServingInv'
  BY ServingNext
<1>2. Init => ServingInv
  BY DEF Init, PkiInit, ServingInv, ReadableOrSoon
<1>3. ServingInv => CrlReadableWhileServing
  BY DEF ServingInv, ReadableOrSoon, CrlReadableWhileServing
<1> QED
  BY <1>1, <1>2, <1>3, CredentialsInvariant, PTL DEF Spec
=============================================================================
