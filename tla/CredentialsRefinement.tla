----------------------- MODULE CredentialsRefinement -----------------------
(***************************************************************************)
(* Credentials implements CredentialLedger: each step of a handler, of the *)
(* refresh or of the process is a step of the ledger, or nothing the       *)
(* console's users can see.                                                *)
(***************************************************************************)
EXTENDS CredentialsProofs

\* The refinement mapping, as functions.
shown == [cn \in CN |-> ShownAs(cn)]
owner == [cn \in CN |-> IF HasRow(cn) THEN row[cn].name ELSE "unlisted"]

\* How a row is shown, without the CASE.
LEMMA ShownCases ==
  ASSUME IInv, NEW cn \in CN
  PROVE  /\ shown[cn] = "unlisted" <=> ~HasRow(cn)
         /\ HasRow(cn) => /\ row[cn] \in Row
                          /\ shown[cn] = IF row[cn].status = "REVOKED" THEN "revoked"
                                         ELSE IF row[cn].superseded THEN "replaced"
                                         ELSE "current"
<1>1. HasRow(cn) => row[cn] \in Row
  BY DEF IInv, TypeOK, HasRow
<1>2. HasRow(cn) => row[cn].status \in {"ACTIVE", "REVOKED"}
  BY <1>1 DEF Row
<1> QED
  BY <1>1, <1>2 DEF shown, ShownAs

LEMMA LedgerInit == Init => Ledger!Init
<1> SUFFICES ASSUME Init
             PROVE  Ledger!Init
  OBVIOUS
<1>1. \A cn \in CN : ~HasRow(cn) /\ cert[cn] = "absent"
  BY DEF Init, PkiInit, HasRow
<1>2. \A cn \in CN : AccessOf(cn) = "never" /\ ShownAs(cn) = "unlisted"
  BY <1>1 DEF AccessOf, Accepted, ShownAs
<1> QED
  BY <1>1, <1>2 DEF Ledger!Init, Ledger!Unlisted

\* Nobody sees a step that changes neither the table nor who gets in.
LEMMA LedgerStutter ==
  ASSUME UNCHANGED row, UNCHANGED <<cert, crl>>
  PROVE  UNCHANGED Ledger!vars
  BY DEF Ledger!vars, AccessOf, Accepted, ShownAs, HasRow

LEMMA LedgerBuild ==
  ASSUME IInv, IInv', NEW s \in Slot, Build(s)
  PROVE  [Ledger!Next]_(Ledger!vars)
<1> DEFINE cn == task[s].cn
<1>1. At(s, "build") /\ UNCHANGED row
  BY DEF Build
<1>2. CASE UNCHANGED pkiVars \/ BuildOnlyKey(cn)
  BY <1>1, <1>2, LedgerStutter DEF pkiVars, BuildOnlyKey
<1>3. CASE BuildClientFull(cn)
  <2>1. cn \in CN /\ cert[cn] = "absent"
    BY <1>1, <1>3, BuildLemma DEF BuildClientFull
  <2>2. cert' = [cert EXCEPT ![cn] = "valid"] /\ crl' = crl
    BY <1>3 DEF BuildClientFull
  <2>3. /\ AccessOf(cn) = "never"
        /\ \A c \in CN : AccessOf(c)' = IF c = cn THEN "granted" ELSE AccessOf(c)
    BY <2>1, <2>2 DEF AccessOf, Accepted, IInv, TypeOK, PkiTypeOK
  <2>4. \A c \in CN : ShownAs(c)' = ShownAs(c) /\ (HasRow(c)' <=> HasRow(c))
    BY <1>1 DEF ShownAs, HasRow
  <2>5. Ledger!Grant(cn)
    BY <1>1, <2>1, <2>3, <2>4 DEF Ledger!Grant
  <2> QED
    BY <2>1, <2>5 DEF Ledger!Next
<1> QED
  BY <1>2, <1>3 DEF Build

LEMMA LedgerStore ==
  ASSUME IInv, IInv', NEW s \in Slot, Store(s)
  PROVE  [Ledger!Next]_(Ledger!vars)
<1>1. At(s, "store") /\ UNCHANGED pkiVars /\ task[s].pc = "store"
  BY DEF Store, At
<1>0. PICK cn \in CN : cn = task[s].cn
  BY <1>1 DEF IInv, IssueInv, Issuing
<1>2. CASE UNCHANGED row
  BY <1>1, <1>2, LedgerStutter DEF pkiVars
<1>3. CASE row' = [row EXCEPT ![cn] = NewRow(s)]
  <2>1. cn \in CN /\ ~HasRow(cn) /\ cert[cn] = "valid" /\ task[s].label \in Label
    BY <1>1, <1>0 DEF IInv, IssueInv, Issuing
  <2>2. /\ \A c \in CN : c # cn => row'[c] = row[c]
        /\ row'[cn] = NewRow(s) /\ NewRow(s) \in Row
    BY <1>3, <2>1 DEF IInv, TypeOK, NewRow, Row, Task
  <2>3. row'[cn] # NoRow
    BY <2>2, NilAssumption
  <2>4. /\ row'[cn].name = task[s].label
        /\ row'[cn].status = "ACTIVE"
        /\ row'[cn].superseded = FALSE
    BY <2>2 DEF NewRow
  <2>5. /\ ShownAs(cn) = "unlisted"
        /\ \A c \in CN : ShownAs(c)' = IF c = cn THEN "current" ELSE ShownAs(c)
    <3>1. ShownAs(cn) = "unlisted"
      BY <2>1 DEF ShownAs
    <3>2. ASSUME NEW c \in CN, c = cn
          PROVE  ShownAs(c)' = "current"
      BY <2>3, <2>4, <3>2 DEF ShownAs, HasRow
    <3>3. ASSUME NEW c \in CN, c # cn
          PROVE  ShownAs(c)' = ShownAs(c)
      BY <2>2, <3>3 DEF ShownAs, HasRow
    <3> QED
      BY <3>1, <3>2, <3>3
  <2>6. /\ AccessOf(cn) = "granted"
        /\ \A c \in CN : AccessOf(c)' = AccessOf(c)
    BY <1>1, <2>1 DEF AccessOf, Accepted, pkiVars
  <2>7. owner' = [owner EXCEPT ![cn] = task[s].label]
    BY <2>1, <2>2, <2>3, <2>4 DEF owner, HasRow
  <2>8. Ledger!List(cn)
    BY <2>1, <2>5, <2>6, <2>7 DEF Ledger!List, owner
  <2> QED
    BY <2>1, <2>8 DEF Ledger!Next
<1> QED
  BY <1>2, <1>3, <1>0 DEF Store

LEMMA LedgerSupersede ==
  ASSUME IInv, IInv', NEW s \in Slot, Supersede(s)
  PROVE  [Ledger!Next]_(Ledger!vars)
<1>1. UNCHANGED pkiVars /\ task[s].pc = "supersede"
  BY DEF Supersede
<1>0. PICK old \in CN, new \in CN : old = task[s].old /\ new = task[s].cn
  BY <1>1 DEF IInv, SupersedeInv
<1>2. /\ new \in CN /\ old \in CN /\ new # old
      /\ HasRow(new) /\ HasRow(old)
      /\ row[new].status = "ACTIVE" /\ ~row[new].superseded
      /\ row[new].name = row[old].name
      /\ row[old] \in Row
  BY <1>1, <1>0 DEF IInv, SupersedeInv, TypeOK, HasRow
<1>3. CASE UNCHANGED row
  BY <1>1, <1>3, LedgerStutter DEF pkiVars
<1>4. CASE row' = [row EXCEPT ![old].superseded = TRUE]
  <2>1. /\ \A c \in CN : c # old => row'[c] = row[c]
        /\ row'[old] = [row[old] EXCEPT !.superseded = TRUE]
    BY <1>2, <1>4 DEF IInv, TypeOK
  <2>2. /\ row'[old] \in Row
        /\ row'[old].name = row[old].name
        /\ row'[old].status = row[old].status
        /\ row'[old].superseded = TRUE
    BY <1>2, <2>1 DEF Row
  <2>3. \A c \in CN : HasRow(c)' <=> HasRow(c)
    BY <1>2, <2>1, <2>2, NilAssumption DEF HasRow
  <2>4. \A c \in CN : AccessOf(c)' = AccessOf(c)
    BY <1>1 DEF AccessOf, Accepted, pkiVars
  <2>5. owner' = owner
    BY <2>1, <2>2, <2>3 DEF owner
  <2>6. /\ \A c \in CN : c # old => ShownAs(c)' = ShownAs(c)
        /\ ShownAs(new) = "current"
    BY <1>2, <2>1, <2>3 DEF ShownAs
  <2>7. CASE row[old].status = "ACTIVE" /\ ~row[old].superseded
    <3>1. ShownAs(old) = "current" /\ ShownAs(old)' = "replaced"
      BY <1>2, <2>2, <2>3, <2>7 DEF ShownAs
    <3>2. shown' = [shown EXCEPT ![old] = "replaced"]
      BY <1>2, <2>6, <3>1 DEF shown
    <3>3. owner[new] = owner[old]
      BY <1>2 DEF owner
    <3>4. Ledger!Replace(old)
      BY <1>2, <2>4, <2>5, <2>6, <3>1, <3>2, <3>3 DEF Ledger!Replace, shown, owner
    <3> QED
      BY <1>2, <3>4 DEF Ledger!Next
  <2>8. CASE row[old].status = "REVOKED" \/ row[old].superseded
    <3>1. row[old].status \in {"ACTIVE", "REVOKED"}
      BY <1>2 DEF Row
    <3>2. ShownAs(old)' = ShownAs(old)
      BY <1>2, <2>2, <2>3, <2>8, <3>1 DEF ShownAs
    <3>3. UNCHANGED Ledger!vars
      BY <2>4, <2>5, <2>6, <3>2 DEF Ledger!vars, owner
    <3> QED
      BY <3>3
  <2> QED
    BY <1>2, <2>7, <2>8 DEF Row
<1> QED
  BY <1>3, <1>4, <1>0 DEF Supersede

LEMMA LedgerRevokeStep ==
  ASSUME IInv, IInv', NEW s \in Slot, RevokeStep(s)
  PROVE  UNCHANGED Ledger!vars
<1> DEFINE cn == task[s].cn
<1>1. At(s, "revoke") /\ UNCHANGED row
  BY DEF RevokeStep
<1>2. CASE UNCHANGED pkiVars
  BY <1>1, <1>2, LedgerStutter DEF pkiVars
<1>3. CASE RevokeCert(cn)
  <2>1. /\ cn \in CN /\ cert' = [cert EXCEPT ![cn] = "revoked"] /\ crl' = crl
        /\ cert[cn] = "valid"
    BY <1>1, <1>3, RevokeCertLemma DEF RevokeCert
  <2>2. cn \notin crl
    BY <2>1 DEF IInv, RowInv
  <2>3. \A c \in CN : AccessOf(c)' = AccessOf(c)
    BY <2>1, <2>2 DEF AccessOf, Accepted, IInv, TypeOK, PkiTypeOK
  <2> QED
    BY <1>1, <2>3 DEF Ledger!vars, ShownAs, HasRow
<1> QED
  BY <1>2, <1>3 DEF RevokeStep

LEMMA LedgerGenCrl ==
  ASSUME IInv, IInv', NEW s \in Slot, GenCrlStep(s)
  PROVE  [Ledger!Next]_(Ledger!vars)
<1>1. UNCHANGED row
  BY DEF GenCrlStep
<1>2. CASE UNCHANGED pkiVars
  BY <1>1, <1>2, LedgerStutter DEF pkiVars
<1>3. CASE GenCrl
  <2> DEFINE C == {cn \in CN : cert[cn] = "revoked" /\ cn \notin crl}
  <2>1. cert' = cert /\ \A cn \in CN : cn \in crl' <=> cert[cn] = "revoked"
    BY <1>1, <1>3, GenCrlLemma
  <2>2. \A cn \in CN : AccessOf(cn)' = IF cn \in C THEN "blocked" ELSE AccessOf(cn)
    BY <2>1 DEF AccessOf, Accepted, IInv, RowInv, TypeOK, PkiTypeOK
  <2>3. \A cn \in C : AccessOf(cn) = "granted" /\ ShownAs(cn) # "unlisted"
    <3> SUFFICES ASSUME NEW cn \in C
                 PROVE  AccessOf(cn) = "granted" /\ ShownAs(cn) # "unlisted"
      OBVIOUS
    <3>1. HasRow(cn)
      BY DEF IInv, RowInv
    <3> QED
      BY <3>1, ShownCases DEF AccessOf, Accepted, shown
  <2>4. \A cn \in CN : ShownAs(cn)' = ShownAs(cn) /\ (HasRow(cn)' <=> HasRow(cn))
    BY <1>1 DEF ShownAs, HasRow
  <2>5. Ledger!Block(C)
    BY <1>1, <2>2, <2>3, <2>4 DEF Ledger!Block
  <2> QED
    BY <2>5 DEF Ledger!Next
<1> QED
  BY <1>2, <1>3 DEF GenCrlStep

LEMMA LedgerMark ==
  ASSUME IInv, IInv', NEW s \in Slot, MarkRevoked(s)
  PROVE  [Ledger!Next]_(Ledger!vars)
<1>1. UNCHANGED pkiVars /\ task[s].pc = "mark"
  BY DEF MarkRevoked, At
<1>0. PICK cn \in CN : cn = task[s].cn
  BY <1>1 DEF IInv, RevokeInv, Revoking, QueuedPc
<1>2. /\ cn \in CN /\ HasRow(cn) /\ cert[cn] = "revoked" /\ cn \in crl
      /\ row[cn] \in Row
  BY <1>1, <1>0 DEF IInv, RevokeInv, Revoking, QueuedPc, TypeOK, HasRow
<1>3. CASE UNCHANGED row
  BY <1>1, <1>3, LedgerStutter DEF pkiVars
<1>4. CASE row' = [row EXCEPT ![cn].status = "REVOKED"]
  <2>1. /\ \A c \in CN : c # cn => row'[c] = row[c]
        /\ row'[cn] = [row[cn] EXCEPT !.status = "REVOKED"]
    BY <1>2, <1>4 DEF IInv, TypeOK
  <2>2. /\ row'[cn] \in Row
        /\ row'[cn].name = row[cn].name
        /\ row'[cn].status = "REVOKED"
    BY <1>2, <2>1 DEF Row
  <2>3. \A c \in CN : HasRow(c)' <=> HasRow(c)
    BY <1>2, <2>1, <2>2, NilAssumption DEF HasRow
  <2>4. /\ \A c \in CN : AccessOf(c)' = AccessOf(c)
        /\ AccessOf(cn) = "blocked"
    BY <1>1, <1>2 DEF AccessOf, Accepted, pkiVars
  <2>5. owner' = owner
    BY <2>1, <2>2, <2>3 DEF owner
  <2>6. \A c \in CN : ShownAs(c)' = IF c = cn THEN "revoked" ELSE ShownAs(c)
    <3>1. ASSUME NEW c \in CN, c = cn
          PROVE  ShownAs(c)' = "revoked"
      BY <1>2, <2>2, <2>3, <3>1 DEF ShownAs
    <3>2. ASSUME NEW c \in CN, c # cn
          PROVE  ShownAs(c)' = ShownAs(c)
      BY <2>1, <2>3, <3>2 DEF ShownAs
    <3> QED
      BY <3>1, <3>2
  <2>7. CASE row[cn].status = "REVOKED"
    <3>1. ShownAs(cn) = "revoked"
      BY <1>2, <2>7 DEF ShownAs
    <3> QED
      BY <2>4, <2>5, <2>6, <3>1 DEF Ledger!vars, owner
  <2>8. CASE row[cn].status = "ACTIVE"
    <3>1. ShownAs(cn) \in {"current", "replaced"}
      BY <1>2, <2>8 DEF ShownAs
    <3>2. Ledger!ShowRevoked(cn)
      BY <1>2, <2>4, <2>5, <2>6, <3>1 DEF Ledger!ShowRevoked, owner
    <3> QED
      BY <1>2, <3>2 DEF Ledger!Next
  <2> QED
    BY <1>2, <2>7, <2>8 DEF Row
<1> QED
  BY <1>3, <1>4, <1>0 DEF MarkRevoked

LEMMA LedgerStep ==
  ASSUME IInv, IInv', [Next]_vars
  PROVE  [Ledger!Next]_(Ledger!vars)
<1>1. CASE UNCHANGED <<row, pkiVars>>
  BY <1>1, LedgerStutter DEF pkiVars
<1>2. ASSUME NEW s \in Req, Request(s)
      PROVE  UNCHANGED <<row, pkiVars>>
  BY <1>2 DEF Request, Create, Renew, Revoke, DownloadProfile
<1>3. ASSUME NEW s \in Slot, Step(s)
      PROVE  [Ledger!Next]_(Ledger!vars)
  <2>1. CASE EncryptPrivateKey(s) \/ EnsureCrlReadable(s) \/ ReadProfile(s)
    BY <2>1, LedgerStutter
    DEF EncryptPrivateKey, EnsureCrlReadable, ReadProfile, pkiVars
  <2> QED
    BY <1>3, <2>1, LedgerBuild, LedgerStore, LedgerSupersede, LedgerRevokeStep,
       LedgerGenCrl, LedgerMark DEF Step
<1>4. CASE RefreshCrl \/ Boot \/ Crash \/ UNCHANGED vars
  BY <1>1, <1>4 DEF RefreshCrl, Boot, Crash, vars
<1> QED
  BY <1>1, <1>2, <1>3, <1>4 DEF Next

\* VpnService, EasyRsaService and CrlRefreshService together keep the ledger's
\* promises: access before listing, blocking before showing it, replacement
\* only by a listed credential, and no way back, under every failure.
THEOREM CredentialsImplementLedger == Spec => ImplementsLedger
<1>1. IInv /\ IInv' /\ [Next]_vars => [Ledger!Next]_(Ledger!vars)
  BY LedgerStep
<1> QED
  BY LedgerInit, <1>1, CredentialsInvariant, PTL
  DEF Spec, ImplementsLedger, Ledger!Spec
=============================================================================
