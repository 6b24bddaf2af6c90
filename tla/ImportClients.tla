--------------------------- MODULE ImportClients ---------------------------
(***************************************************************************)
(* `ocm-admin import-clients`: a second process lists the clients of an    *)
(* existing CA in vpn_credentials.  It reads index.txt once and then goes  *)
(* through its entries without a transaction, while the administrator of   *)
(* the CA issues and revokes with easy-rsa and the API does so too.        *)
(***************************************************************************)
EXTENDS Sequences, FiniteSets, Naturals

CONSTANTS CN,              \* Common Names of the CA
          MaxIndex,        \* bound: lines of index.txt
          NoRow

\* A certificate by its extended key usage: a bare server is a server whose
\* certificate was issued without any.
Kind == {"client", "server", "bareServer"}
Entry == [cn : CN, revoked : BOOLEAN]
Row == [revoked : BOOLEAN, hasPassword : BOOLEAN]

ASSUME NoRowAssumption == NoRow \notin Row
ASSUME BoundAssumption == MaxIndex \in Nat

VARIABLES index,           \* index.txt: revoking rewrites a line in place
          issued,          \* pki/issued/CN.crt, by its extended key usage
          encrypted,       \* pki/private/CN.key is there and encrypted
          row,             \* the vpn_credentials table, by common_name
          api,             \* the PKI operation the API is in the middle of
          tool,            \* the import: "idle", "look", "insert"
          dry,             \* --dry-run
          todo,            \* the entries it has still to look at
          password,        \* what it has read of the key it looks at
          imported,        \* the number it reports
          due,             \* history: unlisted clients since it read the index
          calm             \* history: nobody else has done anything since

caVars == <<index, issued, encrypted>>
toolVars == <<tool, dry, todo, password, imported>>
vars == <<caVars, row, api, toolVars, due, calm>>

Free == [op |-> "idle"]
Busy == [op : {"issued", "insert", "mark"}, cn : CN, password : BOOLEAN]

TypeOK == /\ index \in Seq(Entry) /\ Len(index) <= MaxIndex
          /\ issued \in [CN -> Kind \union {"none"}]
          /\ encrypted \in [CN -> BOOLEAN]
          /\ row \in [CN -> Row \union {NoRow}]
          /\ api \in Busy \union {Free}
          /\ tool \in {"idle", "look", "insert"}
          /\ dry \in BOOLEAN /\ password \in BOOLEAN /\ calm \in BOOLEAN
          /\ todo \in Seq(Entry)
          /\ imported \in 0 .. MaxIndex
          /\ due \subseteq CN

Init == /\ index = <<>>
        /\ issued = [cn \in CN |-> "none"]
        /\ encrypted = [cn \in CN |-> FALSE]
        /\ row = [cn \in CN |-> NoRow]
        /\ api = Free
        /\ tool = "idle" /\ dry = FALSE /\ todo = <<>>
        /\ password = FALSE /\ imported = 0
        /\ due = {} /\ calm = TRUE

(***************************************************************************)
(* easy-rsa, at the hands of the CA's administrator or of the API.         *)
(***************************************************************************)
Indexed(cn) == \E i \in DOMAIN index : index[i].cn = cn

\* A certificate appends a valid line to the index; a Common Name may be issued
\* again, to anybody, once it is revoked.
Issue(cn, kind, pw) ==
  /\ issued[cn] = "none"
  /\ Len(index) < MaxIndex
  /\ index' = Append(index, [cn |-> cn, revoked |-> FALSE])
  /\ issued' = [issued EXCEPT ![cn] = kind]
  /\ encrypted' = [encrypted EXCEPT ![cn] = pw]

\* Revoking turns the line of the certificate into an R line where it is, and
\* moves the certificate and its key away.
RevokeCert(cn) ==
  /\ issued[cn] # "none"
  /\ index' = [i \in DOMAIN index |->
                 IF index[i].cn = cn THEN [index[i] EXCEPT !.revoked = TRUE]
                                     ELSE index[i]]
  /\ issued' = [issued EXCEPT ![cn] = "none"]
  /\ encrypted' = [encrypted EXCEPT ![cn] = FALSE]

\* The administrator uses easy-rsa directly.
CaIssue == /\ \E cn \in CN, kind \in Kind, pw \in BOOLEAN : Issue(cn, kind, pw)
           /\ calm' = FALSE
           /\ UNCHANGED <<row, api, toolVars, due>>

CaRevoke == /\ \E cn \in CN : RevokeCert(cn) /\ due' = due \ {cn}
            /\ calm' = FALSE
            /\ UNCHANGED <<row, api, toolVars>>

(***************************************************************************)
(* The API, one PKI operation at a time (see Credentials for the detail).  *)
(***************************************************************************)
\* create: a Common Name that no row has, with a plain key at first.
ApiIssue == /\ api = Free
            /\ \E cn \in CN, pw \in BOOLEAN :
                 /\ row[cn] = NoRow
                 /\ Issue(cn, "client", FALSE)
                 /\ api' = [op |-> IF pw THEN "issued" ELSE "insert",
                            cn |-> cn, password |-> pw]
            /\ calm' = FALSE
            /\ UNCHANGED <<row, toolVars, due>>

\* openssl needs the key, and the profile the certificate: if the administrator
\* has revoked it meanwhile, the request fails.
ApiEncrypt == /\ api.op = "issued"
              /\ IF issued[api.cn] = "none"
                 THEN api' = Free /\ UNCHANGED encrypted
                 ELSE /\ api' = [api EXCEPT !.op = "insert"]
                      /\ encrypted' = [encrypted EXCEPT ![api.cn] = TRUE]
              /\ calm' = FALSE
              /\ UNCHANGED <<index, issued, row, toolVars, due>>

\* The insert; it fails as well if common_name is taken.
ApiInsert == /\ api.op = "insert"
             /\ row' = IF row[api.cn] # NoRow \/ issued[api.cn] = "none" THEN row
                       ELSE [row EXCEPT ![api.cn] =
                               [revoked |-> FALSE, hasPassword |-> api.password]]
             /\ api' = Free
             /\ calm' = FALSE
             /\ UNCHANGED <<caVars, toolVars, due>>

ApiRevoke == /\ api = Free
             /\ \E cn \in CN :
                  /\ row[cn] # NoRow /\ ~row[cn].revoked
                  /\ RevokeCert(cn)
                  /\ api' = [op |-> "mark", cn |-> cn, password |-> FALSE]
                  /\ due' = due \ {cn}
             /\ calm' = FALSE
             /\ UNCHANGED <<row, toolVars>>

ApiMark == /\ api.op = "mark"
           /\ row' = [row EXCEPT ![api.cn].revoked = TRUE]
           /\ api' = Free
           /\ calm' = FALSE
           /\ UNCHANGED <<caVars, toolVars, due>>

(***************************************************************************)
(* importClients.                                                          *)
(***************************************************************************)
Known(cn) == row[cn] # NoRow

\* isClientCertificate: the server's certificate is in the same index, and a
\* certificate without an extended key usage passes for a client's.
IsClientCertificate(cn) == issued[cn] \in {"client", "bareServer"}

\* A slip: the count of the last run is carried over.
ReadIndexCountingOn(d) ==
  /\ tool = "idle"
  /\ index # <<>>
  /\ tool' = "look" /\ dry' = d /\ todo' = index
  /\ due' = {cn \in CN : IsClientCertificate(cn) /\ ~Known(cn)}
  /\ calm' = TRUE
  /\ UNCHANGED <<caVars, row, api, password, imported>>

\* readIndex; an empty index ends the command at once.
ReadIndex(d) ==
  /\ tool = "idle"
  /\ index # <<>>
  /\ tool' = "look" /\ dry' = d /\ todo' = index /\ imported' = 0
  /\ due' = {cn \in CN : IsClientCertificate(cn) /\ ~Known(cn)}
  /\ calm' = TRUE
  /\ UNCHANGED <<caVars, row, api, password>>

\* A slip: a known entry ends the import.
SkipKnownAndStop ==
  /\ tool = "look" /\ todo # <<>>
  /\ ~IsClientCertificate(Head(todo).cn) \/ Known(Head(todo).cn)
  /\ todo' = IF Known(Head(todo).cn) THEN <<>> ELSE Tail(todo)
  /\ UNCHANGED <<caVars, row, api, tool, dry, password, imported, due, calm>>

\* An entry already known, or not a client's, is skipped.
Skip ==
  /\ tool = "look" /\ todo # <<>>
  /\ Known(Head(todo).cn) \/ ~IsClientCertificate(Head(todo).cn)
  /\ todo' = Tail(todo)
  /\ UNCHANGED <<caVars, row, api, tool, dry, password, imported, due, calm>>

\* A slip: the preview does not look at what is known.
LookPreviewingAll ==
  /\ tool = "look" /\ todo # <<>>
  /\ dry \/ ~Known(Head(todo).cn)
  /\ IsClientCertificate(Head(todo).cn)
  /\ imported' = imported + 1
  /\ IF dry THEN todo' = Tail(todo) /\ UNCHANGED <<tool, password>>
            ELSE /\ tool' = "insert"
                 /\ password' = encrypted[Head(todo).cn]
                 /\ UNCHANGED todo
  /\ UNCHANGED <<caVars, row, api, dry, due, calm>>

\* A client not known yet: its key tells whether it has a passphrase.  A dry
\* run only counts it.
Look ==
  /\ tool = "look" /\ todo # <<>>
  /\ ~Known(Head(todo).cn)
  /\ IsClientCertificate(Head(todo).cn)
  /\ imported' = imported + 1
  /\ IF dry THEN todo' = Tail(todo) /\ UNCHANGED <<tool, password>>
            ELSE /\ tool' = "insert"
                 /\ password' = encrypted[Head(todo).cn]
                 /\ UNCHANGED todo
  /\ UNCHANGED <<caVars, row, api, dry, due, calm>>

ImportedRow == [revoked |-> Head(todo).revoked, hasPassword |-> password]

\* A slip: INSERT OR REPLACE.
InsertOrReplace ==
  /\ tool = "insert"
  /\ row' = [row EXCEPT ![Head(todo).cn] = ImportedRow]
  /\ tool' = "look" /\ todo' = Tail(todo)
  /\ UNCHANGED <<caVars, api, dry, password, imported, due, calm>>

\* The row gets the status of the index line.  A row inserted meanwhile makes
\* the statement fail, and the command with it.
Insert ==
  /\ tool = "insert"
  /\ IF Known(Head(todo).cn)
     THEN tool' = "idle" /\ todo' = <<>> /\ UNCHANGED row
     ELSE /\ row' = [row EXCEPT ![Head(todo).cn] = ImportedRow]
          /\ tool' = "look" /\ todo' = Tail(todo)
  /\ UNCHANGED <<caVars, api, dry, password, imported, due, calm>>

Finish ==
  /\ tool = "look" /\ todo = <<>>
  /\ tool' = "idle"
  /\ UNCHANGED <<caVars, row, api, dry, todo, password, imported, due, calm>>

Import == Skip \/ Look \/ Insert \/ Finish

Next == \/ CaIssue \/ CaRevoke
        \/ ApiIssue \/ ApiEncrypt \/ ApiInsert \/ ApiRevoke \/ ApiMark
        \/ \E d \in BOOLEAN : ReadIndex(d)
        \/ Import

Spec == Init /\ [][Next]_vars

(***************************************************************************)
(* Correctness.                                                            *)
(***************************************************************************)
IssuedAgain(cn) == Cardinality({i \in DOMAIN index : index[i].cn = cn}) > 1

\* "Adopt the clients you already issued, so the console lists them and can
\* revoke or re-download their profiles": when an import ends, every client
\* certificate that it found unlisted, and that still works, is listed; as
\* revoked only if the CA has issued its Common Name again, so that the index
\* has a line for the revoked certificate as well.
AdoptsEveryClient ==
  [][Finish /\ ~dry => \A cn \in due :
       Known(cn) /\ (row[cn].revoked => IssuedAgain(cn))]_vars

\* What the command reports, as a preview or after the fact, is the number of
\* clients that were not listed, if nobody interfered; a preview counts a
\* Common Name that was issued again more than once.
ReportIsHonest ==
  [][Finish /\ calm /\ ~(dry /\ \E cn \in due : IssuedAgain(cn))
       => imported = Cardinality(due)]_vars

\* The import never touches a row that is there: one that the API has stored
\* or marked while the import was looking at the PKI stays as it is.
ImportKeepsRows == [][Import => \A cn \in CN : Known(cn) => row'[cn] = row[cn]]_vars

(***************************************************************************)
(* The inductive invariant.                                                *)
(***************************************************************************)
\* A certificate that works has a valid line in the index.
IndexInv == \A cn \in CN : issued[cn] # "none" =>
              \E i \in DOMAIN index : index[i].cn = cn /\ ~index[i].revoked

\* Only what the CA has issued is listed, or about to be listed or marked.
ListedInv == /\ \A cn \in CN : Known(cn) => Indexed(cn)
             /\ api # Free => Indexed(api.cn)
             /\ api.op = "mark" => Known(api.cn) /\ api.cn \notin due

\* The import goes through lines of the index, one of them for each client it
\* owes: as revoked only if the index has another line for it.
Owed(cn) == \E i \in DOMAIN todo : todo[i].cn = cn /\ ~todo[i].revoked
TodoInv ==
  /\ \A i \in DOMAIN todo : /\ Indexed(todo[i].cn)
                            /\ todo[i].revoked /\ todo[i].cn \in due
                                 => IssuedAgain(todo[i].cn)
  /\ tool = "insert" => todo # <<>> /\ ~dry
  /\ tool # "idle" => imported + Len(todo) <= MaxIndex + (IF tool = "insert" THEN 1 ELSE 0)
DueInv ==
  /\ IsFiniteSet(due)
  /\ \A cn \in due : /\ IsClientCertificate(cn)
                     /\ Known(cn) /\ row[cn].revoked => IssuedAgain(cn)
                     /\ tool # "idle" /\ ~dry => Known(cn) \/ Owed(cn)

\* If nobody interferes, what is unlisted is owed, an import has counted what
\* it has listed or is about to, and a preview what it has gone past, for it
\* has no line twice unless a Common Name was issued again.
Listed == {cn \in due : Known(cn)}
Ahead == {cn \in due : \E i \in DOMAIN todo : todo[i].cn = cn}
CountInv ==
  calm /\ tool # "idle" =>
    /\ \A cn \in CN : IsClientCertificate(cn) /\ ~Known(cn) => cn \in due
    /\ ~dry => imported = Cardinality(Listed) + (IF tool = "insert" THEN 1 ELSE 0)
    /\ tool = "insert" => ~Known(Head(todo).cn) /\ Head(todo).cn \in due
    /\ dry /\ (\A cn \in due : ~IssuedAgain(cn)) =>
         /\ Listed = {}
         /\ imported + Cardinality(Ahead) = Cardinality(due)
         /\ \A i, j \in DOMAIN todo :
              todo[i].cn = todo[j].cn /\ todo[i].cn \in due => i = j

ImportInv == /\ TypeOK /\ IndexInv /\ ListedInv
             /\ TodoInv /\ DueInv /\ CountInv
=============================================================================
