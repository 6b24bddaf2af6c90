--------------------------- MODULE CredentialsPage ---------------------------
(***************************************************************************)
(* The credentials page of the console, within the session of its tab: it  *)
(* loads one page of the table at a time, newest first, and loads it again *)
(* after each change.  Loads overlap, and so do changes by others.         *)
(***************************************************************************)
EXTENDS WebSession

CONSTANTS PageSize,        \* PAGE_SIZE
          MaxRows,         \* bound: rows of the table
          NoId

ASSUME PageSizeAssumption == PageSize \in Nat \ {0}
ASSUME MaxRowsAssumption == MaxRows \in Nat /\ NoId \notin Nat

VARIABLES row,             \* server: the table, oldest first
          mounted,         \* the page is shown
          page, shown, total, loading,    \* its state
          orphan           \* the calls whose page is gone

pageVars == <<mounted, page, shown, total, loading, orphan>>
vars == <<sessionVars, row, pageVars>>

Status == {"active", "revoked"}
Pages(n) == IF n = 0 THEN 1 ELSE (n + PageSize - 1) \div PageSize

\* LIMIT PageSize OFFSET (p - 1) * PageSize of a table of n rows.
PageIds(n, p) == {id \in 1 .. n : /\ id + (p - 1) * PageSize <= n
                                  /\ id + p * PageSize > n}

TypeOK == /\ SessionTypeOK
          /\ row \in Seq(Status) /\ Len(row) <= MaxRows
          /\ mounted \in BOOLEAN /\ loading \in BOOLEAN
          /\ page \in 1 .. Pages(MaxRows)
          /\ DOMAIN shown \subseteq 1 .. MaxRows
          /\ total \in 0 .. MaxRows
          /\ orphan \subseteq PageCall

Init == /\ SessionInit
        /\ row = <<>>
        /\ mounted = FALSE /\ page = 1 /\ shown = <<>> /\ total = 0
        /\ loading = FALSE /\ orphan = {}

Gone == /\ mounted' = FALSE /\ page' = 1 /\ shown' = <<>> /\ total' = 0
        /\ loading' = FALSE
        /\ orphan' = {w \in PageCall : call'[w] # NoCall}

(***************************************************************************)
(* The server (see Credentials for what issue and revoke do).              *)
(***************************************************************************)
Refuse(w) == ~Allowed(w) /\ Answered(w, "refused", "none") /\ UNCHANGED row

ServeList(w) == /\ Waits(w, "list")
                /\ \/ Refuse(w)
                   \/ Allowed(w) /\ Answered(w, "ok", row) /\ UNCHANGED row

\* create and renew add a row.
ServeIssue(w) == /\ Waits(w, "issue")
                 /\ \/ Refuse(w)
                    \/ /\ Allowed(w) /\ Len(row) < MaxRows
                       /\ row' = Append(row, "active")
                       /\ Answered(w, "ok", "none")

ServeRevoke(w) ==
  /\ Waits(w, "revoke")
  /\ \/ Refuse(w)
     \/ /\ Allowed(w)
        /\ row' = [row EXCEPT ![call[w].arg.id] = "revoked"]
        /\ Answered(w, IF row[call[w].arg.id] = "revoked" THEN "failed" ELSE "ok", "none")

\* Somebody else issues or revokes.
Elsewhere == /\ \/ Len(row) < MaxRows /\ row' = Append(row, "active")
                \/ \E id \in DOMAIN row : row' = [row EXCEPT ![id] = "revoked"]
             /\ UNCHANGED <<sessionVars, pageVars>>

(***************************************************************************)
(* The page.                                                               *)
(***************************************************************************)
\* One change at a time (a bound).
NoChange == \A w \in PageCall : call[w].what \notin {"issue", "revoke"}

\* load, for page p.  own is the credential whose revocation it follows.
ListCall(p, own) == Request("list", token, [page |-> p, own |-> own])

\* Revoke, renew and create end with the load of the page they were clicked on.
ChangeCall(what, id) == Request(what, token, [id |-> id, page |-> page])

Visit == /\ ConsoleShown /\ ~mounted
         /\ mounted' = TRUE /\ loading' = TRUE
         /\ \E w \in PageCall : Free(w) /\ Then(w, ListCall(1, NoId))
         /\ UNCHANGED <<serverVars, authVars, early, overlap, row, page, shown, total, orphan>>

\* The other page of the console is opened.
Leave == /\ mounted
         /\ UNCHANGED <<sessionVars, row>>
         /\ Gone

Turn(p) == /\ mounted
           /\ page' = p /\ loading' = TRUE
           /\ \E w \in PageCall : Free(w) /\ Then(w, ListCall(p, NoId))
           /\ UNCHANGED <<serverVars, authVars, early, overlap, row, mounted, shown, total, orphan>>

\* Slips: buttons that are never disabled.
PreviousUnchecked == Turn(page - 1)
NextUnchecked == Turn(page + 1)

Previous == page > 1 /\ Turn(page - 1)
NextPage == page < Pages(total) /\ Turn(page + 1)

\* The answer goes to the page, if it is still the one that asked, whatever
\* page number it shows by now.
ReceiveList(w) ==
  /\ Has(w, "list")
  /\ Unauthorized(w)
  /\ Then(w, NoCall)
  /\ orphan' = orphan \ {w}
  /\ IF w \in orphan THEN UNCHANGED <<shown, total, loading>>
     ELSE /\ loading' = FALSE
          /\ IF call[w].answer # "ok" THEN UNCHANGED <<shown, total>>
             ELSE /\ shown' = [id \in PageIds(Len(call[w].got), call[w].arg.page) |->
                                 call[w].got[id]]
                  /\ total' = Len(call[w].got)
  /\ UNCHANGED <<serverVars, user, restoring, needsSetup, early, overlap, row, mounted, page>>

\* CreateCredentialDialog and RenewCredentialDialog.
IssueOne(w) == /\ mounted
               /\ Free(w) /\ NoChange
               /\ Then(w, ChangeCall("issue", NoId))
               /\ UNCHANGED <<serverVars, authVars, early, overlap, row, pageVars>>

\* A slip: the list is loaded again without waiting for the revocation.
RevokeUnawaited(w, id) ==
  /\ mounted
  /\ shown[id] # "revoked"
  /\ Free(w) /\ NoChange
  /\ loading' = TRUE
  /\ \E l \in PageCall \ {w} :
       /\ Free(l)
       /\ call' = [call EXCEPT ![w] = ChangeCall("revoke", id), ![l] = ListCall(page, id)]
  /\ UNCHANGED <<serverVars, authVars, early, overlap, row, mounted, page, shown, total, orphan>>

\* The button of a row that is not shown as revoked.
Revoke(w, id) == /\ mounted
                 /\ shown[id] # "revoked"
                 /\ Free(w) /\ NoChange
                 /\ Then(w, ChangeCall("revoke", id))
                 /\ UNCHANGED <<serverVars, authVars, early, overlap, row, pageVars>>

\* The load that follows is that of the moment of the click.
ReceiveChange(w) ==
  /\ Has(w, "issue") \/ Has(w, "revoke")
  /\ Unauthorized(w)
  /\ IF call[w].answer = "ok"
     THEN /\ Then(w, ListCall(call[w].arg.page, call[w].arg.id))
          /\ loading' = (loading \/ w \notin orphan)
          /\ UNCHANGED orphan
     ELSE /\ Then(w, NoCall)
          /\ orphan' = orphan \ {w}
          /\ UNCHANGED loading
  /\ UNCHANGED <<serverVars, user, restoring, needsSetup, early, overlap, row,
                 mounted, page, shown, total>>

(***************************************************************************)
(* The whole.                                                              *)
(***************************************************************************)
\* RequireAuth takes the page away when it no longer shows the console.
KeepPage == IF ConsoleShown' THEN UNCHANGED pageVars ELSE Gone

SessionStep ==
  /\ \/ Receive \/ Logout \/ Reload
     \/ \E a \in Admin : Login(a) \/ CompleteSetup(a)
     \/ \E t \in Token : TokenEnds(t)
     \/ SetupElsewhere
  /\ KeepPage
  /\ UNCHANGED row

Serve(w) == /\ \/ ServeSession(w) /\ UNCHANGED row
               \/ ServeFails(w) /\ UNCHANGED <<authVars, early, overlap, row>>
               \/ /\ ServeList(w) \/ ServeIssue(w) \/ ServeRevoke(w)
                  /\ UNCHANGED <<serverVars, authVars, early, overlap>>
            /\ UNCHANGED pageVars

PageStep == \/ Visit \/ Leave \/ Previous \/ NextPage
            \/ \E w \in PageCall : \/ ReceiveList(w) \/ ReceiveChange(w)
                                   \/ IssueOne(w)
                                   \/ \E id \in DOMAIN shown : Revoke(w, id)

Next == SessionStep \/ PageStep \/ Elsewhere \/ \E w \in Flow : Serve(w)

Spec == Init /\ [][Next]_vars

(***************************************************************************)
(* Correctness.                                                            *)
(***************************************************************************)
\* The load that follows a revocation reads a table in which it has been made,
\* so the list never comes back with the credential still active.
SeesItsRevocation ==
  \A w \in PageCall : LET c == call[w] IN
    Has(w, "list") /\ c.answer = "ok" /\ c.arg.own # NoId
      => c.got[c.arg.own] = "revoked"

\* Whatever order the answers come in, Next never leads past the last page
\* of the table.
NeverPastTheEnd == page <= Pages(Len(row))

(***************************************************************************)
(* The inductive invariant.                                                *)
(***************************************************************************)
\* What the page knows of the table was once true of it, and a credential
\* once revoked stays so.
Revoked(id, of) == id \in DOMAIN of /\ of[id] = "revoked"
CallInv(c, of) ==
  /\ c.what \in {"none", "list", "issue", "revoke"}
  /\ c.what = "list" =>
       /\ c.arg.own # NoId => Revoked(c.arg.own, of)
       /\ c.answer = "ok" => /\ c.got \in Seq(Status) /\ Len(c.got) <= Len(of)
                             /\ c.arg.own # NoId => Revoked(c.arg.own, c.got)
  /\ c.what = "issue" => c.arg.id = NoId
  /\ c.what = "revoke" => /\ c.arg.id \in DOMAIN of
                          /\ c.answer = "ok" => Revoked(c.arg.id, of)
ShownInv == DOMAIN shown \subseteq DOMAIN row /\ total <= Len(row) /\ NeverPastTheEnd

PageInv == /\ SessionInv /\ TypeOK /\ ShownInv
           /\ \A w \in PageCall : CallInv(call[w], row)
=============================================================================
