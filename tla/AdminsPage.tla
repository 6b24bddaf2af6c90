----------------------------- MODULE AdminsPage -----------------------------
(***************************************************************************)
(* The administrators page of the console and the change-password dialog   *)
(* of its header, within the session of their tab.  The dialog lives as    *)
(* long as AppLayout, the page only until another page is opened; an       *)
(* answer to a component that is gone changes nothing but the token.       *)
(***************************************************************************)
EXTENDS WebSession, FiniteSets

CONSTANT NoId              \* no account

VARIABLES alive,           \* server: the accounts there are
          past,            \* server: the ids of deleted accounts
          changed,         \* history: whose password this tab changed
          mounted, shown,  \* the page: is shown, and its list
          open, submitting, done,    \* the dialog
          orphan           \* the calls whose component is gone

dialogVars == <<open, submitting, done>>
pageVars == <<mounted, shown, dialogVars, orphan>>
tableVars == <<alive, past, changed>>
vars == <<sessionVars, tableVars, pageVars>>

TypeOK == /\ SessionTypeOK
          /\ alive \subseteq Admin \ past /\ past \subseteq Admin
          /\ hasAdmin = (alive # {})
          /\ accepted \subseteq {t \in Token : owner[t] \in alive}
          /\ changed \subseteq Admin
          /\ mounted \in BOOLEAN /\ shown \subseteq Admin
          /\ open \in BOOLEAN /\ submitting \in BOOLEAN /\ done \in BOOLEAN
          /\ orphan \subseteq PageCall

Init == /\ SessionInit
        /\ alive \in SUBSET Admin /\ hasAdmin = (alive # {})
        /\ accepted \subseteq {t \in Token : owner[t] \in alive}
        /\ past = {owner[t] : t \in Token} \ (alive \union {NoUser})
        /\ changed = {}
        /\ mounted = FALSE /\ shown = {}
        /\ open = FALSE /\ submitting = FALSE /\ done = FALSE
        /\ orphan = {}

(***************************************************************************)
(* The server (see Accounts for the handlers).                             *)
(***************************************************************************)
Answers(w, answer) == Answered(w, answer, "none")
Refuse(w) == ~Allowed(w) /\ Answers(w, "refused") /\ UNCHANGED <<serverVars, tableVars>>

\* A deleted account loses access immediately: its tokens are refused.
Remove(a) == /\ alive' = alive \ {a}
             /\ past' = past \union {a}
             /\ accepted' = {t \in accepted : owner[t] # a}
             /\ UNCHANGED <<hasAdmin, owner>>

Add == /\ \E a \in Admin \ (alive \union past) : alive' = alive \union {a}
       /\ UNCHANGED <<serverVars, past>>

ServeList(w) == /\ Waits(w, "admins")
                /\ \/ Refuse(w)
                   \/ /\ Allowed(w) /\ Answered(w, "ok", alive)
                      /\ UNCHANGED <<serverVars, tableVars>>

\* The username may be taken.
ServeCreate(w) ==
  /\ Waits(w, "create")
  /\ \/ Refuse(w)
     \/ Allowed(w) /\ Answers(w, "failed") /\ UNCHANGED <<serverVars, tableVars>>
     \/ Allowed(w) /\ Add /\ Answers(w, "ok") /\ UNCHANGED changed

\* Neither one's own account nor the last one.
ServeDelete(w) == LET a == call[w].arg IN
  /\ Waits(w, "delete")
  /\ \/ Refuse(w)
     \/ /\ Allowed(w)
        /\ IF a \in alive /\ a # owner[call[w].by] /\ Cardinality(alive) > 1
           THEN Remove(a) /\ Answers(w, "ok")
           ELSE Answers(w, "failed") /\ UNCHANGED <<serverVars, alive, past>>
        /\ UNCHANGED changed

\* The current password may be wrong: a 400, so the session goes on.
ServePassword(w) ==
  /\ Waits(w, "password")
  /\ \/ Refuse(w)
     \/ /\ Allowed(w)
        /\ \/ Answers(w, "ok") /\ changed' = changed \union {owner[call[w].by]}
           \/ Answers(w, "failed") /\ UNCHANGED changed
        /\ UNCHANGED <<serverVars, alive, past>>

\* The session's requests: a login needs the account, and setup makes one.
ServeSign(w) ==
  /\ ServeSession(w)
  /\ call[w].what = "login" => owner' = owner \/ call[w].arg \in alive
  /\ alive' = IF hasAdmin' = hasAdmin THEN alive ELSE {call[w].arg}
  /\ UNCHANGED <<past, changed>>

Serve(w) == /\ \/ ServeSign(w)
               \/ ServeFails(w) /\ UNCHANGED <<authVars, early, overlap, tableVars>>
               \/ /\ \/ ServeList(w) \/ ServeCreate(w)
                     \/ ServeDelete(w) \/ ServePassword(w)
                  /\ UNCHANGED <<authVars, early, overlap>>
            /\ UNCHANGED pageVars

\* Another administrator, or ocm-admin.
Elsewhere == /\ \/ alive # {} /\ Add
                \/ \E a \in alive : alive # {a} /\ Remove(a)
             /\ UNCHANGED <<changed, authVars, early, overlap, call, pageVars>>

(***************************************************************************)
(* The page.                                                               *)
(***************************************************************************)
\* load; own is the account whose deletion it follows.
ListCall(own) == Request("admins", token, own)

Visit == /\ ConsoleShown /\ ~mounted
         /\ mounted' = TRUE
         /\ \E w \in PageCall : Free(w) /\ Then(w, ListCall(NoId))
         /\ UNCHANGED <<serverVars, authVars, early, overlap, tableVars, shown, dialogVars, orphan>>

\* The other page is opened: the list is lost, the dialog stays.
Leave == /\ mounted
         /\ mounted' = FALSE /\ shown' = {}
         /\ orphan' = orphan \union {w \in PageCall : call[w].what \notin {"none", "password"}}
         /\ UNCHANGED <<sessionVars, tableVars, dialogVars>>

\* CreateAdminDialog: one creation at a time.
Create(w) == /\ mounted /\ Free(w)
             /\ \A u \in PageCall \ orphan : call[u].what # "create"
             /\ Then(w, Request("create", token, NoId))
             /\ UNCHANGED <<serverVars, authVars, early, overlap, tableVars, pageVars>>

\* A slip: the list is loaded again without waiting for the deletion.
DeleteUnawaited(w, a) ==
  /\ mounted /\ a \in shown \ {user}
  /\ Free(w)
  /\ \E l \in PageCall \ {w} :
       Free(l) /\ call' = [call EXCEPT ![w] = Request("delete", token, a),
                                       ![l] = ListCall(a)]
  /\ UNCHANGED <<serverVars, authVars, early, overlap, tableVars, pageVars>>

\* The button of a row other than "(you)", disabled until its list is back.
Delete(w, a) ==
  /\ mounted /\ a \in shown \ {user}
  /\ Free(w)
  /\ \A u \in PageCall \ orphan : call[u].what \in {"delete", "admins"} => call[u].arg # a
  /\ Then(w, Request("delete", token, a))
  /\ UNCHANGED <<serverVars, authVars, early, overlap, tableVars, pageVars>>

ReceiveList(w) ==
  /\ Has(w, "admins")
  /\ Unauthorized(w)
  /\ Then(w, NoCall)
  /\ orphan' = orphan \ {w}
  /\ shown' = IF w \notin orphan /\ call[w].answer = "ok" THEN call[w].got ELSE shown
  /\ UNCHANGED <<serverVars, user, restoring, needsSetup, early, overlap, tableVars, mounted, dialogVars>>

\* A change is followed by a load, a failed one is not.
ReceiveChange(w) ==
  /\ Has(w, "create") \/ Has(w, "delete")
  /\ Unauthorized(w)
  /\ IF call[w].answer = "ok" THEN Then(w, ListCall(call[w].arg)) /\ UNCHANGED orphan
                              ELSE Then(w, NoCall) /\ orphan' = orphan \ {w}
  /\ UNCHANGED <<serverVars, user, restoring, needsSetup, early, overlap, tableVars,
                 mounted, shown, dialogVars>>

(***************************************************************************)
(* The change-password dialog.                                             *)
(***************************************************************************)
Dialog(o, s, d) == open' = o /\ submitting' = s /\ done' = d

OpenDialog == /\ ConsoleShown /\ ~open
              /\ open' = TRUE
              /\ UNCHANGED <<sessionVars, tableVars, mounted, shown, submitting, done, orphan>>

\* Closing resets the form; a request that is under way goes on.
CloseDialog == /\ open
               /\ Dialog(FALSE, FALSE, FALSE)
               /\ UNCHANGED <<sessionVars, tableVars, mounted, shown, orphan>>

Submit(w) == /\ open /\ ~submitting /\ ~done
             /\ Free(w)
             /\ Then(w, Request("password", token, NoId))
             /\ submitting' = TRUE
             /\ UNCHANGED <<serverVars, authVars, early, overlap, tableVars,
                            mounted, shown, open, done, orphan>>

\* The dialog may have been closed, and opened again, in the meantime.
ReceivePassword(w) ==
  /\ Has(w, "password")
  /\ Unauthorized(w)
  /\ Then(w, NoCall)
  /\ orphan' = orphan \ {w}
  /\ IF w \in orphan THEN UNCHANGED dialogVars
     ELSE Dialog(open, FALSE, done \/ call[w].answer = "ok")
  /\ UNCHANGED <<serverVars, user, restoring, needsSetup, early, overlap, tableVars, mounted, shown>>

(***************************************************************************)
(* The whole.                                                              *)
(***************************************************************************)
\* A slip: the header is not behind RequireAuth.
LayoutKept == IF ConsoleShown' THEN UNCHANGED pageVars
              ELSE mounted' = FALSE /\ shown' = {} /\ UNCHANGED <<dialogVars, orphan>>

\* RequireAuth takes the header and the page away together.
KeepLayout == IF ConsoleShown' THEN UNCHANGED pageVars
              ELSE /\ mounted' = FALSE /\ shown' = {}
                   /\ Dialog(FALSE, FALSE, FALSE)
                   /\ orphan' = {w \in PageCall : call'[w] # NoCall}

SessionStep ==
  /\ \/ /\ \/ Receive \/ Logout \/ Reload
           \/ \E a \in Admin : Login(a) \/ CompleteSetup(a)
           \/ \E t \in Token : TokenEnds(t)
        /\ UNCHANGED alive
     \/ SetupElsewhere /\ \E a \in Admin : alive' = {a}
  /\ KeepLayout
  /\ UNCHANGED <<past, changed>>

PageStep == \/ Visit \/ Leave \/ OpenDialog \/ CloseDialog
            \/ \E w \in PageCall :
                 \/ Create(w) \/ Submit(w) \/ \E a \in Admin : Delete(w, a)
                 \/ ReceiveList(w) \/ ReceiveChange(w) \/ ReceivePassword(w)

Next == SessionStep \/ PageStep \/ Elsewhere \/ \E w \in Flow : Serve(w)

Spec == Init /\ [][Next]_vars

(***************************************************************************)
(* Correctness.                                                            *)
(***************************************************************************)
\* "Password updated." is shown to an administrator whose password was
\* changed, whatever was closed, signed out or signed in meanwhile; with the
\* exception of UserMatchesToken.
DoneHonest == ~overlap /\ done /\ user # NoUser => user \in changed

\* The list is loaded again once a deletion is done: that load does not list
\* the account.  (An older load that is received later may list it again.)
SeesItsDeletion ==
  \A w \in PageCall :
    Has(w, "admins") /\ call[w].answer = "ok" => call[w].arg \notin call[w].got

(***************************************************************************)
(* The inductive invariant.                                                *)
(***************************************************************************)
\* What was deleted stays so; the load that follows a deletion is sent when
\* its account is gone.
CallInv(c, gone) ==
  /\ c.what \in {"none", "admins", "create", "delete", "password"}
  /\ c.what = "admins" => /\ c.arg = NoId \/ c.arg \in gone
                          /\ c.answer = "ok" => c.got \subseteq Admin \ {c.arg}
  /\ c.what = "create" => c.arg = NoId
  /\ c.what = "delete" /\ c.answer = "ok" => c.arg \in gone
TableInv ==
  /\ alive = {} => past = {}
  /\ \A w \in PageCall :
       /\ CallInv(call[w], past)
       /\ call[w].what = "password" /\ call[w].answer = "ok" => owner[call[w].by] \in changed

\* Without the console there is neither page nor dialog, and nobody waits for
\* the answers to come; a dialog waits for the answer to its own user.
LayoutInv ==
  /\ ~ConsoleShown => /\ ~mounted /\ ~open /\ ~done
                      /\ \A w \in PageCall \ orphan : call[w] = NoCall
  /\ ~overlap =>
       /\ \A w \in PageCall \ orphan :
            call[w].what = "password" /\ call[w].by # NoToken /\ user # NoUser
              => owner[call[w].by] = user
       /\ DoneHonest

PageInv == SessionInv /\ TypeOK /\ TableInv /\ LayoutInv
=============================================================================
