----------------------------- MODULE WebSession -----------------------------
(***************************************************************************)
(* The session of the console in the only tab of a browser: AuthContext,   *)
(* the token in localStorage, and request() of lib/api, which forgets the  *)
(* token when a request is refused with 401.                               *)
(*                                                                         *)
(* call[w] is the request that flow w of the tab waits for.  The server    *)
(* answers it in one step, and the tab receives the answer in a later one, *)
(* so answers overtake each other.                                         *)
(***************************************************************************)
EXTENDS Naturals, Sequences

CONSTANTS Admin,           \* the administrators
          Token,           \* the tokens the server may issue (a bound)
          PageCall,        \* the flows of the page that is shown
          AtLogin,         \* bound: is the tab loaded at /login, or elsewhere
          NoUser, NoToken

ASSUME AtLoginAssumption == AtLogin \subseteq BOOLEAN
ASSUME FlowAssumption == {"restore", "sign"} \intersect PageCall = {}
ASSUME NobodyAssumption == NoUser \notin Admin /\ NoToken \notin Token

VARIABLES hasAdmin,        \* server: some account exists
          owner,           \* server: whom it has issued each token to
          accepted,        \* server: the tokens it accepts
          token,           \* localStorage
          user, restoring, needsSetup,    \* the state of AuthProvider
          early,           \* restoring, but the tab was loaded at /login
          overlap,         \* history: since it was loaded somebody has signed
                           \* in there before the session was restored
          call             \* the request each flow waits for

serverVars == <<hasAdmin, owner, accepted>>
authVars == <<token, user, restoring, needsSetup>>
sessionVars == <<serverVars, authVars, early, overlap, call>>

Flow == {"restore", "sign"} \union PageCall
NoCall == [what |-> "none"]

\* A request, sent with the token of that moment; arg is what it is about.
Request(what, by, arg) ==
  [what |-> what, by |-> by, arg |-> arg, answer |-> "none", got |-> "none"]
Waits(w, what) == call[w].what = what /\ call[w].answer = "none"
Has(w, what) == call[w].what = what /\ call[w].answer # "none"
Answered(w, answer, got) ==
  call' = [call EXCEPT ![w].answer = answer, ![w].got = got]
Then(w, next) == call' = [call EXCEPT ![w] = next]
Free(w) == call[w] = NoCall

SessionTypeOK ==
  /\ hasAdmin \in BOOLEAN
  /\ owner \in [Token -> Admin \union {NoUser}]
  /\ accepted \subseteq {t \in Token : owner[t] # NoUser}
  /\ token \in Token \union {NoToken}
  /\ user \in Admin \union {NoUser}
  /\ restoring \in BOOLEAN /\ needsSetup \in BOOLEAN
  /\ early \in BOOLEAN /\ overlap \in BOOLEAN
  /\ DOMAIN call = Flow

\* The tab is opened; whether it has a token of an earlier visit is left open.
SessionInit ==
  /\ hasAdmin \in BOOLEAN
  /\ \/ /\ owner = [t \in Token |-> NoUser] /\ accepted = {} /\ token = NoToken
     \/ /\ hasAdmin
        /\ \E t \in Token, a \in Admin :
             /\ owner = [u \in Token |-> IF u = t THEN a ELSE NoUser]
             /\ accepted \in {{}, {t}}
             /\ token = t
  /\ user = NoUser /\ restoring = TRUE /\ needsSetup = FALSE
  /\ early \in AtLogin /\ overlap = FALSE
  /\ call = [w \in Flow |-> IF w = "restore" THEN Request("status", token, NoUser)
                                              ELSE NoCall]

(***************************************************************************)
(* The server.                                                             *)
(***************************************************************************)
\* A fresh token for a.
Issue(w, a) == \E t \in Token :
                 /\ owner[t] = NoUser
                 /\ owner' = [owner EXCEPT ![t] = a]
                 /\ accepted' = accepted \union {t}
                 /\ Answered(w, "ok", t)

ServeStatus(w) == /\ Waits(w, "status")
                  /\ Answered(w, "ok", ~hasAdmin)
                  /\ UNCHANGED serverVars

ServeMe(w) == /\ \E what \in {"me", "loginMe", "setupMe"} : Waits(w, what)
              /\ Answered(w, IF call[w].by \in accepted THEN "ok" ELSE "refused", "none")
              /\ UNCHANGED serverVars

\* A wrong password is a 401 as well.
ServeLogin(w) == /\ Waits(w, "login")
                 /\ \/ hasAdmin /\ Issue(w, call[w].arg)
                    \/ Answered(w, "refused", "none") /\ UNCHANGED <<owner, accepted>>
                 /\ UNCHANGED hasAdmin

\* The login at the end of setup may find the username locked.
ServeSetup(w) ==
  /\ Waits(w, "setup")
  /\ \/ ~hasAdmin /\ Issue(w, call[w].arg)
     \/ Answered(w, "failed", "none") /\ UNCHANGED <<owner, accepted>>
  /\ hasAdmin' = TRUE

\* No answer, an error of the server, or a 429.
ServeFails(w) == /\ call[w].what # "none" /\ call[w].answer = "none"
                 /\ Answered(w, "failed", "none")
                 /\ UNCHANGED serverVars

ServeSession(w) == /\ ServeStatus(w) \/ ServeMe(w) \/ ServeLogin(w) \/ ServeSetup(w)
                   /\ UNCHANGED <<authVars, early, overlap>>

\* A token expires, or its account is deleted.
TokenEnds(t) == /\ t \in accepted
                /\ accepted' = accepted \ {t}
                /\ UNCHANGED <<hasAdmin, owner, authVars, early, overlap, call>>

SetupElsewhere == /\ ~hasAdmin
                  /\ hasAdmin' = TRUE
                  /\ UNCHANGED <<owner, accepted, authVars, early, overlap, call>>

\* JwtAuthGuard, for the requests of the pages.
Allowed(w) == call[w].by \in accepted

(***************************************************************************)
(* request(): a 401 forgets the token, whichever it was sent with.         *)
(***************************************************************************)
Unauthorized(w) == token' = IF call[w].answer = "refused" THEN NoToken ELSE token

(***************************************************************************)
(* AuthProvider: restoring a session when the tab is opened.               *)
(***************************************************************************)
\* With no account yet there is no session to restore.
RestoreStatus ==
  /\ Has("restore", "status")
  /\ IF call["restore"].answer = "failed"
     THEN user' = NoUser /\ restoring' = FALSE /\ Then("restore", NoCall)
          /\ UNCHANGED needsSetup
     ELSE /\ needsSetup' = call["restore"].got
          /\ restoring' = ~call["restore"].got
          /\ Then("restore", IF call["restore"].got THEN NoCall
                                     ELSE Request("me", token, NoUser))
          /\ UNCHANGED user
  /\ early' = (early /\ restoring')
  /\ UNCHANGED <<serverVars, token, overlap>>

RestoreMe ==
  /\ Has("restore", "me")
  /\ Unauthorized("restore")
  /\ user' = IF call["restore"].answer = "ok" THEN owner[call["restore"].by] ELSE NoUser
  /\ restoring' = FALSE
  /\ Then("restore", NoCall)
  /\ early' = FALSE
  /\ UNCHANGED <<serverVars, needsSetup, overlap>>

(***************************************************************************)
(* LoginPage and SetupPage, with login and completeSetup of AuthProvider.  *)
(***************************************************************************)
\* A slip: RequireAuth sends to /login before the session is restored.
LoginShownEarly == user = NoUser /\ ~needsSetup

\* RequireAuth shows a spinner while a session is being restored; the route
\* /login does not.
LoginShown == user = NoUser /\ ~needsSetup /\ (restoring => early)

SetupShown == user = NoUser /\ needsSetup

\* RequireAuth.
ConsoleShown == user # NoUser /\ ~restoring /\ ~needsSetup

\* The button is disabled while submitting.  A bound: leaving the login page
\* and coming back to it does not start a second login beside the first.
Login(a) == /\ LoginShown
            /\ call["sign"] = NoCall
            /\ Then("sign", Request("login", token, a))
            /\ overlap' = (overlap \/ early)
            /\ UNCHANGED <<serverVars, authVars, early>>

CompleteSetup(a) == /\ SetupShown
                    /\ call["sign"] = NoCall
                    /\ Then("sign", Request("setup", token, a))
                    /\ UNCHANGED <<serverVars, authVars, early, overlap>>

\* The tokens arrive: they are stored, and me is asked for their owner.
Signed(what, me) ==
  /\ Has("sign", what)
  /\ IF call["sign"].answer = "ok"
     THEN /\ token' = call["sign"].got
          /\ Then("sign", Request(me, token', NoUser))
     ELSE Unauthorized("sign") /\ Then("sign", NoCall)
  /\ UNCHANGED <<serverVars, user, restoring, needsSetup, early, overlap>>

SignedMe(me) ==
  /\ Has("sign", me)
  /\ IF call["sign"].answer = "ok"
     THEN /\ user' = owner[call["sign"].by]
          /\ needsSetup' = (needsSetup /\ me # "setupMe")
          /\ UNCHANGED token
     ELSE Unauthorized("sign") /\ UNCHANGED <<user, needsSetup>>
  /\ Then("sign", NoCall)
  /\ UNCHANGED <<serverVars, restoring, early, overlap>>

\* The menu is in the header, behind RequireAuth.
Logout == /\ ConsoleShown
          /\ token' = NoToken /\ user' = NoUser
          /\ UNCHANGED <<serverVars, restoring, needsSetup, early, overlap, call>>

\* The tab is loaded again, at /login (to which /setup leads) if it is there or
\* that is entered, or behind RequireAuth: only localStorage survives.
Reload == /\ user' = NoUser /\ restoring' = TRUE /\ needsSetup' = FALSE
          /\ early' \in AtLogin /\ overlap' = FALSE
          /\ call' = [w \in Flow |-> IF w = "restore"
                                     THEN Request("status", token, NoUser) ELSE NoCall]
          /\ UNCHANGED <<serverVars, token>>

Receive == \/ RestoreStatus \/ RestoreMe
           \/ Signed("login", "loginMe") \/ Signed("setup", "setupMe")
           \/ SignedMe("loginMe") \/ SignedMe("setupMe")

\* RequireAuth: the administrator whose name the console shows is the one its
\* requests are made for, however late an answer of an earlier session comes;
\* the exception is a tab where somebody signed in at /login before the session
\* was restored, for LoginPage does not wait for that.
UserMatchesToken ==
  ~overlap /\ user # NoUser /\ token # NoToken => owner[token] = user

(***************************************************************************)
(* The inductive invariant.                                                *)
(***************************************************************************)
SessionCalls == {"status", "me", "login", "loginMe", "setup", "setupMe"}

IsRequest(c) ==
  /\ c.what # "none" /\ c.by \in Token \union {NoToken}
  /\ c = [what |-> c.what, by |-> c.by, arg |-> c.arg, answer |-> c.answer, got |-> c.got]

\* Which requests each flow sends.
CallsInv ==
  /\ call = [w \in Flow |-> call[w]]
  /\ \A w \in Flow : call[w] = NoCall \/ IsRequest(call[w])
  /\ call["restore"].what \in {"none", "status", "me"}
  /\ call["sign"].what \in {"none", "login", "loginMe", "setup", "setupMe"}
  /\ \A w \in PageCall : call[w].what \notin SessionCalls

\* What is answered: all but status, login and setup need a token that the
\* server has issued.
AnswerInv == \A w \in Flow : LET c == call[w] IN
  /\ c.what = "status" =>
       c.answer \in {"none", "ok", "failed"} /\ (c.answer = "ok" => c.got \in BOOLEAN)
  /\ c.what \in {"login", "setup"} =>
       c.arg \in Admin /\ (c.answer = "ok" => c.got \in Token)
  /\ c.what \notin {"none", "status", "login", "setup"} /\ c.answer = "ok" =>
       c.by \in Token /\ owner[c.by] # NoUser

\* If nobody signs in before the session is restored, nobody does beside a
\* session either, so the token is that of the me in flight.
OneSession ==
  ~overlap =>
    /\ call["restore"] # NoCall => restoring
    /\ restoring => user = NoUser /\ ~needsSetup /\ call["sign"] = NoCall
    /\ call["sign"] # NoCall => user = NoUser
    /\ call["restore"].what = "me" => token \in {call["restore"].by, NoToken}
    /\ call["sign"].what \in {"loginMe", "setupMe"} => token \in {call["sign"].by, NoToken}
    /\ UserMatchesToken

SessionInv == SessionTypeOK /\ CallsInv /\ AnswerInv /\ OneSession
=============================================================================
