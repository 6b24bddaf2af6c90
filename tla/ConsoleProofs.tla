---------------------------- MODULE ConsoleProofs ----------------------------
(***************************************************************************)
(* What the console shows, proved for any number of administrators, tokens *)
(* and requests in flight, and every size of a page, wherever a tab is     *)
(* loaded: the invariant ConsoleInv, and from it the safety properties of  *)
(* the console.  The order is that of the model: requests and answers, the *)
(* session, the credentials page, the administrators page, the whole.      *)
(***************************************************************************)
EXTENDS Console, FiniteSetTheorems, SequenceTheorems, TLAPS

(***************************************************************************)
(* Requests and their answers.                                             *)
(***************************************************************************)
LEMMA FlowFacts ==
  /\ "restore" \in Flow /\ "sign" \in Flow /\ PageCall \subseteq Flow
  /\ "restore" \notin PageCall /\ "sign" \notin PageCall
  /\ \A w \in Flow : w \notin PageCall => w \in {"restore", "sign"}
  /\ NoUser \notin Admin /\ NoToken \notin Token
BY FlowAssumption, NobodyAssumption DEF Flow

LEMMA RequestFacts ==
  ASSUME NEW what, NEW by, NEW arg
  PROVE  LET r == Request(what, by, arg) IN
         /\ r.what = what /\ r.by = by /\ r.arg = arg
         /\ r.answer = "none" /\ r.got = "none"
         /\ what # "none" /\ by \in Token \union {NoToken} => IsRequest(r)
BY DEF Request, IsRequest

LEMMA NoCallFacts == NoCall.what = "none"
BY DEF NoCall

\* An answer changes nothing of a request but the answer.
LEMMA AnsweredFacts ==
  ASSUME CallsInv, NEW w \in Flow, call[w].what # "none",
         NEW answer, NEW got, Answered(w, answer, got)
  PROVE  /\ CallsInv' /\ DOMAIN call' = Flow
         /\ \A u \in Flow : u # w => call'[u] = call[u]
         /\ \A u \in Flow : /\ call'[u].what = call[u].what
                            /\ call'[u].by = call[u].by
                            /\ call'[u].arg = call[u].arg
         /\ call'[w].answer = answer /\ call'[w].got = got
         /\ \A u \in Flow : call[u] = NoCall <=> call'[u] = NoCall
<1>1. /\ call = [u \in Flow |-> call[u]] /\ DOMAIN call = Flow
      /\ \A u \in Flow : call[u] = NoCall \/ IsRequest(call[u])
  BY DEF CallsInv
<1>2. PICK c : /\ c = call[w] /\ c.what # "none" /\ c.by \in Token \union {NoToken}
               /\ c = [what |-> c.what, by |-> c.by, arg |-> c.arg,
                       answer |-> c.answer, got |-> c.got]
  BY <1>1, NoCallFacts DEF IsRequest
<1>3. call' = [call EXCEPT ![w].answer = answer, ![w].got = got]
  BY DEF Answered
<1>5. call'[w] = [what |-> c.what, by |-> c.by, arg |-> c.arg, answer |-> answer, got |-> got]
  BY <1>1, <1>2, <1>3
<1>6. /\ call'[w].what = call[w].what /\ call'[w].by = call[w].by
      /\ call'[w].arg = call[w].arg
      /\ call'[w].answer = answer /\ call'[w].got = got
  BY <1>2, <1>5
<1>7. /\ DOMAIN call' = Flow /\ call' = [u \in Flow |-> call'[u]]
      /\ \A u \in Flow : u # w => call'[u] = call[u]
  BY <1>1, <1>3
<1>8. IsRequest(call'[w])
  BY <1>2, <1>5, <1>6 DEF IsRequest
<1>9. /\ call[w] # NoCall /\ call'[w] # NoCall
  BY <1>2, <1>6, NoCallFacts
<1>10. \A u \in Flow : /\ call'[u].what = call[u].what
                       /\ call'[u].by = call[u].by
                       /\ call'[u].arg = call[u].arg
  BY <1>6, <1>7
<1>11. CallsInv'
  <2>1. \A u \in Flow : call'[u] = NoCall \/ IsRequest(call'[u])
    BY <1>1, <1>7, <1>8
  <2>2. \A u \in Flow : (IsRequest(call[u]))' <=> IsRequest(call'[u])
    BY DEF IsRequest
  <2> QED
    BY <1>7, <1>10, <2>1, <2>2, FlowFacts DEF CallsInv, NoCall
<1> QED
  BY <1>6, <1>7, <1>9, <1>10, <1>11

\* What a flow goes on with is nothing, or a request it may send.
LEMMA ThenFacts ==
  ASSUME CallsInv, NEW w \in Flow, NEW next, Then(w, next)
  PROVE  /\ DOMAIN call' = Flow /\ call' = [u \in Flow |-> call'[u]]
         /\ call'[w] = next /\ \A u \in Flow : u # w => call'[u] = call[u]
BY DEF CallsInv, Then

LEMMA ThenKeepsCalls ==
  ASSUME CallsInv, NEW w \in Flow, NEW next, Then(w, next),
         next = NoCall \/ IsRequest(next),
         w = "restore" => next.what \in {"none", "status", "me"},
         w = "sign" => next.what \in {"none", "login", "loginMe", "setup", "setupMe"},
         w \in PageCall => next.what \notin SessionCalls
  PROVE  CallsInv'
<1>1. /\ call' = [u \in Flow |-> call'[u]]
      /\ call'[w] = next /\ \A u \in Flow : u # w => call'[u] = call[u]
  BY ThenFacts
<1>2. \A u \in Flow : call'[u] = NoCall \/ IsRequest(call'[u])
  BY <1>1 DEF CallsInv
<1>3. \A u \in Flow : (IsRequest(call[u]))' <=> IsRequest(call'[u])
  BY DEF IsRequest
<1> QED
  BY <1>1, <1>2, <1>3, FlowFacts DEF CallsInv, NoCall

(***************************************************************************)
(* The session of the tab.                                                 *)
(***************************************************************************)
\* The server answers, and issues at most tokens that were not in use.
LEMMA AnswerKeepsSession ==
  ASSUME SessionInv, NEW w \in Flow, call[w].what # "none", NEW answer, NEW got,
         Answered(w, answer, got), UNCHANGED <<authVars, early, overlap>>,
         hasAdmin' \in BOOLEAN, owner' \in [Token -> Admin \union {NoUser}],
         accepted' \subseteq {t \in Token : owner'[t] # NoUser},
         \A t \in Token : owner[t] # NoUser => owner'[t] = owner[t],
         call[w].what = "status" =>
           answer \in {"ok", "failed"} /\ (answer = "ok" => got \in BOOLEAN),
         call[w].what \in {"login", "setup"} => (answer = "ok" => got \in Token),
         call[w].what \notin {"status", "login", "setup"} /\ answer = "ok" =>
           call[w].by \in accepted
  PROVE  SessionInv'
<1>1. SessionTypeOK /\ CallsInv /\ AnswerInv /\ OneSession
  BY DEF SessionInv
<1>2. /\ CallsInv' /\ DOMAIN call' = Flow
      /\ \A u \in Flow : u # w => call'[u] = call[u]
      /\ \A u \in Flow : /\ call'[u].what = call[u].what
                         /\ call'[u].by = call[u].by
                         /\ call'[u].arg = call[u].arg
      /\ call'[w].answer = answer /\ call'[w].got = got
      /\ \A u \in Flow : call[u] = NoCall <=> call'[u] = NoCall
  BY <1>1, AnsweredFacts
<1>3. UNCHANGED <<token, user, restoring, needsSetup, early, overlap>>
  BY DEF authVars
<1>4. SessionTypeOK'
  BY <1>1, <1>2, <1>3 DEF SessionTypeOK
<1>5. AnswerInv'
  <2> SUFFICES ASSUME NEW u \in Flow
               PROVE  LET c == call'[u] IN
                      /\ c.what = "status" =>
                           /\ c.answer \in {"none", "ok", "failed"}
                           /\ c.answer = "ok" => c.got \in BOOLEAN
                      /\ c.what \in {"login", "setup"} =>
                           c.arg \in Admin /\ (c.answer = "ok" => c.got \in Token)
                      /\ c.what \notin {"none", "status", "login", "setup"} /\ c.answer = "ok" =>
                           c.by \in Token /\ owner'[c.by] # NoUser
    BY DEF AnswerInv
  <2>1. CASE u # w
    BY <1>1, <1>2, <2>1 DEF AnswerInv
  <2>2. CASE u = w
    <3>1. call[w].by \in accepted => call[w].by \in Token /\ owner'[call[w].by] # NoUser
      BY <1>1 DEF SessionTypeOK
    <3>2. call[w].what \in {"login", "setup"} => call[w].arg \in Admin
      BY <1>1 DEF AnswerInv
    <3> QED
      BY <1>2, <2>2, <3>1, <3>2
  <2> QED
    BY <2>1, <2>2
<1>6. OneSession'
  <2>1. UserMatchesToken => UserMatchesToken'
    BY <1>1, <1>3 DEF UserMatchesToken, SessionTypeOK
  <2> QED
    BY <1>1, <1>2, <1>3, <2>1, FlowFacts DEF OneSession
<1> QED
  BY <1>2, <1>4, <1>5, <1>6 DEF SessionInv

\* What only concerns which requests are in flight.
LEMMA AnswerStays ==
  ASSUME AnswerInv, UNCHANGED owner, NEW w \in Flow,
         \A u \in Flow : u # w => call'[u] = call[u],
         \/ call'[w].what = "none"
         \/ /\ call'[w].what # "none" /\ call'[w].answer = "none"
            /\ call'[w].what \in {"login", "setup"} => call'[w].arg \in Admin
  PROVE  AnswerInv'
<1> SUFFICES ASSUME NEW u \in Flow
             PROVE  LET c == call'[u] IN
                    /\ c.what = "status" =>
                         /\ c.answer \in {"none", "ok", "failed"}
                         /\ c.answer = "ok" => c.got \in BOOLEAN
                    /\ c.what \in {"login", "setup"} =>
                         c.arg \in Admin /\ (c.answer = "ok" => c.got \in Token)
                    /\ c.what \notin {"none", "status", "login", "setup"} /\ c.answer = "ok" =>
                         c.by \in Token /\ owner'[c.by] # NoUser
  BY DEF AnswerInv
<1>1. CASE u # w
  BY <1>1 DEF AnswerInv
<1>2. CASE u = w
  BY <1>2
<1> QED
  BY <1>1, <1>2

\* A page sends a request, or receives the answer to one.
LEMMA PageKeepsSession ==
  ASSUME SessionInv, NEW w \in PageCall, NEW next, Then(w, next),
         \/ next = NoCall
         \/ /\ IsRequest(next) /\ next.answer = "none"
            /\ next.what \notin SessionCalls,
         token' \in {token, NoToken},
         UNCHANGED <<serverVars, user, restoring, needsSetup, early, overlap>>
  PROVE  SessionInv'
<1>1. SessionTypeOK /\ CallsInv /\ AnswerInv /\ OneSession
  BY DEF SessionInv
<1>2. w \in Flow /\ w # "restore" /\ w # "sign"
  BY FlowFacts
<1>3. next.what \notin SessionCalls /\ (next = NoCall \/ IsRequest(next))
  BY NoCallFacts DEF SessionCalls
<1>4. CallsInv'
  BY <1>1, <1>2, <1>3, ThenKeepsCalls
<1>5. /\ DOMAIN call' = Flow
      /\ call'[w] = next /\ \A u \in Flow : u # w => call'[u] = call[u]
  BY <1>1, <1>2, ThenFacts
<1>6. UNCHANGED <<hasAdmin, owner, accepted>>
  BY DEF serverVars
<1>7. SessionTypeOK'
  BY <1>1, <1>5, <1>6 DEF SessionTypeOK
<1>8. AnswerInv'
  <2>1. \/ next.what = "none"
        \/ next.what # "none" /\ next.answer = "none" /\ next.what \notin {"login", "setup"}
    BY NoCallFacts DEF IsRequest, SessionCalls
  <2> QED
    BY <1>1, <1>2, <1>5, <1>6, <2>1, AnswerStays
<1>9. OneSession'
  <2>1. UserMatchesToken => UserMatchesToken'
    BY <1>6 DEF UserMatchesToken
  <2>2. call'["restore"] = call["restore"] /\ call'["sign"] = call["sign"]
    BY <1>2, <1>5, FlowFacts
  <2> QED
    BY <1>1, <2>1, <2>2 DEF OneSession
<1> QED
  BY <1>4, <1>7, <1>8, <1>9 DEF SessionInv

(***************************************************************************)
(* The server's part of the session.                                       *)
(***************************************************************************)
LEMMA IssueFacts ==
  ASSUME SessionTypeOK, NEW w, NEW a \in Admin, Issue(w, a)
  PROVE  /\ \E t \in Token : /\ Answered(w, "ok", t)
                             /\ owner[t] = NoUser /\ owner'[t] = a
                             /\ accepted' = accepted \union {t}
         /\ owner' \in [Token -> Admin \union {NoUser}] /\ owner' # owner
         /\ accepted' \subseteq {t \in Token : owner'[t] # NoUser}
         /\ \A t \in Token : owner[t] # NoUser => owner'[t] = owner[t]
<1>1. PICK t \in Token : /\ owner[t] = NoUser
                         /\ owner' = [owner EXCEPT ![t] = a]
                         /\ accepted' = accepted \union {t}
                         /\ Answered(w, "ok", t)
  BY DEF Issue
<1>2. a # NoUser
  BY FlowFacts
<1>3. /\ owner \in [Token -> Admin \union {NoUser}]
      /\ accepted \subseteq {u \in Token : owner[u] # NoUser}
  BY DEF SessionTypeOK
<1>4. /\ owner' \in [Token -> Admin \union {NoUser}] /\ owner'[t] = a
      /\ \A u \in Token : u # t => owner'[u] = owner[u]
  BY <1>1, <1>3
<1> QED
  BY <1>1, <1>2, <1>3, <1>4

\* Which request a step of the server answers.
LEMMA ServeSessionInv ==
  ASSUME SessionInv, NEW w \in Flow, ServeSession(w)
  PROVE  SessionInv'
<1>1. SessionTypeOK /\ AnswerInv
  BY DEF SessionInv
<1>2. UNCHANGED <<authVars, early, overlap>>
  BY DEF ServeSession
<1>3. /\ hasAdmin \in BOOLEAN /\ owner \in [Token -> Admin \union {NoUser}]
      /\ accepted \subseteq {t \in Token : owner[t] # NoUser}
  BY <1>1 DEF SessionTypeOK
<1>4. CASE ServeStatus(w)
  <2>1. /\ call[w].what = "status" /\ Answered(w, "ok", ~hasAdmin)
        /\ UNCHANGED <<hasAdmin, owner, accepted>>
    BY <1>4 DEF ServeStatus, Waits, serverVars
  <2>2. (~hasAdmin) \in BOOLEAN
    OBVIOUS
  <2> QED
    BY <1>2, <1>3, <2>1, <2>2, AnswerKeepsSession
<1>5. CASE ServeMe(w)
  <2>1. PICK answer \in {"ok", "refused"} :
          Answered(w, answer, "none") /\ (answer = "ok" => call[w].by \in accepted)
    BY <1>5 DEF ServeMe
  <2>2. /\ call[w].what \in {"me", "loginMe", "setupMe"}
        /\ UNCHANGED <<hasAdmin, owner, accepted>>
    BY <1>5 DEF ServeMe, Waits, serverVars
  <2> QED
    BY <1>2, <1>3, <2>1, <2>2, AnswerKeepsSession
<1>6. CASE ServeLogin(w)
  <2>1. call[w].what = "login" /\ UNCHANGED hasAdmin /\ call[w].arg \in Admin
    BY <1>1, <1>6 DEF ServeLogin, Waits, AnswerInv
  <2>2. CASE Issue(w, call[w].arg)
    BY <1>1, <1>2, <1>3, <2>1, <2>2, IssueFacts, AnswerKeepsSession
  <2>3. CASE Answered(w, "refused", "none") /\ UNCHANGED <<owner, accepted>>
    BY <1>2, <1>3, <2>1, <2>3, AnswerKeepsSession
  <2> QED
    BY <1>6, <2>2, <2>3 DEF ServeLogin
<1>7. CASE ServeSetup(w)
  <2>1. call[w].what = "setup" /\ hasAdmin' = TRUE /\ call[w].arg \in Admin
    BY <1>1, <1>7 DEF ServeSetup, Waits, AnswerInv
  <2>2. CASE Issue(w, call[w].arg)
    BY <1>1, <1>2, <1>3, <2>1, <2>2, IssueFacts, AnswerKeepsSession
  <2>3. CASE Answered(w, "failed", "none") /\ UNCHANGED <<owner, accepted>>
    BY <1>2, <1>3, <2>1, <2>3, AnswerKeepsSession
  <2> QED
    BY <1>7, <2>2, <2>3 DEF ServeSetup
<1> QED
  BY <1>4, <1>5, <1>6, <1>7 DEF ServeSession

LEMMA ServeFailsInv ==
  ASSUME SessionInv, NEW w \in Flow, ServeFails(w), UNCHANGED <<authVars, early, overlap>>
  PROVE  SessionInv'
<1>1. /\ hasAdmin \in BOOLEAN /\ owner \in [Token -> Admin \union {NoUser}]
      /\ accepted \subseteq {t \in Token : owner[t] # NoUser}
  BY DEF SessionInv, SessionTypeOK
<1>2. /\ call[w].what # "none" /\ Answered(w, "failed", "none")
      /\ UNCHANGED <<hasAdmin, owner, accepted>>
  BY DEF ServeFails, serverVars
<1> QED
  BY <1>1, <1>2, AnswerKeepsSession

(***************************************************************************)
(* The tab's part of the session.                                          *)
(***************************************************************************)
\* A flow of the session goes on with another of its requests, or with none.
LEMMA FlowGoesOn ==
  ASSUME SessionInv, NEW w \in {"restore", "sign"}, NEW next, Then(w, next),
         \/ next = NoCall
         \/ /\ IsRequest(next) /\ next.answer = "none"
            /\ next.what \in {"login", "setup"} => next.arg \in Admin,
         w = "restore" => next.what \in {"none", "status", "me"},
         w = "sign" => next.what \in {"none", "login", "loginMe", "setup", "setupMe"},
         UNCHANGED serverVars
  PROVE  /\ CallsInv' /\ AnswerInv' /\ DOMAIN call' = Flow
         /\ call'[w] = next /\ \A u \in Flow : u # w => call'[u] = call[u]
<1>1. CallsInv /\ AnswerInv /\ UNCHANGED owner
  BY DEF SessionInv, serverVars
<1>2. w \in Flow /\ w \notin PageCall
  BY FlowFacts
<1>3. /\ DOMAIN call' = Flow
      /\ call'[w] = next /\ \A u \in Flow : u # w => call'[u] = call[u]
  BY <1>1, <1>2, ThenFacts
<1>4. CallsInv'
  BY <1>1, <1>2, ThenKeepsCalls
<1>5. \/ next.what = "none"
      \/ /\ next.what # "none" /\ next.answer = "none"
         /\ next.what \in {"login", "setup"} => next.arg \in Admin
  BY NoCallFacts DEF IsRequest
<1>6. AnswerInv'
  BY <1>1, <1>2, <1>3, <1>5, AnswerStays
<1> QED
  BY <1>3, <1>4, <1>6

\* The state of AuthProvider and the token, when the server does nothing.
LEMMA AuthStays ==
  ASSUME SessionTypeOK, UNCHANGED serverVars, DOMAIN call' = Flow,
         token' \in Token \union {NoToken}, user' \in Admin \union {NoUser},
         restoring' \in BOOLEAN, needsSetup' \in BOOLEAN, early' \in BOOLEAN /\ overlap' \in BOOLEAN
  PROVE  SessionTypeOK'
BY DEF SessionTypeOK, serverVars

LEMMA RestoreStatusInv ==
  ASSUME SessionInv, RestoreStatus
  PROVE  SessionInv'
<1>1. SessionTypeOK /\ CallsInv /\ AnswerInv /\ OneSession
  BY DEF SessionInv
<1>2. /\ call["restore"].what = "status" /\ call["restore"].answer # "none"
      /\ UNCHANGED <<serverVars, token, overlap>>
  BY DEF RestoreStatus, Has
<1>3. /\ token \in Token \union {NoToken} /\ user \in Admin \union {NoUser}
      /\ needsSetup \in BOOLEAN /\ early \in BOOLEAN /\ overlap \in BOOLEAN
  BY <1>1 DEF SessionTypeOK
<1>4. PICK next : /\ Then("restore", next)
                  /\ next = NoCall \/ next = Request("me", token, NoUser)
                  /\ user' \in {user, NoUser}
                  /\ next # NoCall => restoring' = TRUE
                  /\ restoring' \in BOOLEAN /\ needsSetup' \in BOOLEAN
                  /\ restoring' = TRUE => user' = user /\ needsSetup' = FALSE
  <2>1. call["restore"].answer \in {"ok", "failed"}
        /\ (call["restore"].answer = "ok" => call["restore"].got \in BOOLEAN)
    BY <1>1, <1>2, FlowFacts DEF AnswerInv
  <2>2. CASE call["restore"].answer = "failed"
    BY <1>3, <2>2 DEF RestoreStatus
  <2>3. CASE call["restore"].answer = "ok" /\ call["restore"].got = TRUE
    BY <1>3, <2>3 DEF RestoreStatus
  <2>4. CASE call["restore"].answer = "ok" /\ call["restore"].got = FALSE
    BY <1>3, <2>4 DEF RestoreStatus
  <2> QED
    BY <2>1, <2>2, <2>3, <2>4
<1>5. /\ next.what \in {"none", "me"} /\ (next.what = "me" => next.by = token)
      /\ \/ next = NoCall
         \/ IsRequest(next) /\ next.answer = "none" /\ next.what = "me"
  BY <1>3, <1>4, RequestFacts, NoCallFacts
<1>6. /\ CallsInv' /\ AnswerInv' /\ DOMAIN call' = Flow /\ call'["restore"] = next
      /\ \A u \in Flow : u # "restore" => call'[u] = call[u]
  BY <1>2, <1>4, <1>5, FlowGoesOn
<1>7. SessionTypeOK'
  <2>1. early' \in BOOLEAN
    BY DEF RestoreStatus
  <2> QED
    BY <1>1, <1>2, <1>3, <1>4, <1>6, <2>1, AuthStays
<1>8. OneSession'
  <2> SUFFICES ASSUME ~overlap' PROVE OneSession'
    BY DEF OneSession
  <2>1. /\ restoring /\ user = NoUser /\ call["sign"] = NoCall
        /\ UNCHANGED <<token, owner>>
    BY <1>1, <1>2, NoCallFacts DEF OneSession, serverVars
  <2>2. user' = NoUser /\ call'["sign"] = NoCall
    BY <1>4, <1>6, <2>1, FlowFacts
  <2>3. UserMatchesToken'
    BY <2>2 DEF UserMatchesToken
  <2>4. call'["restore"] = next
    BY <1>6
  <2> QED
    BY <1>4, <1>5, <2>1, <2>2, <2>3, <2>4, NoCallFacts DEF OneSession
<1> QED
  BY <1>6, <1>7, <1>8 DEF SessionInv

LEMMA RestoreMeInv ==
  ASSUME SessionInv, RestoreMe
  PROVE  SessionInv'
<1>1. SessionTypeOK /\ CallsInv /\ AnswerInv /\ OneSession
  BY DEF SessionInv
<1>2. /\ call["restore"].what = "me" /\ call["restore"].answer # "none"
      /\ Then("restore", NoCall) /\ restoring' = FALSE
      /\ early' = FALSE /\ UNCHANGED <<serverVars, needsSetup, overlap>>
      /\ token' = IF call["restore"].answer = "refused" THEN NoToken ELSE token
      /\ user' = IF call["restore"].answer = "ok" THEN owner[call["restore"].by] ELSE NoUser
  BY DEF RestoreMe, Has, Unauthorized
<1>3. /\ token \in Token \union {NoToken}
      /\ needsSetup \in BOOLEAN /\ early \in BOOLEAN /\ overlap \in BOOLEAN
      /\ owner \in [Token -> Admin \union {NoUser}]
  BY <1>1 DEF SessionTypeOK
<1>4. call["restore"].answer = "ok" => call["restore"].by \in Token
  BY <1>1, <1>2, FlowFacts DEF AnswerInv
<1>5. token' \in {token, NoToken} /\ user' \in Admin \union {NoUser}
  BY <1>2, <1>3, <1>4
<1>6. /\ CallsInv' /\ AnswerInv' /\ DOMAIN call' = Flow /\ call'["restore"] = NoCall
      /\ \A u \in Flow : u # "restore" => call'[u] = call[u]
  BY <1>2, NoCallFacts, FlowGoesOn
<1>7. SessionTypeOK'
  BY <1>1, <1>2, <1>3, <1>5, <1>6, AuthStays
<1>8. OneSession'
  <2> SUFFICES ASSUME ~overlap' PROVE OneSession'
    BY DEF OneSession
  <2>1. /\ call["sign"] = NoCall /\ token \in {call["restore"].by, NoToken}
    BY <1>1, <1>2, NoCallFacts DEF OneSession
  <2>2. call'["sign"] = NoCall /\ call'["restore"] = NoCall
    BY <1>6, <2>1, FlowFacts
  <2>3. UserMatchesToken'
    BY <1>2, <2>1 DEF UserMatchesToken, serverVars
  <2> QED
    BY <1>2, <2>2, <2>3, NoCallFacts DEF OneSession
<1> QED
  BY <1>6, <1>7, <1>8 DEF SessionInv

LEMMA SignedInv ==
  ASSUME SessionInv, NEW what \in {"login", "setup"}, NEW me \in {"loginMe", "setupMe"},
         Signed(what, me)
  PROVE  SessionInv'
<1>1. SessionTypeOK /\ CallsInv /\ AnswerInv /\ OneSession
  BY DEF SessionInv
<1>2. /\ call["sign"].what = what /\ call["sign"].answer # "none"
      /\ UNCHANGED <<serverVars, user, restoring, needsSetup, early, overlap>>
  BY DEF Signed, Has
<1>3. /\ token \in Token \union {NoToken} /\ user \in Admin \union {NoUser}
      /\ restoring \in BOOLEAN /\ needsSetup \in BOOLEAN /\ early \in BOOLEAN /\ overlap \in BOOLEAN
  BY <1>1 DEF SessionTypeOK
<1>4. PICK next : /\ Then("sign", next) /\ token' \in Token \union {NoToken}
                  /\ next = NoCall \/ next = Request(me, token', NoUser)
  <2>1. call["sign"].answer = "ok" => call["sign"].got \in Token
    BY <1>1, <1>2, FlowFacts DEF AnswerInv
  <2>2. CASE call["sign"].answer = "ok"
    BY <2>1, <2>2 DEF Signed
  <2>3. CASE call["sign"].answer # "ok"
    BY <1>3, <2>3 DEF Signed, Unauthorized
  <2> QED
    BY <2>2, <2>3
<1>5. /\ next.what \in {"none", me} /\ (next.what = me => next.by = token')
      /\ \/ next = NoCall
         \/ IsRequest(next) /\ next.answer = "none" /\ next.what = me
  BY <1>4, RequestFacts, NoCallFacts
<1>6. /\ CallsInv' /\ AnswerInv' /\ DOMAIN call' = Flow /\ call'["sign"] = next
      /\ \A u \in Flow : u # "sign" => call'[u] = call[u]
  BY <1>2, <1>4, <1>5, FlowGoesOn
<1>7. SessionTypeOK'
  BY <1>1, <1>2, <1>3, <1>4, <1>6, AuthStays
<1>8. OneSession'
  <2> SUFFICES ASSUME ~overlap' PROVE OneSession'
    BY DEF OneSession
  <2>1. user = NoUser /\ ~restoring /\ call["restore"] = NoCall
    BY <1>1, <1>2, NoCallFacts DEF OneSession
  <2>2. user' = NoUser /\ ~restoring' /\ call'["restore"] = NoCall /\ call'["sign"] = next
    BY <1>2, <1>6, <2>1, FlowFacts
  <2>3. UserMatchesToken'
    BY <2>2 DEF UserMatchesToken
  <2>4. next.what \in {"loginMe", "setupMe"} => next.by = token'
    BY <1>5
  <2> QED
    BY <2>2, <2>3, <2>4, NoCallFacts DEF OneSession
<1> QED
  BY <1>6, <1>7, <1>8 DEF SessionInv

LEMMA SignedMeInv ==
  ASSUME SessionInv, NEW me \in {"loginMe", "setupMe"}, SignedMe(me)
  PROVE  SessionInv'
<1>1. SessionTypeOK /\ CallsInv /\ AnswerInv /\ OneSession
  BY DEF SessionInv
<1>2. /\ call["sign"].what = me /\ Then("sign", NoCall)
      /\ UNCHANGED <<serverVars, restoring, early, overlap>>
  BY DEF SignedMe, Has
<1>3. /\ token \in Token \union {NoToken} /\ user \in Admin \union {NoUser}
      /\ restoring \in BOOLEAN /\ needsSetup \in BOOLEAN /\ early \in BOOLEAN /\ overlap \in BOOLEAN
      /\ owner \in [Token -> Admin \union {NoUser}]
  BY <1>1 DEF SessionTypeOK
<1>5. /\ token' \in {token, NoToken} /\ needsSetup' \in BOOLEAN
      /\ user' \in Admin \union {NoUser}
      /\ user' = user \/ user' = owner[call["sign"].by]
  <2>1. CASE call["sign"].answer = "ok"
    <3>1. call["sign"].by \in Token
      BY <1>1, <1>2, <2>1, FlowFacts DEF AnswerInv
    <3> QED
      BY <1>3, <2>1, <3>1 DEF SignedMe
  <2>2. CASE call["sign"].answer # "ok"
    BY <1>3, <2>2 DEF SignedMe, Unauthorized
  <2> QED
    BY <2>1, <2>2
<1>6. /\ CallsInv' /\ AnswerInv' /\ DOMAIN call' = Flow /\ call'["sign"] = NoCall
      /\ \A u \in Flow : u # "sign" => call'[u] = call[u]
  BY <1>2, NoCallFacts, FlowGoesOn
<1>7. SessionTypeOK'
  BY <1>1, <1>2, <1>3, <1>5, <1>6, AuthStays
<1>8. OneSession'
  <2> SUFFICES ASSUME ~overlap' PROVE OneSession'
    BY DEF OneSession
  <2>1. /\ user = NoUser /\ ~restoring /\ call["restore"] = NoCall
        /\ token \in {call["sign"].by, NoToken}
    BY <1>1, <1>2, NoCallFacts DEF OneSession
  <2>2. ~restoring' /\ call'["restore"] = NoCall /\ call'["sign"] = NoCall
    BY <1>2, <1>6, <2>1, FlowFacts
  <2>3. UserMatchesToken'
    BY <1>2, <1>5, <2>1 DEF UserMatchesToken, serverVars
  <2> QED
    BY <2>2, <2>3, NoCallFacts DEF OneSession
<1> QED
  BY <1>6, <1>7, <1>8 DEF SessionInv

\* The forms of LoginPage and SetupPage: neither is shown beside a session, nor
\* while one is being restored, unless that is the overlap.
LEMMA FormInv ==
  ASSUME SessionInv, NEW what \in {"login", "setup"}, NEW a \in Admin,
         user = NoUser, Free("sign"), Then("sign", Request(what, token, a)),
         overlap' \in BOOLEAN, ~overlap' => ~overlap /\ ~restoring,
         UNCHANGED <<serverVars, authVars, early>>
  PROVE  SessionInv'
<1>1. SessionTypeOK /\ CallsInv /\ AnswerInv /\ OneSession
  BY DEF SessionInv
<1>2. UNCHANGED <<token, user, restoring, needsSetup>>
  BY DEF authVars
<1>3. /\ token \in Token \union {NoToken} /\ user \in Admin \union {NoUser}
      /\ restoring \in BOOLEAN /\ needsSetup \in BOOLEAN /\ early \in BOOLEAN /\ overlap \in BOOLEAN
  BY <1>1 DEF SessionTypeOK
<1>4. PICK next : next = Request(what, token, a)
  OBVIOUS
<1>5. IsRequest(next) /\ next.answer = "none" /\ next.what = what /\ next.arg = a
  BY <1>3, <1>4, RequestFacts
<1>6. /\ CallsInv' /\ AnswerInv' /\ DOMAIN call' = Flow /\ call'["sign"] = next
      /\ \A u \in Flow : u # "sign" => call'[u] = call[u]
  BY <1>4, <1>5, FlowGoesOn
<1>7. SessionTypeOK'
  BY <1>1, <1>2, <1>3, <1>6, AuthStays
<1>8. OneSession'
  <2>1. UserMatchesToken => UserMatchesToken'
    BY <1>2 DEF UserMatchesToken, serverVars
  <2>2. call'["restore"] = call["restore"]
    BY <1>6, FlowFacts
  <2>3. call'["sign"].what = what
    BY <1>5, <1>6
  <2> QED
    BY <1>1, <1>2, <2>1, <2>2, <2>3 DEF OneSession
<1> QED
  BY <1>6, <1>7, <1>8 DEF SessionInv

LEMMA LogoutInv ==
  ASSUME SessionInv, Logout
  PROVE  SessionInv'
<1>1. SessionTypeOK /\ CallsInv /\ AnswerInv /\ OneSession
  BY DEF SessionInv
<1>2. /\ token' = NoToken /\ user' = NoUser
      /\ UNCHANGED <<hasAdmin, owner, accepted, restoring, needsSetup, early, overlap, call>>
  BY DEF Logout, serverVars
<1>3. SessionTypeOK'
  BY <1>1, <1>2 DEF SessionTypeOK
<1>4. CallsInv' /\ AnswerInv'
  <2>1. \A c : (IsRequest(c))' <=> IsRequest(c)
    BY DEF IsRequest
  <2> QED
    BY <1>1, <1>2, <2>1 DEF CallsInv, AnswerInv
<1>5. OneSession'
  BY <1>1, <1>2 DEF OneSession, UserMatchesToken
<1> QED
  BY <1>3, <1>4, <1>5 DEF SessionInv

\* Of a tab that is opened or loaded again, only the token is left.
LEMMA OpenedInv ==
  ASSUME NEW t \in Token \union {NoToken},
         NEW c,
         c = [w \in Flow |-> IF w = "restore" THEN Request("status", t, NoUser)
                                              ELSE NoCall]
  PROVE  /\ c = [w \in Flow |-> c[w]] /\ DOMAIN c = Flow
         /\ \A w \in Flow : c[w] = NoCall \/ IsRequest(c[w])
         /\ c["restore"].what = "status" /\ c["restore"].answer = "none"
         /\ \A w \in Flow : w # "restore" => c[w] = NoCall /\ c[w].what = "none"
         /\ c["sign"] = NoCall /\ c["sign"].what = "none"
         /\ \A w \in PageCall : c[w] = NoCall /\ c[w].what = "none"
<1>1. PICK r : r = Request("status", t, NoUser)
  OBVIOUS
<1>2. IsRequest(r) /\ r.what = "status" /\ r.answer = "none"
  BY <1>1, RequestFacts
<1> QED
  BY <1>1, <1>2, FlowFacts, NoCallFacts

LEMMA ReloadInv ==
  ASSUME SessionInv, Reload
  PROVE  SessionInv' /\ \A w \in PageCall : call'[w] = NoCall
<1>1. SessionTypeOK
  BY DEF SessionInv
<1>2. /\ user' = NoUser /\ restoring' = TRUE /\ needsSetup' = FALSE /\ early' \in BOOLEAN
      /\ overlap' = FALSE /\ UNCHANGED <<serverVars, token>>
      /\ call' = [w \in Flow |-> IF w = "restore"
                                     THEN Request("status", token, NoUser) ELSE NoCall]
  BY AtLoginAssumption DEF Reload
<1>3. token \in Token \union {NoToken}
  BY <1>1 DEF SessionTypeOK
<1>4. /\ call' = [w \in Flow |-> call'[w]] /\ DOMAIN call' = Flow
      /\ \A w \in Flow : call'[w] = NoCall \/ IsRequest(call'[w])
      /\ call'["restore"].what = "status" /\ call'["restore"].answer = "none"
      /\ \A w \in Flow : w # "restore" => call'[w] = NoCall /\ call'[w].what = "none"
      /\ call'["sign"] = NoCall /\ call'["sign"].what = "none"
      /\ \A w \in PageCall : call'[w] = NoCall /\ call'[w].what = "none"
  BY <1>2, <1>3, OpenedInv
<1>5. SessionTypeOK'
  BY <1>1, <1>2, <1>3, <1>4, AuthStays
<1>6. CallsInv' /\ AnswerInv'
  <2>1. \A c : (IsRequest(c))' <=> IsRequest(c)
    BY DEF IsRequest
  <2>2. CallsInv'
    BY <1>4, <2>1 DEF CallsInv, SessionCalls
  <2>3. AnswerInv'
    BY <1>4 DEF AnswerInv
  <2> QED
    BY <2>2, <2>3
<1>7. OneSession'
  BY <1>2, <1>4 DEF OneSession, UserMatchesToken
<1> QED
  BY <1>4, <1>5, <1>6, <1>7 DEF SessionInv

LEMMA SessionInitInv == SessionInit => SessionInv
<1> SUFFICES ASSUME SessionInit PROVE SessionInv
  OBVIOUS
<1>1. /\ hasAdmin \in BOOLEAN
      /\ owner \in [Token -> Admin \union {NoUser}]
      /\ accepted \subseteq {t \in Token : owner[t] # NoUser}
      /\ token \in Token \union {NoToken}
  <2>1. CASE owner = [t \in Token |-> NoUser] /\ accepted = {} /\ token = NoToken
    BY <2>1 DEF SessionInit
  <2>2. CASE \E t \in Token, a \in Admin :
               /\ owner = [u \in Token |-> IF u = t THEN a ELSE NoUser]
               /\ accepted \in {{}, {t}}
               /\ token = t
    <3>1. PICK t \in Token, a \in Admin :
            /\ owner = [u \in Token |-> IF u = t THEN a ELSE NoUser]
            /\ accepted \in {{}, {t}}
            /\ token = t
      BY <2>2
    <3> QED
      BY <3>1, FlowFacts DEF SessionInit
  <2> QED
    BY <2>1, <2>2 DEF SessionInit
<1>2. /\ user = NoUser /\ restoring = TRUE /\ needsSetup = FALSE
      /\ early \in BOOLEAN /\ overlap = FALSE
      /\ call = [w \in Flow |-> IF w = "restore" THEN Request("status", token, NoUser)
                                                 ELSE NoCall]
  BY AtLoginAssumption DEF SessionInit
<1>3. /\ call = [w \in Flow |-> call[w]] /\ DOMAIN call = Flow
      /\ \A w \in Flow : call[w] = NoCall \/ IsRequest(call[w])
      /\ call["restore"].what = "status" /\ call["restore"].answer = "none"
      /\ \A w \in Flow : w # "restore" => call[w] = NoCall /\ call[w].what = "none"
      /\ call["sign"] = NoCall /\ call["sign"].what = "none"
      /\ \A w \in PageCall : call[w] = NoCall /\ call[w].what = "none"
  BY <1>1, <1>2, OpenedInv
<1>4. SessionTypeOK
  BY <1>1, <1>2, <1>3 DEF SessionTypeOK
<1>5. CallsInv /\ AnswerInv
  BY <1>3 DEF CallsInv, AnswerInv, SessionCalls
<1>6. OneSession
  BY <1>2, <1>3 DEF OneSession, UserMatchesToken
<1> QED
  BY <1>4, <1>5, <1>6 DEF SessionInv

\* Outside of the tab.
LEMMA OutsideKeepsSession ==
  ASSUME SessionInv, UNCHANGED <<owner, authVars, early, overlap, call>>,
         hasAdmin' \in BOOLEAN, accepted' \subseteq accepted
  PROVE  SessionInv'
<1>1. SessionTypeOK /\ CallsInv /\ AnswerInv /\ OneSession
  BY DEF SessionInv
<1>2. UNCHANGED <<token, user, restoring, needsSetup>>
  BY DEF authVars
<1>3. SessionTypeOK'
  BY <1>1, <1>2 DEF SessionTypeOK
<1>4. CallsInv' /\ AnswerInv' /\ OneSession'
  <2>1. \A c : (IsRequest(c))' <=> IsRequest(c)
    BY DEF IsRequest
  <2> QED
    BY <1>1, <1>2, <2>1 DEF CallsInv, AnswerInv, OneSession, UserMatchesToken
<1> QED
  BY <1>3, <1>4 DEF SessionInv

(***************************************************************************)
(* All the steps of the session, as the pages meet them.                   *)
(***************************************************************************)
TabStep == Receive \/ Logout \/ Reload \/ \E a \in Admin : Login(a) \/ CompleteSetup(a)

LEMMA TabStepInv ==
  ASSUME SessionInv, TabStep
  PROVE  /\ SessionInv' /\ UNCHANGED serverVars
         /\ \A w \in PageCall : call'[w] = call[w] \/ call'[w] = NoCall
<1>1. SessionTypeOK /\ CallsInv /\ OneSession
  BY DEF SessionInv
<1>2. ASSUME NEW w \in {"restore", "sign"}, NEW next, Then(w, next)
      PROVE  \A u \in PageCall : call'[u] = call[u]
  BY <1>1, <1>2, ThenFacts, FlowFacts
<1>3. CASE Receive
  <2>1. SessionInv'
    BY <1>3, RestoreStatusInv, RestoreMeInv, SignedInv, SignedMeInv DEF Receive
  <2>2. UNCHANGED serverVars
    BY <1>3 DEF Receive, RestoreStatus, RestoreMe, Signed, SignedMe
  <2>3. \E w \in {"restore", "sign"} : \E next : Then(w, next)
    BY <1>3 DEF Receive, RestoreStatus, RestoreMe, Signed, SignedMe
  <2> QED
    BY <1>2, <2>1, <2>2, <2>3
<1>4. CASE Logout
  BY <1>4, LogoutInv DEF Logout
<1>5. CASE Reload
  <2>1. UNCHANGED serverVars
    BY <1>5 DEF Reload
  <2> QED
    BY <1>5, <2>1, ReloadInv
<1>6. ASSUME NEW a \in Admin, Login(a) \/ CompleteSetup(a)
      PROVE  /\ SessionInv' /\ UNCHANGED serverVars
             /\ \A w \in PageCall : call'[w] = call[w]
  <2>1. PICK what \in {"login", "setup"} : Then("sign", Request(what, token, a))
    BY <1>6 DEF Login, CompleteSetup
  <2>2. /\ user = NoUser /\ Free("sign") /\ UNCHANGED <<serverVars, authVars, early>>
    BY <1>6 DEF Login, CompleteSetup, LoginShown, SetupShown, Free
  <2>4. overlap' \in BOOLEAN /\ (~overlap' => ~overlap /\ ~restoring)
    BY <1>1, <1>6
    DEF Login, CompleteSetup, LoginShown, SetupShown, OneSession, SessionTypeOK
  <2>3. SessionInv'
    BY <2>1, <2>2, <2>4, FormInv
  <2> QED
    BY <1>2, <2>1, <2>2, <2>3
<1> QED
  BY <1>3, <1>4, <1>5, <1>6 DEF TabStep

(***************************************************************************)
(* The credentials page.                                                   *)
(***************************************************************************)
LEMMA PagesGrow ==
  /\ \A n \in Nat : Pages(n) \in Nat \ {0}
  /\ \A n, m \in Nat : n <= m => Pages(n) <= Pages(m)
BY PageSizeAssumption DEF Pages

\* A credential of the table stays in it, and what is revoked stays so.
Grows(of, by) == /\ by \in Seq(Status) /\ Len(of) <= Len(by) /\ Len(by) <= MaxRows
                 /\ DOMAIN of \subseteq DOMAIN by
                 /\ \A id : Revoked(id, of) => Revoked(id, by)

LEMMA TableGrows ==
  ASSUME row \in Seq(Status), Len(row) <= MaxRows
  PROVE  /\ Grows(row, row)
         /\ Len(row) < MaxRows => Grows(row, Append(row, "active"))
         /\ \A id \in DOMAIN row : /\ Grows(row, [row EXCEPT ![id] = "revoked"])
                                   /\ Revoked(id, [row EXCEPT ![id] = "revoked"])
<1>1. Len(row) \in Nat /\ DOMAIN row = 1 .. Len(row) /\ MaxRows \in Nat
  BY LenProperties, MaxRowsAssumption
<1>2. "active" \in Status /\ "revoked" \in Status
  BY DEF Status
<1>3. ASSUME Len(row) < MaxRows PROVE Grows(row, Append(row, "active"))
  <2>1. PICK by : by = Append(row, "active")
    OBVIOUS
  <2>2. /\ by \in Seq(Status) /\ Len(by) = Len(row) + 1
        /\ \A i \in 1 .. Len(row) : by[i] = row[i]
    BY <1>2, <2>1, AppendProperties
  <2>3. DOMAIN by = 1 .. Len(by)
    BY <2>2, LenProperties
  <2> QED
    BY <1>1, <1>3, <2>1, <2>2, <2>3 DEF Grows, Revoked
<1>4. ASSUME NEW id \in DOMAIN row
      PROVE  /\ Grows(row, [row EXCEPT ![id] = "revoked"])
             /\ Revoked(id, [row EXCEPT ![id] = "revoked"])
  <2>1. PICK by : by = [row EXCEPT ![id] = "revoked"]
    OBVIOUS
  <2>2. by \in Seq(Status) /\ Len(by) = Len(row)
    BY <1>1, <1>2, <2>1, ExceptSeq
  <2>3. /\ DOMAIN by = DOMAIN row /\ by[id] = "revoked"
        /\ \A i \in DOMAIN row : i # id => by[i] = row[i]
    BY <2>1
  <2> QED
    BY <1>1, <2>1, <2>2, <2>3 DEF Grows, Revoked
<1> QED
  BY <1>1, <1>3, <1>4 DEF Grows, Revoked

\* So what the page waits for stays in order.
LEMMA CallGrows ==
  ASSUME NEW c, NEW of \in Seq(Status), NEW by, Grows(of, by), CallInv(c, of)
  PROVE  CallInv(c, by)
<1>1. Len(of) \in Nat /\ by \in Seq(Status) /\ Len(by) \in Nat
  BY LenProperties DEF Grows
<1>2. ASSUME c.what = "list", c.answer = "ok" PROVE Len(c.got) \in Nat
  BY <1>2, LenProperties DEF CallInv
<1> QED
  BY <1>1, <1>2 DEF CallInv, Grows

LEMMA IdleCall == \A of : CallInv(NoCall, of)
BY NoCallFacts DEF CallInv

LEMMA PageParts ==
  ASSUME PageInv
  PROVE  /\ SessionInv /\ TypeOK /\ SessionTypeOK /\ CallsInv
         /\ row \in Seq(Status) /\ Len(row) <= MaxRows /\ Len(row) \in Nat
         /\ DOMAIN row = 1 .. Len(row)
         /\ mounted \in BOOLEAN /\ loading \in BOOLEAN
         /\ page \in Nat \ {0} /\ page <= Pages(Len(row)) /\ page <= Pages(MaxRows)
         /\ DOMAIN shown \subseteq DOMAIN row
         /\ total \in Nat /\ total <= Len(row)
         /\ orphan \subseteq PageCall
         /\ \A w \in PageCall : CallInv(call[w], row)
<1>1. row \in Seq(Status) /\ Len(row) <= MaxRows
  BY DEF PageInv, TypeOK
<1>2. /\ Len(row) \in Nat /\ DOMAIN row = 1 .. Len(row)
      /\ MaxRows \in Nat /\ Pages(MaxRows) \in Nat
  BY <1>1, LenProperties, MaxRowsAssumption, PagesGrow
<1> QED
  BY <1>1, <1>2 DEF PageInv, TypeOK, SessionInv, ShownInv, NeverPastTheEnd

\* What a step has to see to, once the session is in order.
LEMMA PageNext ==
  ASSUME PageInv, SessionInv', Grows(row, row'),
         mounted' \in BOOLEAN, loading' \in BOOLEAN, orphan' \subseteq PageCall,
         page' \in Nat \ {0}, page' <= Pages(Len(row)),
         DOMAIN shown' \subseteq DOMAIN row,
         total' \in Nat, total' <= Len(row),
         \A w \in PageCall : CallInv(call'[w], row')
  PROVE  PageInv'
<1>1. /\ row' \in Seq(Status) /\ Len(row') <= MaxRows /\ Len(row') \in Nat
      /\ Len(row) \in Nat /\ Len(row) <= Len(row') /\ MaxRows \in Nat
      /\ DOMAIN row' = 1 .. Len(row') /\ DOMAIN row \subseteq DOMAIN row'
  BY PageParts, LenProperties, MaxRowsAssumption DEF Grows
<1>2. /\ Pages(Len(row)) <= Pages(Len(row')) /\ Pages(Len(row')) <= Pages(MaxRows)
      /\ Pages(Len(row)) \in Nat /\ Pages(Len(row')) \in Nat /\ Pages(MaxRows) \in Nat
  BY <1>1, PagesGrow
<1>3. SessionTypeOK'
  BY DEF SessionInv
<1>4. (Pages(Len(row)))' = Pages(Len(row')) /\ (Pages(MaxRows))' = Pages(MaxRows)
  BY DEF Pages
<1>5. DOMAIN shown' \subseteq 1 .. MaxRows
  BY <1>1
<1>6. TypeOK'
  BY <1>1, <1>2, <1>3, <1>4, <1>5 DEF TypeOK
<1>7. ShownInv'
  BY <1>1, <1>2, <1>4 DEF ShownInv, NeverPastTheEnd
<1>8. \A w \in PageCall : (CallInv(call[w], row))' <=> CallInv(call'[w], row')
  BY DEF CallInv, Revoked
<1> QED
  BY <1>6, <1>7, <1>8 DEF PageInv

LEMMA PageInitInv == Init => PageInv
<1> SUFFICES ASSUME Init PROVE PageInv
  OBVIOUS
<1>1. /\ SessionInit
      /\ row = <<>> /\ mounted = FALSE /\ page = 1 /\ shown = <<>> /\ total = 0
      /\ loading = FALSE /\ orphan = {}
  BY DEF Init
<1>2. SessionInv
  BY <1>1, SessionInitInv
<1>3. /\ row \in Seq(Status) /\ Len(row) = 0 /\ DOMAIN shown = {}
      /\ MaxRows \in Nat
  BY <1>1, MaxRowsAssumption
<1>4. Pages(0) \in Nat \ {0} /\ Pages(MaxRows) \in Nat \ {0}
  BY <1>3, PagesGrow
<1>5. TypeOK
  <2>1. /\ DOMAIN shown \subseteq 1 .. MaxRows /\ Len(row) <= MaxRows
        /\ total \in 0 .. MaxRows /\ page \in 1 .. Pages(MaxRows)
    BY <1>1, <1>3, <1>4
  <2>2. orphan \subseteq PageCall /\ mounted \in BOOLEAN /\ loading \in BOOLEAN
    BY <1>1
  <2> QED
    BY <1>2, <1>3, <2>1, <2>2 DEF TypeOK, SessionInv
<1>6. ShownInv
  BY <1>1, <1>3, <1>4 DEF ShownInv, NeverPastTheEnd
<1>7. \A w \in PageCall : call[w] = NoCall
  BY <1>1, FlowFacts DEF SessionInit
<1> QED
  BY <1>2, <1>5, <1>6, <1>7, IdleCall DEF PageInv

\* The session goes on beside the page, or takes it away.
LEMMA QuietPage ==
  ASSUME PageInv, SessionInv', UNCHANGED row,
         UNCHANGED pageVars \/ Gone,
         \A w \in PageCall : call'[w] = call[w] \/ call'[w] = NoCall
  PROVE  PageInv'
<1>1. /\ row \in Seq(Status) /\ Len(row) <= MaxRows /\ Len(row) \in Nat
      /\ mounted \in BOOLEAN /\ loading \in BOOLEAN
      /\ page \in Nat \ {0} /\ page <= Pages(Len(row))
      /\ DOMAIN shown \subseteq DOMAIN row
      /\ total \in Nat /\ total <= Len(row) /\ orphan \subseteq PageCall
      /\ \A w \in PageCall : CallInv(call[w], row)
  BY PageParts
<1>2. Grows(row, row') /\ \A w \in PageCall : CallInv(call'[w], row')
  BY <1>1, TableGrows, IdleCall
<1>3. CASE UNCHANGED pageVars
  <2>1. UNCHANGED <<mounted, page, shown, total, loading, orphan>>
    BY <1>3 DEF pageVars
  <2> QED
    BY <1>1, <1>2, <2>1, PageNext
<1>4. CASE Gone
  <2>1. /\ mounted' = FALSE /\ page' = 1 /\ shown' = <<>> /\ total' = 0
        /\ loading' = FALSE /\ orphan' \subseteq PageCall
    BY <1>4 DEF Gone
  <2>2. mounted' \in BOOLEAN /\ loading' \in BOOLEAN
    BY <2>1
  <2>5. page' \in Nat \ {0} /\ total' \in Nat
    BY <2>1
  <2>4. DOMAIN shown' = {}
    BY <2>1
  <2>3. 1 <= Pages(Len(row))
    BY <1>1, PagesGrow
  <2> QED
    BY <1>1, <1>2, <2>1, <2>2, <2>3, <2>4, <2>5, PageNext
<1> QED
  BY <1>3, <1>4

\* The server answers one request, and may change the table.
LEMMA ServePageInv ==
  ASSUME PageInv, NEW w \in Flow, call[w].what # "none", NEW answer, NEW got,
         Answered(w, answer, got), SessionInv', UNCHANGED pageVars,
         Grows(row, row'),
         w \in PageCall /\ answer = "ok" =>
           /\ call[w].what = "list" => got = row
           /\ call[w].what = "revoke" => Revoked(call[w].arg.id, row')
  PROVE  PageInv'
<1>1. /\ CallsInv /\ row \in Seq(Status) /\ Len(row) \in Nat
      /\ mounted \in BOOLEAN /\ loading \in BOOLEAN
      /\ page \in Nat \ {0} /\ page <= Pages(Len(row))
      /\ DOMAIN shown \subseteq DOMAIN row
      /\ total \in Nat /\ total <= Len(row) /\ orphan \subseteq PageCall
      /\ \A u \in PageCall : CallInv(call[u], row)
  BY PageParts
<1>2. UNCHANGED <<mounted, page, shown, total, loading, orphan>>
  BY DEF pageVars
<1>3. /\ \A u \in Flow : u # w => call'[u] = call[u]
      /\ call'[w].what = call[w].what /\ call'[w].arg = call[w].arg
      /\ call'[w].answer = answer /\ call'[w].got = got
  BY <1>1, AnsweredFacts
<1>4. \A u \in PageCall : CallInv(call[u], row')
  BY <1>1, CallGrows
<1>5. ASSUME w \in PageCall PROVE CallInv(call'[w], row')
  <2>1. PICK c, r : c = call[w] /\ r = call'[w]
    OBVIOUS
  <2>2. /\ r.what = c.what /\ r.arg = c.arg
        /\ r.answer = "ok" => /\ c.what = "list" => r.got = row
                              /\ c.what = "revoke" => Revoked(c.arg.id, row')
    BY <1>3, <1>5, <2>1
  <2>3. CallInv(c, row) /\ CallInv(c, row')
    BY <1>1, <1>4, <1>5, <2>1
  <2>4. row' \in Seq(Status) /\ Len(row) <= Len(row')
    BY DEF Grows
  <2>5. CallInv(r, row')
    BY <1>1, <2>2, <2>3, <2>4 DEF CallInv
  <2> QED
    BY <2>1, <2>5
<1>6. \A u \in PageCall : CallInv(call'[u], row')
  BY <1>3, <1>4, <1>5, FlowFacts
<1> QED
  BY <1>1, <1>2, <1>6, PageNext

LEMMA ServeInv ==
  ASSUME PageInv, NEW w \in Flow, Serve(w)
  PROVE  PageInv'
<1>1. /\ SessionInv /\ SessionTypeOK /\ CallsInv
      /\ row \in Seq(Status) /\ Len(row) <= MaxRows /\ Grows(row, row)
  BY PageParts, TableGrows
<1>2. UNCHANGED pageVars
  BY DEF Serve
<1>3. CASE ServeSession(w) /\ UNCHANGED row
  <2>1. SessionInv'
    BY <1>1, <1>3, ServeSessionInv
  <2>2. call[w].what \in SessionCalls /\ \E answer, got : Answered(w, answer, got)
    BY <1>3 DEF ServeSession, ServeStatus, ServeMe, ServeLogin, ServeSetup,
                Waits, Issue, SessionCalls
  <2>3. w \notin PageCall /\ call[w].what # "none"
    BY <1>1, <2>2 DEF CallsInv, SessionCalls
  <2> QED
    BY <1>1, <1>2, <1>3, <2>1, <2>2, <2>3, ServePageInv
<1>4. CASE ServeFails(w) /\ UNCHANGED <<authVars, early, overlap, row>>
  <2>1. SessionInv'
    BY <1>1, <1>4, ServeFailsInv
  <2>2. call[w].what # "none" /\ Answered(w, "failed", "none")
    BY <1>4 DEF ServeFails
  <2> QED
    BY <1>1, <1>2, <1>4, <2>1, <2>2, ServePageInv
<1>5. CASE /\ ServeList(w) \/ ServeIssue(w) \/ ServeRevoke(w)
           /\ UNCHANGED <<serverVars, authVars, early, overlap>>
  <2>1. call[w].what \in {"list", "issue", "revoke"}
    BY <1>5 DEF ServeList, ServeIssue, ServeRevoke, Waits
  <2>2. w \in PageCall
    BY <1>1, <2>1, FlowFacts DEF CallsInv
  <2>3. ASSUME NEW answer, NEW got, Answered(w, answer, got),
               answer = "ok" => Allowed(w)
        PROVE  SessionInv'
    <3>1. /\ hasAdmin \in BOOLEAN /\ owner \in [Token -> Admin \union {NoUser}]
          /\ accepted \subseteq {t \in Token : owner[t] # NoUser}
      BY <1>1 DEF SessionTypeOK
    <3>2. UNCHANGED <<hasAdmin, owner, accepted, authVars, early, overlap>>
      BY <1>5 DEF serverVars
    <3>3. answer = "ok" => call[w].by \in accepted
      BY <2>3 DEF Allowed
    <3> QED
      BY <1>1, <2>1, <2>3, <3>1, <3>2, <3>3, AnswerKeepsSession
  <2>4. CASE Refuse(w)
    <3>1. Answered(w, "refused", "none") /\ UNCHANGED row
      BY <2>4 DEF Refuse
    <3> QED
      BY <1>1, <1>2, <2>1, <2>2, <2>3, <3>1, ServePageInv
  <2>5. CASE ServeList(w) /\ ~Refuse(w)
    <3>1. /\ call[w].what = "list" /\ Allowed(w)
          /\ Answered(w, "ok", row) /\ UNCHANGED row
      BY <2>5 DEF ServeList, Waits
    <3> QED
      BY <1>1, <1>2, <2>2, <2>3, <3>1, ServePageInv
  <2>6. CASE ServeIssue(w) /\ ~Refuse(w)
    <3>1. /\ call[w].what = "issue" /\ Allowed(w) /\ Answered(w, "ok", "none")
          /\ Len(row) < MaxRows /\ row' = Append(row, "active")
      BY <2>6 DEF ServeIssue, Waits
    <3>2. Grows(row, row')
      BY <1>1, <3>1, TableGrows
    <3> QED
      BY <1>1, <1>2, <2>2, <2>3, <3>1, <3>2, ServePageInv
  <2>7. CASE ServeRevoke(w) /\ ~Refuse(w)
    <3>1. PICK answer : /\ call[w].what = "revoke" /\ Allowed(w)
                        /\ Answered(w, answer, "none")
                        /\ row' = [row EXCEPT ![call[w].arg.id] = "revoked"]
      BY <2>7 DEF ServeRevoke, Waits
    <3>2. call[w].arg.id \in DOMAIN row
      <4>1. CallInv(call[w], row)
        BY <2>2 DEF PageInv
      <4> QED
        BY <3>1, <4>1 DEF CallInv
    <3>3. Grows(row, row') /\ Revoked(call[w].arg.id, row')
      BY <1>1, <3>1, <3>2, TableGrows
    <3> QED
      BY <1>1, <1>2, <2>2, <2>3, <3>1, <3>3, ServePageInv
  <2> QED
    BY <1>5, <2>4, <2>5, <2>6, <2>7
<1> QED
  BY <1>3, <1>4, <1>5 DEF Serve

LEMMA ElsewhereInv ==
  ASSUME PageInv, Elsewhere
  PROVE  PageInv'
<1>1. /\ SessionInv /\ row \in Seq(Status) /\ Len(row) <= MaxRows /\ Len(row) \in Nat
      /\ mounted \in BOOLEAN /\ loading \in BOOLEAN
      /\ page \in Nat \ {0} /\ page <= Pages(Len(row))
      /\ DOMAIN shown \subseteq DOMAIN row
      /\ total \in Nat /\ total <= Len(row) /\ orphan \subseteq PageCall
      /\ \A u \in PageCall : CallInv(call[u], row)
  BY PageParts
<1>2. /\ UNCHANGED <<hasAdmin, owner, accepted, authVars, early, overlap, call>>
      /\ UNCHANGED <<mounted, page, shown, total, loading, orphan>>
  BY DEF Elsewhere, sessionVars, serverVars, pageVars
<1>3. Grows(row, row')
  BY <1>1, TableGrows DEF Elsewhere
<1>4. SessionInv'
  BY <1>1, <1>2, OutsideKeepsSession DEF SessionInv, SessionTypeOK
<1>5. \A u \in PageCall : CallInv(call'[u], row')
  BY <1>1, <1>2, <1>3, CallGrows
<1> QED
  BY <1>1, <1>2, <1>3, <1>4, <1>5, PageNext

LEMMA SessionStepInv ==
  ASSUME PageInv, SessionStep
  PROVE  PageInv'
<1>1. /\ SessionInv /\ SessionTypeOK
  BY PageParts
<1>2. UNCHANGED row /\ (UNCHANGED pageVars \/ Gone)
  BY DEF SessionStep, KeepPage
<1>3. CASE TabStep
  BY <1>1, <1>2, <1>3, TabStepInv, QuietPage
<1>4. CASE (\E t \in Token : TokenEnds(t)) \/ SetupElsewhere
  <2>1. /\ UNCHANGED <<owner, authVars, early, overlap, call>>
        /\ hasAdmin' \in BOOLEAN /\ accepted' \subseteq accepted
    BY <1>1, <1>4 DEF TokenEnds, SetupElsewhere, SessionTypeOK
  <2>2. SessionInv'
    BY <1>1, <2>1, OutsideKeepsSession
  <2> QED
    BY <1>2, <2>1, <2>2, QuietPage
<1> QED
  BY <1>3, <1>4 DEF SessionStep, TabStep

\* The page asks for something, or takes an answer.
LEMMA PageGoesOn ==
  ASSUME PageInv, NEW w \in PageCall, NEW next, Then(w, next),
         token' \in {token, NoToken},
         UNCHANGED <<serverVars, user, restoring, needsSetup, early, overlap, row>>,
         \/ next = NoCall
         \/ \E what \in {"list", "issue", "revoke"} : \E arg : next = Request(what, token', arg),
         CallInv(next, row),
         mounted' \in BOOLEAN, loading' \in BOOLEAN, orphan' \subseteq PageCall,
         page' \in Nat \ {0}, page' <= Pages(Len(row)),
         DOMAIN shown' \subseteq DOMAIN row,
         total' \in Nat, total' <= Len(row)
  PROVE  PageInv'
<1>1. /\ SessionInv /\ SessionTypeOK /\ CallsInv /\ row \in Seq(Status) /\ Len(row) <= MaxRows
      /\ \A u \in PageCall : CallInv(call[u], row)
  BY PageParts
<1>2. \/ next = NoCall
      \/ IsRequest(next) /\ next.answer = "none" /\ next.what \notin SessionCalls
  <2>1. token' \in Token \union {NoToken}
    BY <1>1 DEF SessionTypeOK
  <2> QED
    BY <2>1, RequestFacts DEF SessionCalls
<1>3. SessionInv'
  BY <1>1, <1>2, PageKeepsSession
<1>4. w \in Flow /\ PageCall \subseteq Flow
  BY FlowFacts
<1>5. call'[w] = next /\ \A u \in Flow : u # w => call'[u] = call[u]
  BY <1>1, <1>4, ThenFacts
<1>6. Grows(row, row')
  BY <1>1, TableGrows
<1>7. \A u \in PageCall : CallInv(call'[u], row')
  BY <1>1, <1>4, <1>5
<1> QED
  BY <1>3, <1>6, <1>7, PageNext

\* The calls of the page are in order when they are sent.
LEMMA SentCalls ==
  /\ \A p, by, of : CallInv(Request("list", by, [page |-> p, own |-> NoId]), of)
  /\ \A p, by, of, id : Revoked(id, of) =>
        CallInv(Request("list", by, [page |-> p, own |-> id]), of)
  /\ \A p, by, of : CallInv(Request("issue", by, [id |-> NoId, page |-> p]), of)
  /\ \A p, by, of : \A id \in DOMAIN of :
        CallInv(Request("revoke", by, [id |-> id, page |-> p]), of)
<1>1. ASSUME NEW p, NEW by, NEW of, NEW id, id = NoId \/ Revoked(id, of)
      PROVE  CallInv(Request("list", by, [page |-> p, own |-> id]), of)
  <2>1. PICK a : a = [page |-> p, own |-> id]
    OBVIOUS
  <2>2. PICK c : c = Request("list", by, a)
    OBVIOUS
  <2>3. a.own = id /\ c.what = "list" /\ c.arg = a /\ c.answer = "none"
    BY <2>1, <2>2, RequestFacts
  <2>4. CallInv(c, of)
    BY <1>1, <2>3 DEF CallInv
  <2> QED
    BY <2>1, <2>2, <2>4
<1>2. ASSUME NEW p, NEW by, NEW of, NEW id, NEW what \in {"issue", "revoke"},
             what = "issue" => id = NoId, what = "revoke" => id \in DOMAIN of
      PROVE  CallInv(Request(what, by, [id |-> id, page |-> p]), of)
  <2>1. PICK a : a = [id |-> id, page |-> p]
    OBVIOUS
  <2>2. PICK c : c = Request(what, by, a)
    OBVIOUS
  <2>3. a.id = id /\ c.what = what /\ c.arg = a /\ c.answer = "none"
    BY <2>1, <2>2, RequestFacts
  <2>4. CallInv(c, of)
    BY <1>2, <2>3 DEF CallInv
  <2> QED
    BY <2>1, <2>2, <2>4
<1> QED
  BY <1>1, <1>2

LEMMA TurnInv ==
  ASSUME PageInv, NEW p \in Nat \ {0}, p <= Pages(Len(row)), Turn(p)
  PROVE  PageInv'
<1>1. /\ mounted \in BOOLEAN /\ DOMAIN shown \subseteq DOMAIN row
      /\ total \in Nat /\ total <= Len(row) /\ orphan \subseteq PageCall
  BY PageParts
<1>2. /\ page' = p /\ loading' = TRUE
      /\ UNCHANGED <<serverVars, user, restoring, needsSetup, early, overlap, token, row,
                     mounted, shown, total, orphan>>
  BY DEF Turn, authVars
<1>3. PICK w \in PageCall : Then(w, Request("list", token, [page |-> p, own |-> NoId]))
  BY DEF Turn, ListCall
<1>4. PICK next : next = Request("list", token, [page |-> p, own |-> NoId])
  OBVIOUS
<1>5. CallInv(next, row)
  BY <1>4, SentCalls
<1>6. \E what \in {"list", "issue", "revoke"} : \E arg : next = Request(what, token', arg)
  BY <1>2, <1>4
<1>7. loading' \in BOOLEAN
  BY <1>2
<1> QED
  BY <1>1, <1>2, <1>3, <1>4, <1>5, <1>6, <1>7, PageGoesOn

LEMMA VisitInv ==
  ASSUME PageInv, Visit
  PROVE  PageInv'
<1>1. /\ DOMAIN shown \subseteq DOMAIN row /\ page \in Nat \ {0} /\ page <= Pages(Len(row))
      /\ total \in Nat /\ total <= Len(row) /\ orphan \subseteq PageCall
  BY PageParts
<1>2. /\ mounted' = TRUE /\ loading' = TRUE
      /\ UNCHANGED <<serverVars, user, restoring, needsSetup, early, overlap, token, row,
                     page, shown, total, orphan>>
  BY DEF Visit, authVars
<1>3. PICK w \in PageCall : Then(w, Request("list", token, [page |-> 1, own |-> NoId]))
  BY DEF Visit, ListCall
<1>4. PICK next : next = Request("list", token, [page |-> 1, own |-> NoId])
  OBVIOUS
<1>5. CallInv(next, row)
  BY <1>4, SentCalls
<1>6. \E what \in {"list", "issue", "revoke"} : \E arg : next = Request(what, token', arg)
  BY <1>2, <1>4
<1>7. mounted' \in BOOLEAN /\ loading' \in BOOLEAN
  BY <1>2
<1> QED
  BY <1>1, <1>2, <1>3, <1>4, <1>5, <1>6, <1>7, PageGoesOn

LEMMA LeaveInv ==
  ASSUME PageInv, Leave
  PROVE  PageInv'
<1>1. UNCHANGED <<sessionVars, row>> /\ Gone
  BY DEF Leave
<1>2. /\ UNCHANGED <<hasAdmin, owner, accepted, authVars, early, overlap, call>>
  BY <1>1 DEF sessionVars, serverVars
<1>3. SessionInv'
  BY <1>2, PageParts, OutsideKeepsSession DEF SessionTypeOK
<1> QED
  BY <1>1, <1>2, <1>3, QuietPage

\* What an answered load shows is in the table.
LEMMA ShownPage ==
  ASSUME NEW got \in Seq(Status), NEW p
  PROVE  PageIds(Len(got), p) \subseteq DOMAIN got
BY LenProperties DEF PageIds

LEMMA ReceiveListInv ==
  ASSUME PageInv, NEW w \in PageCall, ReceiveList(w)
  PROVE  PageInv'
<1>1. /\ DOMAIN shown \subseteq DOMAIN row /\ page \in Nat \ {0} /\ page <= Pages(Len(row))
      /\ row \in Seq(Status) /\ Len(row) \in Nat /\ DOMAIN row = 1 .. Len(row)
      /\ total \in Nat /\ total <= Len(row) /\ orphan \subseteq PageCall
      /\ mounted \in BOOLEAN /\ loading \in BOOLEAN /\ CallInv(call[w], row)
  BY PageParts
<1>2. /\ call[w].what = "list" /\ Then(w, NoCall)
      /\ token' \in {token, NoToken} /\ orphan' \subseteq PageCall
      /\ UNCHANGED <<serverVars, user, restoring, needsSetup, early, overlap, row, mounted, page>>
  BY <1>1 DEF ReceiveList, Has, Unauthorized
<1>3. loading' \in BOOLEAN
  BY <1>1 DEF ReceiveList
<1>4. /\ DOMAIN shown' \subseteq DOMAIN row
      /\ total' \in Nat /\ total' <= Len(row)
  <2>1. CASE shown' = shown /\ total' = total
    BY <1>1, <2>1
  <2>2. CASE /\ call[w].answer = "ok"
             /\ shown' = [id \in PageIds(Len(call[w].got), call[w].arg.page) |->
                                 call[w].got[id]]
             /\ total' = Len(call[w].got)
    <3>1. call[w].got \in Seq(Status) /\ Len(call[w].got) <= Len(row)
      BY <1>1, <1>2, <2>2 DEF CallInv
    <3>2. Len(call[w].got) \in Nat /\ DOMAIN call[w].got = 1 .. Len(call[w].got)
      BY <3>1, LenProperties
    <3>3. DOMAIN shown' = PageIds(Len(call[w].got), call[w].arg.page)
      BY <2>2
    <3> QED
      BY <1>1, <2>2, <3>1, <3>2, <3>3, ShownPage
  <2> QED
    BY <2>1, <2>2 DEF ReceiveList
<1> QED
  BY <1>1, <1>2, <1>3, <1>4, IdleCall, PageGoesOn

LEMMA ReceiveChangeInv ==
  ASSUME PageInv, NEW w \in PageCall, ReceiveChange(w)
  PROVE  PageInv'
<1>1. /\ DOMAIN shown \subseteq DOMAIN row /\ page \in Nat \ {0} /\ page <= Pages(Len(row))
      /\ total \in Nat /\ total <= Len(row) /\ orphan \subseteq PageCall
      /\ mounted \in BOOLEAN /\ loading \in BOOLEAN /\ CallInv(call[w], row)
  BY PageParts
<1>2. /\ call[w].what \in {"issue", "revoke"}
      /\ token' \in {token, NoToken}
      /\ call[w].answer = "ok" => token' = token
      /\ UNCHANGED <<serverVars, user, restoring, needsSetup, early, overlap, row,
                     mounted, page, shown, total>>
  BY DEF ReceiveChange, Has, Unauthorized
<1>3. loading' \in BOOLEAN /\ orphan' \subseteq PageCall
  BY <1>1 DEF ReceiveChange
<1>4. CASE call[w].answer = "ok"
  <2>1. PICK id, p : id = call[w].arg.id /\ p = call[w].arg.page
    OBVIOUS
  <2>2. PICK next : next = Request("list", token, [page |-> p, own |-> id])
    OBVIOUS
  <2>3. Then(w, next)
    BY <1>4, <2>1, <2>2 DEF ReceiveChange, ListCall
  <2>4. id = NoId \/ Revoked(id, row)
    BY <1>1, <1>2, <1>4, <2>1 DEF CallInv
  <2>5. CallInv(next, row)
    BY <2>2, <2>4, SentCalls
  <2>6. \E what \in {"list", "issue", "revoke"} : \E arg : next = Request(what, token', arg)
    BY <1>2, <1>4, <2>2
  <2> QED
    BY <1>1, <1>2, <1>3, <2>3, <2>5, <2>6, PageGoesOn
<1>5. CASE call[w].answer # "ok"
  <2>1. Then(w, NoCall)
    BY <1>5 DEF ReceiveChange
  <2> QED
    BY <1>1, <1>2, <1>3, <2>1, IdleCall, PageGoesOn
<1> QED
  BY <1>4, <1>5

LEMMA ChangeSentInv ==
  ASSUME PageInv, NEW w \in PageCall,
         IssueOne(w) \/ \E id \in DOMAIN shown : Revoke(w, id)
  PROVE  PageInv'
<1>1. /\ DOMAIN shown \subseteq DOMAIN row /\ page \in Nat \ {0} /\ page <= Pages(Len(row))
      /\ total \in Nat /\ total <= Len(row) /\ orphan \subseteq PageCall
      /\ mounted \in BOOLEAN /\ loading \in BOOLEAN
  BY PageParts
<1>2. UNCHANGED <<serverVars, user, restoring, needsSetup, early, overlap, token, row,
                  mounted, page, shown, total, loading, orphan>>
  BY DEF IssueOne, Revoke, pageVars, authVars
<1>3. PICK what \in {"issue", "revoke"} : \E id :
        /\ what = "issue" => id = NoId
        /\ what = "revoke" => id \in DOMAIN row
        /\ Then(w, Request(what, token, [id |-> id, page |-> page]))
  <2>1. CASE IssueOne(w)
    BY <2>1 DEF IssueOne, ChangeCall
  <2>2. CASE \E id \in DOMAIN shown : Revoke(w, id)
    BY <1>1, <2>2 DEF Revoke, ChangeCall
  <2> QED
    BY <2>1, <2>2
<1>4. PICK id :
        /\ what = "issue" => id = NoId
        /\ what = "revoke" => id \in DOMAIN row
        /\ Then(w, Request(what, token, [id |-> id, page |-> page]))
  BY <1>3
<1>5. PICK next : next = Request(what, token, [id |-> id, page |-> page])
  OBVIOUS
<1>6. CallInv(next, row)
  BY <1>5, <1>4, SentCalls
<1>7. \E wh \in {"list", "issue", "revoke"} : \E arg : next = Request(wh, token', arg)
  BY <1>2, <1>5
<1> QED
  BY <1>1, <1>2, <1>5, <1>6, <1>7, <1>4, PageGoesOn

LEMMA CredentialsNext ==
  ASSUME PageInv, Next
  PROVE  PageInv'
<1>1. CASE PageStep
  <2>1. CASE Previous
    <3>1. /\ page \in Nat \ {0} /\ page <= Pages(Len(row)) /\ page > 1 /\ Turn(page - 1)
          /\ Pages(Len(row)) \in Nat
      BY <2>1, PageParts, PagesGrow DEF Previous
    <3>2. page - 1 \in Nat \ {0} /\ page - 1 <= Pages(Len(row))
      BY <3>1
    <3> QED
      BY <3>1, <3>2, TurnInv
  <2>2. CASE NextPage
    <3>1. /\ page \in Nat \ {0} /\ page < Pages(total) /\ Turn(page + 1)
          /\ total \in Nat /\ total <= Len(row) /\ Len(row) \in Nat
      BY <2>2, PageParts DEF NextPage
    <3>2. /\ Pages(total) <= Pages(Len(row))
          /\ Pages(total) \in Nat /\ Pages(Len(row)) \in Nat
      BY <3>1, PagesGrow
    <3>3. page + 1 \in Nat \ {0} /\ page + 1 <= Pages(Len(row))
      BY <3>1, <3>2
    <3> QED
      BY <3>1, <3>3, TurnInv
  <2> QED
    BY <1>1, <2>1, <2>2, VisitInv, LeaveInv, ReceiveListInv, ReceiveChangeInv,
       ChangeSentInv DEF PageStep
<1> QED
  BY <1>1, SessionStepInv, ElsewhereInv, ServeInv DEF Next

(***************************************************************************)
(* The administrators page lives in the same session: each definition of   *)
(* WebSession means the same in it.                                        *)
(***************************************************************************)
LEMMA SameWords ==
  /\ Admins!Flow = Flow /\ Admins!NoCall = NoCall
  /\ \A what, by, arg : Admins!Request(what, by, arg) = Request(what, by, arg)
BY DEF Admins!Flow, Flow, Admins!NoCall, NoCall, Admins!Request, Request

LEMMA SameCalls ==
  ASSUME NEW w
  PROVE  /\ \A what : Admins!Waits(w, what) <=> Waits(w, what)
         /\ \A what : Admins!Has(w, what) <=> Has(w, what)
         /\ \A answer, got : Admins!Answered(w, answer, got) <=> Answered(w, answer, got)
         /\ \A next : Admins!Then(w, next) <=> Then(w, next)
         /\ Admins!Free(w) <=> Free(w)
         /\ Admins!Allowed(w) <=> Allowed(w)
         /\ Admins!Unauthorized(w) <=> Unauthorized(w)
<1>1. /\ \A what : Admins!Waits(w, what) <=> Waits(w, what)
      /\ \A what : Admins!Has(w, what) <=> Has(w, what)
  BY DEF Admins!Waits, Waits, Admins!Has, Has
<1>2. \A answer, got : Admins!Answered(w, answer, got) <=> Answered(w, answer, got)
  BY DEF Admins!Answered, Answered
<1>3. \A next : Admins!Then(w, next) <=> Then(w, next)
  BY DEF Admins!Then, Then
<1>4. /\ Admins!Free(w) <=> Free(w)
      /\ Admins!Allowed(w) <=> Allowed(w)
  BY DEF Admins!Free, Free, Admins!NoCall, NoCall, Admins!Allowed, Allowed
<1>5. Admins!Unauthorized(w) <=> Unauthorized(w)
  BY DEF Admins!Unauthorized, Unauthorized
<1> QED
  BY <1>1, <1>2, <1>3, <1>4, <1>5

LEMMA SameShown ==
  /\ Admins!ConsoleShown <=> ConsoleShown
  /\ Admins!ConsoleShown' <=> ConsoleShown'
BY DEF Admins!ConsoleShown, ConsoleShown

LEMMA SameInvariant ==
  /\ Admins!SessionInv <=> SessionInv
  /\ Admins!SessionInv' <=> SessionInv'
BY DEF Admins!SessionInv, SessionInv, Admins!SessionTypeOK, SessionTypeOK,
       Admins!CallsInv, CallsInv, Admins!AnswerInv, AnswerInv,
       Admins!OneSession, OneSession, Admins!IsRequest, IsRequest,
       Admins!SessionCalls, SessionCalls, Admins!UserMatchesToken, UserMatchesToken,
       Admins!Flow, Flow, Admins!NoCall, NoCall

LEMMA SameStart == Admins!SessionInit <=> SessionInit
BY DEF Admins!SessionInit, SessionInit, Admins!Flow, Flow, Admins!Request, Request,
       Admins!NoCall, NoCall

LEMMA SameServer ==
  /\ \A w : Admins!ServeSession(w) <=> ServeSession(w)
  /\ \A w : Admins!ServeFails(w) <=> ServeFails(w)
<1> USE DEF Admins!serverVars, serverVars, Admins!Waits, Waits, Admins!Answered, Answered,
            Admins!authVars, authVars, Admins!Issue, Issue
<1>1. \A w : Admins!ServeStatus(w) <=> ServeStatus(w)
  BY DEF Admins!ServeStatus, ServeStatus
<1>2. \A w : Admins!ServeMe(w) <=> ServeMe(w)
  BY DEF Admins!ServeMe, ServeMe
<1>3. \A w : Admins!ServeLogin(w) <=> ServeLogin(w)
  BY DEF Admins!ServeLogin, ServeLogin
<1>4. \A w : Admins!ServeSetup(w) <=> ServeSetup(w)
  BY DEF Admins!ServeSetup, ServeSetup
<1>5. \A w : Admins!ServeFails(w) <=> ServeFails(w)
  BY DEF Admins!ServeFails, ServeFails
<1>6. \A w : Admins!ServeSession(w) <=> ServeSession(w)
  BY <1>1, <1>2, <1>3, <1>4 DEF Admins!ServeSession, ServeSession
<1> QED
  BY <1>5, <1>6

LEMMA SameTab ==
  /\ Admins!Receive <=> Receive
  /\ Admins!Logout <=> Logout
  /\ Admins!Reload <=> Reload
  /\ \A a : Admins!Login(a) <=> Login(a)
  /\ \A a : Admins!CompleteSetup(a) <=> CompleteSetup(a)
  /\ \A t : Admins!TokenEnds(t) <=> TokenEnds(t)
  /\ Admins!SetupElsewhere <=> SetupElsewhere
<1> USE DEF Admins!serverVars, serverVars, Admins!Has, Has, Admins!Then, Then,
            Admins!authVars, authVars, Admins!Unauthorized, Unauthorized,
            Admins!NoCall, NoCall, Admins!Request, Request, Admins!Flow, Flow
<1>1. Admins!RestoreStatus <=> RestoreStatus
  BY DEF Admins!RestoreStatus, RestoreStatus
<1>2. Admins!RestoreMe <=> RestoreMe
  BY DEF Admins!RestoreMe, RestoreMe
<1>3. \A what, me : Admins!Signed(what, me) <=> Signed(what, me)
  BY DEF Admins!Signed, Signed
<1>4. \A me : Admins!SignedMe(me) <=> SignedMe(me)
  BY DEF Admins!SignedMe, SignedMe
<1>5. Admins!Receive <=> Receive
  BY <1>1, <1>2, <1>3, <1>4 DEF Admins!Receive, Receive
<1>6. Admins!Logout <=> Logout
  BY DEF Admins!Logout, Logout, Admins!ConsoleShown, ConsoleShown
<1>7. Admins!Reload <=> Reload
  BY DEF Admins!Reload, Reload
<1>8. \A a : Admins!Login(a) <=> Login(a)
  BY DEF Admins!Login, Login, Admins!LoginShown, LoginShown
<1>9. \A a : Admins!CompleteSetup(a) <=> CompleteSetup(a)
  BY DEF Admins!CompleteSetup, CompleteSetup, Admins!SetupShown, SetupShown
<1>10. \A t : Admins!TokenEnds(t) <=> TokenEnds(t)
  BY DEF Admins!TokenEnds, TokenEnds
<1>11. Admins!SetupElsewhere <=> SetupElsewhere
  BY DEF Admins!SetupElsewhere, SetupElsewhere
<1> QED
  BY <1>5, <1>6, <1>7, <1>8, <1>9, <1>10, <1>11

(***************************************************************************)
(* The administrators page and the dialog.                                 *)
(***************************************************************************)
LEMMA AdminsParts ==
  ASSUME Admins!PageInv
  PROVE  /\ SessionInv /\ SessionTypeOK /\ CallsInv
         /\ hasAdmin \in BOOLEAN /\ owner \in [Token -> Admin \union {NoUser}]
         /\ accepted \subseteq Token
         /\ alive \subseteq Admin \ past /\ past \subseteq Admin
         /\ hasAdmin <=> alive # {}
         /\ \A t \in accepted : owner[t] \in alive
         /\ changed \subseteq Admin
         /\ adminsMounted \in BOOLEAN /\ listed \subseteq Admin
         /\ open \in BOOLEAN /\ submitting \in BOOLEAN /\ done \in BOOLEAN
         /\ adminsOrphan \subseteq PageCall
         /\ alive = {} => past = {}
         /\ \A w \in PageCall :
              /\ Admins!CallInv(call[w], past)
              /\ call[w].what = "password" /\ call[w].answer = "ok" =>
                   owner[call[w].by] \in changed
         /\ Admins!LayoutInv
<1>1. SessionInv
  BY SameInvariant DEF Admins!PageInv
<1>2. /\ SessionTypeOK /\ CallsInv
      /\ hasAdmin \in BOOLEAN /\ owner \in [Token -> Admin \union {NoUser}]
      /\ accepted \subseteq Token
  BY <1>1 DEF SessionInv, SessionTypeOK
<1> QED
  BY <1>1, <1>2 DEF Admins!PageInv, Admins!TypeOK, Admins!TableInv

LEMMA LayoutParts ==
  ASSUME Admins!LayoutInv
  PROVE  /\ ~ConsoleShown => /\ ~adminsMounted /\ ~open /\ ~done
                             /\ \A w \in PageCall \ adminsOrphan : call[w] = NoCall
         /\ ~overlap =>
              /\ \A w \in PageCall \ adminsOrphan :
                   call[w].what = "password" /\ call[w].by # NoToken /\ user # NoUser
                     => owner[call[w].by] = user
              /\ done /\ user # NoUser => user \in changed
BY SameShown, SameWords DEF Admins!LayoutInv, Admins!DoneHonest

\* What a step has to see to: the table, the calls, and the layout.
LEMMA AdminsTypeNext ==
  ASSUME SessionInv', alive' \subseteq Admin \ past', past' \subseteq Admin,
         hasAdmin' <=> alive' # {}, \A t \in accepted' : owner'[t] \in alive',
         changed' \subseteq Admin,
         adminsMounted' \in BOOLEAN, listed' \subseteq Admin,
         open' \in BOOLEAN, submitting' \in BOOLEAN, done' \in BOOLEAN,
         adminsOrphan' \subseteq PageCall
  PROVE  Admins!TypeOK' /\ Admins!SessionInv'
<1>1. Admins!SessionInv'
  BY SameInvariant
<1>2. Admins!SessionTypeOK'
  BY <1>1 DEF Admins!SessionInv
<1>3. hasAdmin' \in BOOLEAN /\ accepted' \subseteq Token
  BY DEF SessionInv, SessionTypeOK
<1>4. hasAdmin' = (alive' # {})
  BY <1>3
<1>5. accepted' \subseteq {t \in Token : owner'[t] \in alive'}
  BY <1>3
<1> QED
  BY <1>1, <1>2, <1>4, <1>5 DEF Admins!TypeOK

LEMMA AdminsTableNext ==
  ASSUME alive' = {} => past' = {},
         \A w \in PageCall :
           /\ Admins!CallInv(call'[w], past')
           /\ call'[w].what = "password" /\ call'[w].answer = "ok" =>
                owner'[call'[w].by] \in changed'
  PROVE  Admins!TableInv'
<1>1. \A w \in PageCall : (Admins!CallInv(call[w], past))' <=> Admins!CallInv(call'[w], past')
  BY DEF Admins!CallInv
<1> QED
  BY <1>1 DEF Admins!TableInv

LEMMA AdminsLayoutNext ==
  ASSUME ~ConsoleShown' => /\ ~adminsMounted' /\ ~open' /\ ~done'
                           /\ \A w \in PageCall \ adminsOrphan' : call'[w] = NoCall,
         ~overlap' =>
           /\ \A w \in PageCall \ adminsOrphan' :
                call'[w].what = "password" /\ call'[w].by # NoToken /\ user' # NoUser
                  => owner'[call'[w].by] = user'
           /\ done' /\ user' # NoUser => user' \in changed'
  PROVE  Admins!LayoutInv'
BY SameShown, SameWords DEF Admins!LayoutInv, Admins!DoneHonest

LEMMA AdminsInitInv == Admins!Init => Admins!PageInv
<1> SUFFICES ASSUME Admins!Init PROVE Admins!PageInv
  OBVIOUS
<1>1. /\ SessionInit /\ alive \in SUBSET Admin /\ hasAdmin = (alive # {})
      /\ accepted \subseteq {t \in Token : owner[t] \in alive}
      /\ past = {owner[t] : t \in Token} \ (alive \union {NoUser})
      /\ changed = {}
      /\ adminsMounted = FALSE /\ listed = {}
      /\ open = FALSE /\ submitting = FALSE /\ done = FALSE
      /\ adminsOrphan = {}
  BY SameStart DEF Admins!Init
<1>2. SessionInv /\ Admins!SessionInv
  BY <1>1, SessionInitInv, SameInvariant
<1>3. owner \in [Token -> Admin \union {NoUser}]
  BY <1>2 DEF SessionInv, SessionTypeOK
<1>4. alive \subseteq Admin \ past /\ past \subseteq Admin
  BY <1>1, <1>3
<1>5. Admins!TypeOK
  BY <1>1, <1>2, <1>4 DEF Admins!TypeOK, Admins!SessionInv
<1>6. alive = {} => past = {}
  <2>1. ~hasAdmin => owner = [t \in Token |-> NoUser]
    BY <1>1 DEF SessionInit
  <2> QED
    BY <1>1, <2>1
<1>7. \A w \in PageCall : call[w] = NoCall
  BY <1>1, FlowFacts DEF SessionInit
<1>8. Admins!TableInv
  BY <1>6, <1>7, NoCallFacts DEF Admins!TableInv, Admins!CallInv
<1>9. Admins!LayoutInv
  BY <1>1, <1>7, NoCallFacts, SameWords DEF Admins!LayoutInv, Admins!DoneHonest
<1> QED
  BY <1>2, <1>5, <1>8, <1>9 DEF Admins!PageInv

\* While the console is shown, nobody else becomes its user.
LEMMA UserStays ==
  ASSUME SessionInv, TabStep, ~overlap', ConsoleShown, ConsoleShown'
  PROVE  user' = user /\ ~overlap
<1>1. user # NoUser /\ ~restoring /\ ~needsSetup /\ user' # NoUser /\ ~restoring'
  BY DEF ConsoleShown
<1>2. OneSession
  BY DEF SessionInv
<1>3. ~Reload /\ ~Logout
  BY <1>1 DEF Reload, Logout
<1>4. ~overlap
  BY <1>3 DEF TabStep, Receive, RestoreStatus, RestoreMe, Signed, SignedMe, Login, CompleteSetup
<1>5. call["sign"] = NoCall /\ call["restore"] = NoCall
  BY <1>1, <1>2, <1>4 DEF OneSession
<1>6. ~Receive
  BY <1>5, NoCallFacts DEF Receive, RestoreStatus, RestoreMe, Signed, SignedMe, Has
<1>7. \A a : ~Login(a) /\ ~CompleteSetup(a)
  BY <1>1 DEF Login, CompleteSetup, LoginShown, SetupShown
<1> QED
  BY <1>3, <1>6, <1>7 DEF TabStep

\* The header and the page are kept as they were, or taken away together.
LEMMA KeptLayout ==
  ASSUME Admins!PageInv, Admins!KeepLayout, UNCHANGED <<owner, changed>>,
         \A w \in PageCall : call'[w] = call[w] \/ call'[w] = NoCall,
         ~overlap' /\ ConsoleShown /\ ConsoleShown' =>
           user' = user /\ ~overlap
  PROVE  /\ Admins!LayoutInv'
         /\ adminsMounted' \in BOOLEAN /\ listed' \subseteq Admin
         /\ open' \in BOOLEAN /\ submitting' \in BOOLEAN /\ done' \in BOOLEAN
         /\ adminsOrphan' \subseteq PageCall
<1>1. /\ adminsMounted \in BOOLEAN /\ listed \subseteq Admin
      /\ open \in BOOLEAN /\ submitting \in BOOLEAN /\ done \in BOOLEAN
      /\ adminsOrphan \subseteq PageCall
      /\ Admins!LayoutInv
  BY AdminsParts
<1>2. CASE ConsoleShown'
  <2>1. UNCHANGED <<adminsMounted, listed, open, submitting, done, adminsOrphan>>
    BY <1>2, SameShown DEF Admins!KeepLayout, Admins!pageVars, Admins!dialogVars
  <2>2. CASE ConsoleShown
    <3>1. ~overlap' =>
            /\ \A w \in PageCall \ adminsOrphan' :
                 call'[w].what = "password" /\ call'[w].by # NoToken /\ user' # NoUser
                   => owner'[call'[w].by] = user'
            /\ done' /\ user' # NoUser => user' \in changed'
      BY <1>1, <1>2, <2>1, <2>2, LayoutParts, NoCallFacts
    <3> QED
      BY <1>1, <1>2, <2>1, <3>1, AdminsLayoutNext
  <2>3. CASE ~ConsoleShown
    <3>1. ~done' /\ \A w \in PageCall \ adminsOrphan' : call'[w] = NoCall
      BY <1>1, <2>1, <2>3, LayoutParts
    <3> QED
      BY <1>1, <1>2, <2>1, <3>1, NoCallFacts, AdminsLayoutNext
  <2> QED
    BY <2>2, <2>3
<1>3. CASE ~ConsoleShown'
  <2>1. /\ adminsMounted' = FALSE /\ listed' = {}
        /\ open' = FALSE /\ submitting' = FALSE /\ done' = FALSE
        /\ adminsOrphan' = {w \in PageCall : call'[w] # NoCall}
    BY <1>3, SameShown, SameWords DEF Admins!KeepLayout, Admins!Dialog
  <2>2. \A w \in PageCall \ adminsOrphan' : call'[w] = NoCall
    BY <2>1
  <2>3. Admins!LayoutInv'
    BY <1>3, <2>1, <2>2, NoCallFacts, AdminsLayoutNext
  <2>4. listed' \subseteq Admin /\ adminsOrphan' \subseteq PageCall
    BY <2>1
  <2> QED
    BY <2>1, <2>3, <2>4
<1> QED
  BY <1>2, <1>3

LEMMA AdminsSessionInv ==
  ASSUME Admins!PageInv, Admins!SessionStep
  PROVE  Admins!PageInv'
<1>1. /\ SessionInv /\ SessionTypeOK
      /\ hasAdmin \in BOOLEAN /\ owner \in [Token -> Admin \union {NoUser}]
      /\ alive \subseteq Admin \ past /\ past \subseteq Admin
      /\ hasAdmin <=> alive # {}
      /\ \A t \in accepted : owner[t] \in alive
      /\ changed \subseteq Admin
      /\ alive = {} => past = {}
      /\ \A w \in PageCall :
           /\ Admins!CallInv(call[w], past)
           /\ call[w].what = "password" /\ call[w].answer = "ok" =>
                owner[call[w].by] \in changed
  BY AdminsParts
<1>2. UNCHANGED <<past, changed>> /\ Admins!KeepLayout
  BY DEF Admins!SessionStep
<1>3. ASSUME SessionInv', UNCHANGED owner,
             \A w \in PageCall : call'[w] = call[w] \/ call'[w] = NoCall,
             ~overlap' /\ ConsoleShown /\ ConsoleShown' =>
               user' = user /\ ~overlap,
             alive' \subseteq Admin \ past', hasAdmin' <=> alive' # {},
             accepted' \subseteq accepted, alive \subseteq alive'
      PROVE  Admins!PageInv'
  <2>1. /\ Admins!LayoutInv'
        /\ adminsMounted' \in BOOLEAN /\ listed' \subseteq Admin
        /\ open' \in BOOLEAN /\ submitting' \in BOOLEAN /\ done' \in BOOLEAN
        /\ adminsOrphan' \subseteq PageCall
    BY <1>2, <1>3, KeptLayout
  <2>2. Admins!TypeOK' /\ Admins!SessionInv'
    BY <1>1, <1>2, <1>3, <2>1, AdminsTypeNext
  <2>3. \A w \in PageCall :
          /\ Admins!CallInv(call'[w], past')
          /\ call'[w].what = "password" /\ call'[w].answer = "ok" =>
               owner'[call'[w].by] \in changed'
    <3>1. Admins!CallInv(NoCall, past)
      BY NoCallFacts DEF Admins!CallInv
    <3> QED
      BY <1>1, <1>2, <1>3, <3>1, NoCallFacts
  <2>4. Admins!TableInv'
    BY <1>1, <1>2, <1>3, <2>3, AdminsTableNext
  <2> QED
    BY <2>1, <2>2, <2>4 DEF Admins!PageInv
<1>4. CASE TabStep /\ UNCHANGED alive
  <2>1. /\ SessionInv' /\ UNCHANGED <<hasAdmin, owner, accepted>>
        /\ \A w \in PageCall : call'[w] = call[w] \/ call'[w] = NoCall
    BY <1>1, <1>4, TabStepInv DEF serverVars
  <2>2. ~overlap' /\ ConsoleShown /\ ConsoleShown' =>
               user' = user /\ ~overlap
    BY <1>1, <1>4, UserStays
  <2> QED
    BY <1>1, <1>2, <1>3, <1>4, <2>1, <2>2
<1>5. CASE (\E t \in Token : TokenEnds(t)) /\ UNCHANGED alive
  <2>1. /\ UNCHANGED <<hasAdmin, owner, authVars, early, overlap, call>> /\ accepted' \subseteq accepted
    BY <1>5 DEF TokenEnds
  <2>2. SessionInv'
    BY <1>1, <2>1, OutsideKeepsSession
  <2>3. UNCHANGED <<user, early, overlap>>
    BY <2>1 DEF authVars
  <2> QED
    BY <1>1, <1>2, <1>3, <1>5, <2>1, <2>2, <2>3
<1>6. CASE SetupElsewhere /\ \E a \in Admin : alive' = {a}
  <2>1. /\ UNCHANGED <<owner, accepted, authVars, early, overlap, call>>
        /\ ~hasAdmin /\ hasAdmin' = TRUE
    BY <1>6 DEF SetupElsewhere
  <2>2. SessionInv'
    BY <1>1, <2>1, OutsideKeepsSession
  <2>3. UNCHANGED <<user, early, overlap>>
    BY <2>1 DEF authVars
  <2>4. alive = {} /\ past = {}
    BY <1>1, <2>1
  <2>5. alive' \subseteq Admin \ past' /\ alive' # {}
    BY <1>2, <1>6, <2>4
  <2> QED
    BY <1>1, <1>2, <1>3, <2>1, <2>2, <2>3, <2>4, <2>5
<1> QED
  BY <1>4, <1>5, <1>6, SameTab DEF Admins!SessionStep, TabStep

\* The server answers one request, and may change the table.
LEMMA ServeAdminsInv ==
  ASSUME Admins!PageInv, NEW w \in Flow, call[w].what # "none", NEW answer, NEW got,
         Answered(w, answer, got), SessionInv',
         UNCHANGED <<authVars, early, overlap, Admins!pageVars>>,
         \A t \in Token : owner[t] # NoUser => owner'[t] = owner[t],
         alive' \subseteq Admin \ past', past \subseteq past', past' \subseteq Admin,
         hasAdmin' <=> alive' # {}, alive' # {} \/ past' = {},
         \A t \in accepted' : owner'[t] \in alive',
         changed \subseteq changed', changed' \subseteq Admin,
         w \in PageCall /\ answer = "ok" =>
           /\ call[w].what = "admins" => got \subseteq Admin \ {call[w].arg}
           /\ call[w].what = "delete" => call[w].arg \in past'
           /\ call[w].what = "password" => owner'[call[w].by] \in changed'
  PROVE  Admins!PageInv'
<1>1. /\ SessionInv /\ CallsInv
      /\ adminsMounted \in BOOLEAN /\ listed \subseteq Admin
      /\ open \in BOOLEAN /\ submitting \in BOOLEAN /\ done \in BOOLEAN
      /\ adminsOrphan \subseteq PageCall
      /\ \A u \in PageCall :
           /\ Admins!CallInv(call[u], past)
           /\ call[u].what = "password" /\ call[u].answer = "ok" =>
                owner[call[u].by] \in changed
      /\ Admins!LayoutInv
  BY AdminsParts
<1>2. UNCHANGED <<adminsMounted, listed, open, submitting, done, adminsOrphan>>
  BY DEF Admins!pageVars, Admins!dialogVars
<1>3. UNCHANGED <<user, restoring, needsSetup>>
  BY DEF authVars
<1>4. /\ \A u \in Flow : u # w => call'[u] = call[u]
      /\ \A u \in Flow : /\ call'[u].what = call[u].what
                         /\ call'[u].by = call[u].by
                         /\ call'[u].arg = call[u].arg
      /\ call'[w].answer = answer /\ call'[w].got = got
      /\ \A u \in Flow : call[u] = NoCall <=> call'[u] = NoCall
  BY <1>1, AnsweredFacts
<1>5. Admins!TypeOK' /\ Admins!SessionInv'
  BY <1>1, <1>2, AdminsTypeNext
<1>6. \A u \in PageCall :
         call[u].what \notin {"none", "status"} /\ call[u].answer = "ok" =>
         call[u].by \in Token /\ owner[call[u].by] # NoUser
  BY <1>1, FlowFacts DEF SessionInv, AnswerInv, CallsInv, SessionCalls
<1>7. ASSUME NEW u \in PageCall
      PROVE  /\ Admins!CallInv(call'[u], past')
             /\ call'[u].what = "password" /\ call'[u].answer = "ok" =>
                  owner'[call'[u].by] \in changed'
  <2>1. PICK c, r : c = call[u] /\ r = call'[u]
    OBVIOUS
  <2>2. Admins!CallInv(c, past) /\ u \in Flow
    BY <1>1, <2>1, FlowFacts
  <2>3. CASE u # w
    <3>1. r = c
      BY <1>4, <2>1, <2>2, <2>3
    <3>2. Admins!CallInv(r, past')
      BY <2>2, <3>1 DEF Admins!CallInv
    <3>3. r.what = "password" /\ r.answer = "ok" => owner'[r.by] \in changed'
      BY <1>1, <1>6, <2>1, <3>1
    <3> QED
      BY <2>1, <3>2, <3>3
  <2>4. CASE u = w
    <3>1. /\ r.what = c.what /\ r.arg = c.arg /\ r.by = c.by
          /\ r.answer = answer /\ r.got = got
      BY <1>4, <2>1, <2>2, <2>4
    <3>2. answer = "ok" => /\ c.what = "admins" => got \subseteq Admin \ {c.arg}
                           /\ c.what = "delete" => c.arg \in past'
                           /\ c.what = "password" => owner'[c.by] \in changed'
      BY <2>1, <2>4
    <3>3. Admins!CallInv(r, past')
      BY <2>2, <3>1, <3>2 DEF Admins!CallInv
    <3> QED
      BY <2>1, <3>1, <3>2, <3>3
  <2> QED
    BY <2>3, <2>4
<1>8. Admins!TableInv'
  BY <1>7, AdminsTableNext
<1>9. Admins!LayoutInv'
  <2>1. ConsoleShown' <=> ConsoleShown
    BY <1>3 DEF ConsoleShown
  <2>2. ~ConsoleShown' => \A u \in PageCall \ adminsOrphan' : call'[u] = NoCall
    BY <1>1, <1>2, <1>4, <2>1, LayoutParts, FlowFacts
  <2>3. ASSUME ~overlap'
        PROVE  /\ \A u \in PageCall \ adminsOrphan' :
                    call'[u].what = "password" /\ call'[u].by # NoToken /\ user' # NoUser
                      => owner'[call'[u].by] = user'
               /\ done' /\ user' # NoUser => user' \in changed'
    <3>1. ASSUME NEW u \in PageCall \ adminsOrphan',
                 call'[u].what = "password", call'[u].by # NoToken, user' # NoUser
          PROVE  owner'[call'[u].by] = user'
      <4>1. /\ call[u].what = "password" /\ call[u].by = call'[u].by
            /\ u \in Flow /\ u \in PageCall \ adminsOrphan
        BY <1>2, <1>4, <3>1, FlowFacts
      <4>2. owner[call[u].by] = user
        BY <1>1, <1>3, <2>3, <3>1, <4>1, LayoutParts
      <4>3. call[u].by \in Token
        BY <1>1, <3>1, <4>1, NoCallFacts DEF CallsInv, IsRequest
      <4> QED
        BY <1>3, <3>1, <4>1, <4>2, <4>3
    <3>2. done' /\ user' # NoUser => user' \in changed'
      BY <1>1, <1>2, <1>3, <2>3, LayoutParts
    <3> QED
      BY <3>1, <3>2
  <2> QED
    BY <1>1, <1>2, <2>1, <2>2, <2>3, LayoutParts, AdminsLayoutNext
<1> QED
  BY <1>5, <1>8, <1>9 DEF Admins!PageInv

LEMMA ServeSignInv ==
  ASSUME Admins!PageInv, NEW w \in Flow, Admins!ServeSign(w), UNCHANGED Admins!pageVars
  PROVE  Admins!PageInv'
<1>1. /\ SessionInv /\ SessionTypeOK /\ CallsInv
      /\ hasAdmin \in BOOLEAN /\ owner \in [Token -> Admin \union {NoUser}]
      /\ alive \subseteq Admin \ past /\ past \subseteq Admin
      /\ hasAdmin <=> alive # {}
      /\ \A t \in accepted : owner[t] \in alive
      /\ changed \subseteq Admin
      /\ alive = {} => past = {}
  BY AdminsParts
<1>2. /\ ServeSession(w) /\ UNCHANGED <<past, changed, authVars, early, overlap>>
      /\ call[w].what = "login" => owner' = owner \/ call[w].arg \in alive
      /\ alive' = IF hasAdmin' = hasAdmin THEN alive ELSE {call[w].arg}
  BY SameServer DEF Admins!ServeSign, ServeSession
<1>3. SessionInv'
  BY <1>1, <1>2, ServeSessionInv
<1>4. w \notin PageCall /\ call[w].what # "none"
  <2>1. call[w].what \in SessionCalls
    BY <1>2 DEF ServeSession, ServeStatus, ServeMe, ServeLogin, ServeSetup, Waits, SessionCalls
  <2> QED
    BY <1>1, <2>1 DEF CallsInv, SessionCalls
<1>5. ASSUME NEW answer, NEW got, Answered(w, answer, got),
             \A t \in Token : owner[t] # NoUser => owner'[t] = owner[t],
             alive' \subseteq Admin \ past, hasAdmin' <=> alive' # {},
             alive' # {} \/ past = {},
             \A t \in accepted' : owner'[t] \in alive'
      PROVE  Admins!PageInv'
  BY <1>1, <1>2, <1>3, <1>4, <1>5, ServeAdminsInv
<1>6. ASSUME NEW answer, NEW got, Answered(w, answer, got), UNCHANGED <<hasAdmin, owner, accepted>>
      PROVE  Admins!PageInv'
  <2>1. alive' = alive
    BY <1>2, <1>6
  <2> QED
    BY <1>1, <1>5, <1>6, <2>1
<1>7. CASE ServeStatus(w) \/ ServeMe(w)
  BY <1>6, <1>7 DEF ServeStatus, ServeMe, serverVars
<1>8. CASE ServeLogin(w)
  <2>1. call[w].what = "login" /\ UNCHANGED hasAdmin /\ call[w].arg \in Admin
    BY <1>1, <1>8 DEF ServeLogin, Waits, SessionInv, AnswerInv
  <2>2. alive' = alive
    BY <1>2, <2>1
  <2>3. CASE Issue(w, call[w].arg)
    <3>1. PICK t \in Token : /\ Answered(w, "ok", t)
                             /\ owner[t] = NoUser /\ owner'[t] = call[w].arg
                             /\ accepted' = accepted \union {t}
      BY <1>1, <2>1, <2>3, IssueFacts
    <3>2. owner' # owner /\ \A u \in Token : owner[u] # NoUser => owner'[u] = owner[u]
      BY <1>1, <2>1, <2>3, IssueFacts
    <3>3. call[w].arg \in alive
      BY <1>2, <2>1, <3>2
    <3>4. NoUser \notin alive /\ accepted \subseteq Token
      BY <1>1, FlowFacts DEF SessionTypeOK
    <3>5. \A u \in accepted' : owner'[u] \in alive'
      BY <1>1, <2>2, <3>1, <3>2, <3>3, <3>4
    <3> QED
      BY <1>1, <1>5, <2>1, <2>2, <3>1, <3>2, <3>5
  <2>4. CASE Answered(w, "refused", "none") /\ UNCHANGED <<owner, accepted>>
    BY <1>6, <2>1, <2>4
  <2> QED
    BY <1>8, <2>3, <2>4 DEF ServeLogin
<1>9. CASE ServeSetup(w)
  <2>1. call[w].what = "setup" /\ hasAdmin' = TRUE /\ call[w].arg \in Admin
    BY <1>1, <1>9 DEF ServeSetup, Waits, SessionInv, AnswerInv
  <2>2. CASE hasAdmin
    <3>1. Answered(w, "failed", "none") /\ UNCHANGED <<owner, accepted>>
      BY <1>9, <2>2 DEF ServeSetup
    <3>2. UNCHANGED hasAdmin
      BY <1>1, <2>1, <2>2
    <3> QED
      BY <1>6, <3>1, <3>2
  <2>3. CASE ~hasAdmin
    <3>1. alive = {} /\ past = {} /\ accepted = {}
      BY <1>1, <2>3
    <3>2. alive' = {call[w].arg}
      BY <1>2, <2>1, <2>3
    <3>3. alive' \subseteq Admin \ past /\ alive' # {} /\ hasAdmin'
      BY <2>1, <3>1, <3>2
    <3>4. CASE Issue(w, call[w].arg)
      <4>1. PICK t \in Token : /\ Answered(w, "ok", t)
                               /\ owner'[t] = call[w].arg
                               /\ accepted' = accepted \union {t}
        BY <1>1, <2>1, <3>4, IssueFacts
      <4>2. \A u \in Token : owner[u] # NoUser => owner'[u] = owner[u]
        BY <1>1, <2>1, <3>4, IssueFacts
      <4>3. \A u \in accepted' : owner'[u] \in alive'
        BY <3>1, <3>2, <4>1
      <4> QED
        BY <1>5, <3>3, <4>1, <4>2, <4>3
    <3>5. CASE Answered(w, "failed", "none") /\ UNCHANGED <<owner, accepted>>
      BY <1>5, <3>1, <3>3, <3>5
    <3> QED
      BY <1>9, <3>4, <3>5 DEF ServeSetup
  <2> QED
    BY <2>2, <2>3
<1> QED
  BY <1>2, <1>7, <1>8, <1>9 DEF ServeSession

\* A deletion leaves an account, and takes the tokens of the deleted one.
LEMMA RemoveFacts ==
  ASSUME Admins!PageInv, NEW a \in alive, alive # {a}, Admins!Remove(a)
  PROVE  /\ alive' \subseteq Admin \ past' /\ past \subseteq past' /\ past' \subseteq Admin
         /\ a \in past' /\ (hasAdmin' <=> alive' # {}) /\ alive' # {}
         /\ \A t \in accepted' : owner'[t] \in alive'
         /\ UNCHANGED <<hasAdmin, owner>> /\ accepted' \subseteq accepted
BY AdminsParts DEF Admins!Remove

LEMMA AddFacts ==
  ASSUME Admins!PageInv, alive # {}, Admins!Add
  PROVE  /\ alive' \subseteq Admin \ past' /\ past \subseteq past' /\ past' \subseteq Admin
         /\ (hasAdmin' <=> alive' # {}) /\ alive' # {}
         /\ \A t \in accepted' : owner'[t] \in alive'
         /\ UNCHANGED <<hasAdmin, owner, accepted>>
BY AdminsParts DEF Admins!Add, Admins!serverVars

LEMMA SameCount == \A S : Admins!Cardinality(S) = Cardinality(S)
BY DEF Admins!Cardinality, Cardinality

LEMMA ServeTableInv ==
  ASSUME Admins!PageInv, NEW w \in Flow, UNCHANGED <<authVars, early, overlap, Admins!pageVars>>,
         \/ Admins!ServeList(w) \/ Admins!ServeCreate(w)
         \/ Admins!ServeDelete(w) \/ Admins!ServePassword(w)
  PROVE  Admins!PageInv'
<1>1. /\ SessionInv /\ SessionTypeOK /\ CallsInv
      /\ hasAdmin \in BOOLEAN /\ owner \in [Token -> Admin \union {NoUser}]
      /\ accepted \subseteq Token
      /\ accepted \subseteq {t \in Token : owner[t] # NoUser}
      /\ alive \subseteq Admin \ past /\ past \subseteq Admin
      /\ hasAdmin <=> alive # {}
      /\ \A t \in accepted : owner[t] \in alive
      /\ changed \subseteq Admin
      /\ alive = {} => past = {}
      /\ \A u \in PageCall : Admins!CallInv(call[u], past)
  BY AdminsParts DEF SessionTypeOK
<1>2. call[w].what \in {"admins", "create", "delete", "password"}
  BY DEF Admins!ServeList, Admins!ServeCreate, Admins!ServeDelete, Admins!ServePassword,
         Admins!Waits
<1>3. w \in PageCall /\ Admins!CallInv(call[w], past)
  BY <1>1, <1>2, FlowFacts DEF CallsInv
\* All of them answer and leave the accounts of the tokens alone.
<1>4. ASSUME NEW answer, NEW got, Answered(w, answer, got),
             answer = "ok" => Allowed(w),
             UNCHANGED <<hasAdmin, owner>>, accepted' \subseteq accepted,
             alive' \subseteq Admin \ past', past \subseteq past', past' \subseteq Admin,
             hasAdmin' <=> alive' # {}, alive' # {} \/ past' = {},
             \A t \in accepted' : owner'[t] \in alive',
             changed \subseteq changed', changed' \subseteq Admin,
             answer = "ok" =>
               /\ call[w].what = "admins" => got \subseteq Admin \ {call[w].arg}
               /\ call[w].what = "delete" => call[w].arg \in past'
               /\ call[w].what = "password" => owner'[call[w].by] \in changed'
      PROVE  Admins!PageInv'
  <2>1. call[w].by \in accepted \/ answer # "ok"
    BY <1>4 DEF Allowed
  <2>2. SessionInv'
    BY <1>1, <1>2, <1>4, <2>1, AnswerKeepsSession
  <2> QED
    BY <1>2, <1>4, <2>2, ServeAdminsInv
<1>5. ASSUME NEW answer, NEW got, Answered(w, answer, got), answer # "ok",
             UNCHANGED <<hasAdmin, owner, accepted, alive, past, changed>>
      PROVE  Admins!PageInv'
  BY <1>1, <1>4, <1>5
<1> USE DEF Admins!Answers
<1>6. CASE Admins!Refuse(w)
  <2>1. /\ Answered(w, "refused", "none")
        /\ UNCHANGED <<hasAdmin, owner, accepted, alive, past, changed>>
    BY <1>6, SameCalls DEF Admins!Refuse, Admins!serverVars, Admins!tableVars
  <2> QED
    BY <1>5, <2>1
<1>7. CASE Admins!ServeList(w) /\ ~Admins!Refuse(w)
  <2>1. /\ call[w].what = "admins" /\ Allowed(w) /\ Answered(w, "ok", alive)
        /\ UNCHANGED <<hasAdmin, owner, accepted, alive, past, changed>>
    BY <1>7, SameCalls DEF Admins!ServeList, Admins!serverVars, Admins!tableVars, Waits
  <2>2. alive \subseteq Admin \ {call[w].arg}
    BY <1>1, <1>3, <2>1, NoIdAssumption DEF Admins!CallInv
  <2> QED
    BY <1>1, <1>4, <2>1, <2>2
<1>8. CASE Admins!ServeCreate(w) /\ ~Admins!Refuse(w)
  <2>1. call[w].what = "create" /\ Allowed(w)
    BY <1>8, SameCalls DEF Admins!ServeCreate, Waits
  <2>2. CASE /\ Answered(w, "failed", "none")
             /\ UNCHANGED <<hasAdmin, owner, accepted, alive, past, changed>>
    BY <1>5, <2>2
  <2>3. CASE Admins!Add /\ Answered(w, "ok", "none") /\ UNCHANGED changed
    <3>1. alive # {}
      BY <1>1, <2>1 DEF Allowed
    <3> QED
      BY <1>1, <1>4, <2>1, <2>3, <3>1, AddFacts
  <2> QED
    BY <1>8, <2>2, <2>3, SameCalls DEF Admins!ServeCreate, Admins!serverVars, Admins!tableVars
<1>9. CASE Admins!ServeDelete(w) /\ ~Admins!Refuse(w)
  <2>1. call[w].what = "delete" /\ Allowed(w) /\ UNCHANGED changed
    BY <1>9, SameCalls DEF Admins!ServeDelete, Waits
  <2>2. CASE /\ Answered(w, "failed", "none")
             /\ UNCHANGED <<hasAdmin, owner, accepted, alive, past>>
    BY <1>5, <2>1, <2>2
  <2>3. CASE /\ call[w].arg \in alive /\ Cardinality(alive) > 1
             /\ Admins!Remove(call[w].arg) /\ Answered(w, "ok", "none")
    <3>1. alive # {call[w].arg}
      <4>1. Cardinality({call[w].arg}) = 1
        BY FS_Singleton
      <4> QED
        BY <2>3, <4>1
    <3> QED
      BY <1>1, <1>4, <2>1, <2>3, <3>1, RemoveFacts
  <2> QED
    BY <1>9, <2>2, <2>3, SameCalls, SameCount DEF Admins!ServeDelete, Admins!serverVars
<1>10. CASE Admins!ServePassword(w) /\ ~Admins!Refuse(w)
  <2>1. /\ call[w].what = "password" /\ Allowed(w)
        /\ UNCHANGED <<hasAdmin, owner, accepted, alive, past>>
    BY <1>10, SameCalls DEF Admins!ServePassword, Admins!serverVars, Waits
  <2>2. CASE Answered(w, "ok", "none") /\ changed' = changed \union {owner[call[w].by]}
    <3>1. owner[call[w].by] \in Admin
      BY <1>1, <2>1 DEF Allowed
    <3> QED
      BY <1>1, <1>4, <2>1, <2>2, <3>1
  <2>3. CASE Answered(w, "failed", "none") /\ UNCHANGED changed
    BY <1>5, <2>1, <2>3
  <2> QED
    BY <1>10, <2>2, <2>3, SameCalls DEF Admins!ServePassword
<1> QED
  BY <1>6, <1>7, <1>8, <1>9, <1>10

LEMMA AdminsServeInv ==
  ASSUME Admins!PageInv, NEW w \in Flow, Admins!Serve(w)
  PROVE  Admins!PageInv'
<1>1. UNCHANGED Admins!pageVars
  BY DEF Admins!Serve
<1>2. CASE Admins!ServeSign(w)
  BY <1>1, <1>2, ServeSignInv
<1>3. CASE Admins!ServeFails(w) /\ UNCHANGED <<authVars, early, overlap, Admins!tableVars>>
  <2>1. /\ ServeFails(w) /\ UNCHANGED <<alive, past, changed, authVars, early, overlap>>
    BY <1>3, SameServer DEF Admins!tableVars
  <2>2. /\ call[w].what # "none" /\ Answered(w, "failed", "none")
        /\ UNCHANGED <<hasAdmin, owner, accepted>>
    BY <2>1 DEF ServeFails, serverVars
  <2>3. SessionInv'
    BY <2>1, AdminsParts, ServeFailsInv
  <2> QED
    BY <1>1, <2>1, <2>2, <2>3, AdminsParts, ServeAdminsInv
<1>4. CASE /\ \/ Admins!ServeList(w) \/ Admins!ServeCreate(w)
              \/ Admins!ServeDelete(w) \/ Admins!ServePassword(w)
           /\ UNCHANGED <<authVars, early, overlap>>
  BY <1>1, <1>4, ServeTableInv
<1> QED
  BY <1>2, <1>3, <1>4 DEF Admins!Serve, Admins!authVars, authVars

LEMMA AdminsElsewhereInv ==
  ASSUME Admins!PageInv, Admins!Elsewhere
  PROVE  Admins!PageInv'
<1>1. /\ SessionInv /\ SessionTypeOK
      /\ adminsMounted \in BOOLEAN /\ listed \subseteq Admin
      /\ open \in BOOLEAN /\ submitting \in BOOLEAN /\ done \in BOOLEAN
      /\ adminsOrphan \subseteq PageCall /\ changed \subseteq Admin
      /\ \A u \in PageCall :
           /\ Admins!CallInv(call[u], past)
           /\ call[u].what = "password" /\ call[u].answer = "ok" =>
                owner[call[u].by] \in changed
      /\ Admins!LayoutInv
  BY AdminsParts
<1>2. /\ UNCHANGED <<changed, token, user, restoring, needsSetup, early, overlap, call>>
      /\ UNCHANGED <<adminsMounted, listed, open, submitting, done, adminsOrphan>>
  BY DEF Admins!Elsewhere, Admins!authVars, Admins!pageVars, Admins!dialogVars
<1>3. /\ alive' \subseteq Admin \ past' /\ past \subseteq past' /\ past' \subseteq Admin
      /\ (hasAdmin' <=> alive' # {}) /\ alive' # {}
      /\ \A t \in accepted' : owner'[t] \in alive'
      /\ UNCHANGED <<hasAdmin, owner>> /\ accepted' \subseteq accepted
  BY AddFacts, RemoveFacts DEF Admins!Elsewhere
<1>4. SessionInv'
  BY <1>1, <1>2, <1>3, OutsideKeepsSession DEF SessionTypeOK, authVars
<1>5. Admins!TypeOK' /\ Admins!SessionInv'
  BY <1>1, <1>2, <1>3, <1>4, AdminsTypeNext
<1>6. \A u \in PageCall : Admins!CallInv(call'[u], past')
  BY <1>1, <1>2, <1>3 DEF Admins!CallInv
<1>7. Admins!TableInv'
  BY <1>1, <1>2, <1>3, <1>6, AdminsTableNext
<1>8. ConsoleShown' <=> ConsoleShown
  BY <1>2 DEF ConsoleShown
<1>9. Admins!LayoutInv'
  BY <1>1, <1>2, <1>3, <1>8, LayoutParts, AdminsLayoutNext
<1> QED
  BY <1>5, <1>7, <1>9 DEF Admins!PageInv

\* The page or the dialog asks for something, takes an answer, or is shown or
\* left; what stays in flight keeps its component.
LEMMA AdminsGoesOn ==
  ASSUME Admins!PageInv, SessionInv',
         UNCHANGED <<serverVars, user, restoring, needsSetup, early, overlap, alive, past, changed>>,
         \A w \in PageCall :
           \/ call'[w] = call[w] /\ (w \in adminsOrphan => w \in adminsOrphan')
           \/ call'[w] = NoCall
           \/ /\ call'[w].answer = "none" /\ Admins!CallInv(call'[w], past)
              /\ ConsoleShown \/ w \in adminsOrphan'
              /\ call'[w].what = "password" /\ call'[w].by # NoToken /\ ~overlap
                   => owner[call'[w].by] = user,
         ~ConsoleShown => ~adminsMounted' /\ ~open' /\ ~done',
         adminsMounted' \in BOOLEAN, listed' \subseteq Admin,
         open' \in BOOLEAN, submitting' \in BOOLEAN, done' \in BOOLEAN,
         adminsOrphan' \subseteq PageCall,
         ~overlap /\ done' /\ user # NoUser => user \in changed
  PROVE  Admins!PageInv'
<1>1. /\ alive \subseteq Admin \ past /\ past \subseteq Admin
      /\ hasAdmin <=> alive # {}
      /\ \A t \in accepted : owner[t] \in alive
      /\ changed \subseteq Admin
      /\ alive = {} => past = {}
      /\ \A w \in PageCall :
              /\ Admins!CallInv(call[w], past)
              /\ call[w].what = "password" /\ call[w].answer = "ok" =>
                   owner[call[w].by] \in changed
      /\ Admins!LayoutInv
  BY AdminsParts
<1>2. /\ UNCHANGED <<hasAdmin, owner, accepted, user, early, overlap, alive, past, changed>>
      /\ ConsoleShown' <=> ConsoleShown
  BY DEF serverVars, ConsoleShown
<1>3. Admins!TypeOK' /\ Admins!SessionInv'
  BY <1>1, <1>2, AdminsTypeNext
<1>4. \A w \in PageCall :
        /\ Admins!CallInv(call'[w], past')
        /\ call'[w].what = "password" /\ call'[w].answer = "ok" =>
             owner'[call'[w].by] \in changed'
  <2>1. Admins!CallInv(NoCall, past)
    BY NoCallFacts DEF Admins!CallInv
  <2> QED
    BY <1>1, <1>2, <2>1, NoCallFacts
<1>5. Admins!TableInv'
  BY <1>1, <1>4, AdminsTableNext
<1>6. ~ConsoleShown' => \A w \in PageCall \ adminsOrphan' : call'[w] = NoCall
  BY <1>1, <1>2, LayoutParts
<1>7. ~overlap' =>
        \A w \in PageCall \ adminsOrphan' :
          call'[w].what = "password" /\ call'[w].by # NoToken /\ user' # NoUser
            => owner'[call'[w].by] = user'
  BY <1>1, <1>2, LayoutParts, NoCallFacts
<1>8. Admins!LayoutInv'
  BY <1>2, <1>6, <1>7, AdminsLayoutNext
<1> QED
  BY <1>3, <1>5, <1>8 DEF Admins!PageInv

\* The steps without a request.
LEMMA AdminsQuietInv ==
  ASSUME Admins!PageInv, Admins!Leave \/ Admins!OpenDialog \/ Admins!CloseDialog
  PROVE  Admins!PageInv'
<1>1. /\ SessionInv /\ SessionTypeOK /\ Admins!LayoutInv
      /\ adminsMounted \in BOOLEAN /\ listed \subseteq Admin
      /\ open \in BOOLEAN /\ submitting \in BOOLEAN /\ done \in BOOLEAN
      /\ adminsOrphan \subseteq PageCall
  BY AdminsParts
<1>2. /\ UNCHANGED <<hasAdmin, owner, accepted, token, user, restoring, needsSetup,
                     early, overlap, call, alive, past, changed>>
  BY DEF Admins!Leave, Admins!OpenDialog, Admins!CloseDialog, Admins!sessionVars,
         Admins!serverVars, Admins!authVars, Admins!tableVars
<1>3. SessionInv'
  BY <1>1, <1>2, OutsideKeepsSession DEF SessionTypeOK, authVars
<1>4. /\ adminsMounted' \in BOOLEAN /\ listed' \subseteq Admin
      /\ open' \in BOOLEAN /\ submitting' \in BOOLEAN /\ done' \in BOOLEAN
      /\ adminsOrphan' \subseteq PageCall /\ adminsOrphan \subseteq adminsOrphan'
      /\ done' => done
      /\ ~ConsoleShown => ~adminsMounted' /\ ~open'
  <2>1. CASE Admins!Leave
    BY <1>1, <2>1, LayoutParts DEF Admins!Leave, Admins!dialogVars
  <2>2. CASE Admins!OpenDialog
    BY <1>1, <2>2, LayoutParts, SameShown DEF Admins!OpenDialog
  <2>3. CASE Admins!CloseDialog
    BY <1>1, <2>3, LayoutParts DEF Admins!CloseDialog, Admins!Dialog
  <2> QED
    BY <2>1, <2>2, <2>3
<1> QED
  BY <1>1, <1>2, <1>3, <1>4, LayoutParts, AdminsGoesOn DEF serverVars

\* A request is sent; the dialog's is made for its user.
LEMMA AdminsSent ==
  ASSUME Admins!PageInv, NEW w \in PageCall,
         NEW what \in {"admins", "create", "delete", "password"}, NEW arg, Then(w, Request(what, token, arg)),
         UNCHANGED <<serverVars, token, user, restoring, needsSetup, early, overlap, alive, past, changed>>,
         what = "admins" => arg = NoId, what = "create" => arg = NoId,
         ConsoleShown,
         adminsMounted' \in BOOLEAN, submitting' \in BOOLEAN,
         UNCHANGED <<listed, open, done, adminsOrphan>>
  PROVE  Admins!PageInv'
<1>1. /\ SessionInv /\ SessionTypeOK /\ CallsInv /\ Admins!LayoutInv
      /\ listed \subseteq Admin /\ open \in BOOLEAN /\ done \in BOOLEAN
      /\ adminsOrphan \subseteq PageCall
  BY AdminsParts
<1>2. PICK next : next = Request(what, token, arg)
  OBVIOUS
<1>3. /\ IsRequest(next) /\ next.answer = "none" /\ next.what = what /\ next.arg = arg
      /\ next.by = token
  BY <1>1, <1>2, RequestFacts DEF SessionTypeOK
<1>4. SessionInv'
  BY <1>1, <1>2, <1>3, PageKeepsSession DEF SessionCalls
<1>5. call'[w] = next /\ \A u \in PageCall : u # w => call'[u] = call[u]
  BY <1>1, <1>2, ThenFacts, FlowFacts
<1>6. Admins!CallInv(next, past)
  BY <1>3 DEF Admins!CallInv
<1>7. ~overlap /\ token # NoToken => owner[token] = user
  BY <1>1 DEF SessionInv, OneSession, UserMatchesToken, ConsoleShown
<1>8. ~overlap /\ done' /\ user # NoUser => user \in changed
  BY <1>1, LayoutParts
<1> QED
  BY <1>1, <1>3, <1>4, <1>5, <1>6, <1>7, <1>8, AdminsGoesOn

\* An answer is taken, and the list may be loaded again.
LEMMA AdminsReceived ==
  ASSUME Admins!PageInv, NEW w \in PageCall, NEW next, Then(w, next),
         \/ next = NoCall
         \/ /\ \E arg \in past \union {NoId} : next = Request("admins", token', arg)
            /\ call[w] # NoCall /\ UNCHANGED adminsOrphan,
         token' \in {token, NoToken},
         UNCHANGED <<serverVars, user, restoring, needsSetup, early, overlap, alive, past, changed>>,
         UNCHANGED <<adminsMounted, open>>,
         listed' \subseteq Admin, submitting' \in BOOLEAN, done' \in BOOLEAN,
         adminsOrphan' \in {adminsOrphan, adminsOrphan \ {w}},
         done' => done \/ (w \notin adminsOrphan /\ (~overlap => user \in changed)
                                                 /\ call[w] # NoCall)
  PROVE  Admins!PageInv'
<1>1. /\ SessionInv /\ SessionTypeOK /\ CallsInv /\ Admins!LayoutInv
      /\ adminsMounted \in BOOLEAN /\ open \in BOOLEAN
      /\ adminsOrphan \subseteq PageCall
  BY AdminsParts
<1>2. next # NoCall =>
        /\ IsRequest(next) /\ next.answer = "none" /\ next.what = "admins"
        /\ next.arg \in past \union {NoId}
  <2>1. token' \in Token \union {NoToken}
    BY <1>1 DEF SessionTypeOK
  <2> QED
    BY <2>1, RequestFacts
<1>3. SessionInv'
  BY <1>1, <1>2, PageKeepsSession DEF SessionCalls
<1>4. call'[w] = next /\ \A u \in PageCall : u # w => call'[u] = call[u]
  BY <1>1, ThenFacts, FlowFacts
<1>5. next # NoCall => Admins!CallInv(next, past) /\ (ConsoleShown \/ w \in adminsOrphan')
  BY <1>1, <1>2, LayoutParts DEF Admins!CallInv
<1>6. /\ ~overlap /\ done' /\ user # NoUser => user \in changed
      /\ ~ConsoleShown => ~adminsMounted' /\ ~open' /\ ~done'
  BY <1>1, LayoutParts
<1> QED
  BY <1>1, <1>2, <1>3, <1>4, <1>5, <1>6, AdminsGoesOn

LEMMA AdminsPageStepInv ==
  ASSUME Admins!PageInv, Admins!PageStep
  PROVE  Admins!PageInv'
<1>1. /\ SessionInv /\ SessionTypeOK /\ CallsInv /\ Admins!LayoutInv
      /\ alive \subseteq Admin \ past
      /\ owner \in [Token -> Admin \union {NoUser}]
      /\ adminsMounted \in BOOLEAN /\ listed \subseteq Admin
      /\ open \in BOOLEAN /\ submitting \in BOOLEAN /\ done \in BOOLEAN
      /\ adminsOrphan \subseteq PageCall
      /\ \A w \in PageCall :
              /\ Admins!CallInv(call[w], past)
              /\ call[w].what = "password" /\ call[w].answer = "ok" =>
                   owner[call[w].by] \in changed
  BY AdminsParts
<1>2. /\ adminsMounted => ConsoleShown
      /\ open => ConsoleShown
  BY <1>1, LayoutParts
<1> USE DEF Admins!authVars, Admins!serverVars, serverVars, Admins!tableVars,
            Admins!dialogVars, Admins!pageVars, Admins!ListCall
<1>3. CASE Admins!Visit
  <2>1. PICK w \in PageCall : Then(w, Request("admins", token, NoId))
    BY <1>3, SameCalls, SameWords DEF Admins!Visit
  <2>2. /\ ConsoleShown /\ adminsMounted' = TRUE
        /\ UNCHANGED <<hasAdmin, owner, accepted, token, user, restoring, needsSetup, early, overlap,
                       alive, past, changed, listed, open, submitting, done, adminsOrphan>>
    BY <1>3, SameShown DEF Admins!Visit
  <2> QED
    BY <1>1, <2>1, <2>2, AdminsSent
<1>4. ASSUME NEW w \in PageCall, Admins!Create(w) PROVE Admins!PageInv'
  <2>1. /\ Then(w, Request("create", token, NoId)) /\ ConsoleShown
        /\ UNCHANGED <<hasAdmin, owner, accepted, token, user, restoring, needsSetup, early, overlap,
                       alive, past, changed, adminsMounted, listed, open, submitting, done,
                       adminsOrphan>>
    BY <1>2, <1>4, SameCalls, SameWords DEF Admins!Create
  <2> QED
    BY <1>1, <2>1, AdminsSent
<1>5. ASSUME NEW w \in PageCall, NEW a \in Admin, Admins!Delete(w, a) PROVE Admins!PageInv'
  <2>1. /\ Then(w, Request("delete", token, a)) /\ ConsoleShown
        /\ UNCHANGED <<hasAdmin, owner, accepted, token, user, restoring, needsSetup, early, overlap,
                       alive, past, changed, adminsMounted, listed, open, submitting, done,
                       adminsOrphan>>
    BY <1>2, <1>5, SameCalls, SameWords DEF Admins!Delete
  <2> QED
    BY <1>1, <2>1, AdminsSent
<1>6. ASSUME NEW w \in PageCall, Admins!Submit(w) PROVE Admins!PageInv'
  <2>1. /\ Then(w, Request("password", token, NoId)) /\ ConsoleShown /\ submitting' = TRUE
        /\ UNCHANGED <<hasAdmin, owner, accepted, token, user, restoring, needsSetup, early, overlap,
                       alive, past, changed, adminsMounted, listed, open, done,
                       adminsOrphan>>
    BY <1>2, <1>6, SameCalls, SameWords DEF Admins!Submit
  <2> QED
    BY <1>1, <2>1, AdminsSent
<1>7. ASSUME NEW w \in PageCall, Admins!ReceiveList(w) PROVE Admins!PageInv'
  <2>1. /\ Then(w, NoCall) /\ adminsOrphan' = adminsOrphan \ {w}
        /\ token' \in {token, NoToken}
        /\ UNCHANGED <<hasAdmin, owner, accepted, user, restoring, needsSetup, early, overlap,
                       alive, past, changed, adminsMounted, open, submitting, done>>
    BY <1>7, SameCalls, SameWords DEF Admins!ReceiveList, Unauthorized
  <2>2. listed' \subseteq Admin
    BY <1>1, <1>7, SameCalls DEF Admins!ReceiveList, Has, Admins!CallInv
  <2> QED
    BY <1>1, <2>1, <2>2, AdminsReceived
<1>8. ASSUME NEW w \in PageCall, Admins!ReceiveChange(w) PROVE Admins!PageInv'
  <2>1. /\ call[w].what \in {"create", "delete"} /\ token' \in {token, NoToken}
        /\ call[w].answer = "ok" => token' = token
        /\ UNCHANGED <<hasAdmin, owner, accepted, user, restoring, needsSetup, early, overlap,
                       alive, past, changed, adminsMounted, listed, open, submitting, done>>
    BY <1>8, SameCalls DEF Admins!ReceiveChange, Has, Unauthorized
  <2>2. CASE call[w].answer = "ok"
    <3>1. Then(w, Request("admins", token, call[w].arg)) /\ UNCHANGED adminsOrphan
      BY <1>8, <2>2, SameCalls, SameWords DEF Admins!ReceiveChange
    <3>2. call[w].arg \in past \union {NoId}
      BY <1>1, <2>1, <2>2 DEF Admins!CallInv
    <3>3. PICK next : next = Request("admins", token, call[w].arg)
      OBVIOUS
    <3> QED
      BY <1>1, <2>1, <2>2, <3>1, <3>2, <3>3, NoCallFacts, AdminsReceived
  <2>3. CASE call[w].answer # "ok"
    <3>1. Then(w, NoCall) /\ adminsOrphan' = adminsOrphan \ {w}
      BY <1>8, <2>3, SameCalls, SameWords DEF Admins!ReceiveChange
    <3> QED
      BY <1>1, <2>1, <3>1, AdminsReceived
  <2> QED
    BY <2>2, <2>3
<1>9. ASSUME NEW w \in PageCall, Admins!ReceivePassword(w) PROVE Admins!PageInv'
  <2>1. /\ call[w].what = "password" /\ Then(w, NoCall) /\ adminsOrphan' = adminsOrphan \ {w}
        /\ token' \in {token, NoToken}
        /\ UNCHANGED <<hasAdmin, owner, accepted, user, restoring, needsSetup, early, overlap,
                       alive, past, changed, adminsMounted, listed>>
    BY <1>9, SameCalls, SameWords DEF Admins!ReceivePassword, Has, Unauthorized
  <2>2. /\ UNCHANGED open /\ submitting' \in BOOLEAN /\ done' \in BOOLEAN
        /\ done' => done \/ (w \notin adminsOrphan /\ call[w].answer = "ok")
    BY <1>1, <1>9 DEF Admins!ReceivePassword, Admins!Dialog
  <2>3. ASSUME w \notin adminsOrphan, call[w].answer = "ok", ~overlap
        PROVE  user \in changed
    <3>1. call[w].by \in Token /\ owner[call[w].by] \in changed
      BY <1>1, <2>1, <2>3, FlowFacts DEF SessionInv, AnswerInv
    <3>2. user # NoUser
      BY <1>1, <2>1, <2>3, LayoutParts, NoCallFacts DEF ConsoleShown
    <3> QED
      BY <1>1, <2>1, <2>3, <3>1, <3>2, LayoutParts, FlowFacts
  <2> QED
    BY <1>1, <2>1, <2>2, <2>3, NoCallFacts, AdminsReceived
<1> QED
  BY <1>3, <1>4, <1>5, <1>6, <1>7, <1>8, <1>9, AdminsQuietInv DEF Admins!PageStep

LEMMA AdminsNext ==
  ASSUME Admins!PageInv, Admins!Next
  PROVE  Admins!PageInv'
BY AdminsSessionInv, AdminsPageStepInv, AdminsElsewhereInv, AdminsServeInv, SameWords
   DEF Admins!Next

(***************************************************************************)
(* The console.                                                            *)
(***************************************************************************)
LEMMA ConsoleInitInv == ConsoleInit => ConsoleInv
<1>1. ASSUME section = "credentials", Init, done = FALSE
      PROVE  ConsoleInv
  BY <1>1, PageInitInv DEF ConsoleInv
<1>2. ASSUME section = "admins", Admins!Init,
             row = <<>> /\ page = 1 /\ shown = <<>> /\ total = 0,
             mounted = FALSE /\ loading = FALSE /\ orphan = {}
      PROVE  ConsoleInv
  BY <1>2, AdminsInitInv DEF ConsoleInv
<1> QED
  BY <1>1, <1>2 DEF ConsoleInit

LEMMA ConsoleNextInv == ConsoleInv /\ [ConsoleNext]_consoleVars => ConsoleInv'
<1> SUFFICES ASSUME ConsoleInv, [ConsoleNext]_consoleVars
             PROVE  ConsoleInv'
  OBVIOUS
<1>1. CASE section = "credentials" /\ section' = section /\ Next /\ UNCHANGED adminsVars
  <2>1. PageInv /\ ~done
    BY <1>1 DEF ConsoleInv
  <2>2. PageInv' /\ UNCHANGED done
    BY <1>1, <2>1, CredentialsNext DEF adminsVars
  <2> QED
    BY <1>1, <2>1, <2>2 DEF ConsoleInv
<1>2. CASE section = "admins" /\ section' = section /\ Admins!Next /\ UNCHANGED <<row, pageVars>>
  <2>1. Admins!PageInv
    BY <1>2 DEF ConsoleInv
  <2>2. Admins!PageInv'
    BY <1>2, <2>1, AdminsNext
  <2>3. UNCHANGED <<row, page, shown, total, mounted, loading, orphan>>
    BY <1>2 DEF pageVars
  <2> QED
    BY <1>2, <2>2, <2>3 DEF ConsoleInv
<1>3. CASE UNCHANGED consoleVars
  <2>1. /\ UNCHANGED <<hasAdmin, owner, accepted, authVars, early, overlap, call, row, pageVars, section>>
        /\ UNCHANGED <<alive, past, changed, adminsMounted, listed,
                       open, submitting, done, adminsOrphan>>
    BY <1>3 DEF consoleVars, vars, sessionVars, serverVars, adminsVars
  <2>2. CASE section = "credentials"
    <3>1. PageInv /\ ~done
      BY <2>2 DEF ConsoleInv
    <3>2. SessionInv'
      BY <2>1, <3>1, PageParts, OutsideKeepsSession DEF SessionTypeOK
    <3>3. PageInv'
      BY <2>1, <3>1, <3>2, QuietPage
    <3> QED
      BY <2>1, <2>2, <3>1, <3>3 DEF ConsoleInv
  <2>3. CASE section = "admins"
    <3>1. Admins!PageInv
      BY <2>3 DEF ConsoleInv
    <3>2. SessionInv'
      BY <2>1, <3>1, AdminsParts, OutsideKeepsSession DEF SessionTypeOK
    <3>3. /\ UNCHANGED <<serverVars, user, restoring, needsSetup>>
          /\ UNCHANGED <<row, page, shown, total, mounted, loading, orphan>>
      BY <2>1 DEF serverVars, authVars, pageVars
    <3>4. /\ ~ConsoleShown => ~adminsMounted' /\ ~open' /\ ~done'
          /\ ~overlap /\ done' /\ user # NoUser => user \in changed
      BY <2>1, <3>1, AdminsParts, LayoutParts
    <3>5. Admins!PageInv'
      BY <2>1, <3>1, <3>2, <3>3, <3>4, AdminsParts, AdminsGoesOn
    <3> QED
      BY <2>1, <2>3, <3>3, <3>5 DEF ConsoleInv
  <2> QED
    BY <2>2, <2>3 DEF ConsoleInv
<1> QED
  BY <1>1, <1>2, <1>3 DEF ConsoleNext

\* The session, the page that is shown and the requests in flight agree in
\* every state the tab can be in, however late an answer comes.
THEOREM ConsoleInvariant == ConsoleSpec => []ConsoleInv
<1> QED
  BY ConsoleInitInv, ConsoleNextInv, PTL DEF ConsoleSpec

LEMMA SessionOfConsole == ConsoleInv => SessionInv
BY PageParts, AdminsParts DEF ConsoleInv

\* The administrator whose name the console shows is the one its requests are
\* made for, unless somebody has signed in at /login while the session of that
\* load of the tab was being restored (AuthContext, RequireAuth).
THEOREM ShownUserIsServed == ConsoleSpec => []UserMatchesToken
<1>1. ConsoleInv => UserMatchesToken
  BY SessionOfConsole DEF SessionInv, OneSession, UserMatchesToken
<1> QED
  BY <1>1, ConsoleInvariant, PTL

\* The load that follows a revocation shows it (CredentialsPage, handleRevoke).
THEOREM RevocationIsSeen == ConsoleSpec => []SeesItsRevocation
<1>1. ASSUME ConsoleInv, NEW w \in PageCall,
             Has(w, "list"), call[w].answer = "ok", call[w].arg.own # NoId
      PROVE  call[w].got[call[w].arg.own] = "revoked"
  <2>1. call[w].what = "list"
    BY <1>1 DEF Has
  <2>2. CASE PageInv
    <3>1. CallInv(call[w], row)
      BY <2>2, PageParts
    <3> QED
      BY <1>1, <2>1, <3>1 DEF CallInv, Revoked
  <2>3. CASE Admins!PageInv
    <3>1. Admins!CallInv(call[w], past)
      BY <2>3, AdminsParts
    <3> QED
      BY <2>1, <3>1 DEF Admins!CallInv
  <2> QED
    BY <1>1, <2>2, <2>3 DEF ConsoleInv
<1>2. ConsoleInv => SeesItsRevocation
  BY <1>1 DEF SeesItsRevocation
<1> QED
  BY <1>2, ConsoleInvariant, PTL

\* Next never leads past the last page (CredentialsPage, Pagination), for
\* every size of a page.
THEOREM NextStaysInside == ConsoleSpec => []NeverPastTheEnd
<1>1. ASSUME ConsoleInv PROVE NeverPastTheEnd
  <2>1. CASE PageInv
    BY <2>1 DEF PageInv, ShownInv
  <2>2. CASE row = <<>> /\ page = 1
    <3>1. Len(row) = 0 /\ Pages(0) \in Nat \ {0}
      BY <2>2, PagesGrow
    <3> QED
      BY <2>2, <3>1 DEF NeverPastTheEnd
  <2> QED
    BY <1>1, <2>1, <2>2 DEF ConsoleInv
<1> QED
  BY <1>1, ConsoleInvariant, PTL

\* "Password updated." is shown to whose password was changed, with the same
\* exception (ChangePasswordDialog).
THEOREM UpdatedMeansUpdated == ConsoleSpec => []DoneHonest
<1>1. ASSUME ConsoleInv PROVE DoneHonest
  <2>1. CASE ~done
    BY <2>1 DEF DoneHonest, Admins!DoneHonest
  <2>2. CASE Admins!PageInv
    BY <2>2, AdminsParts DEF Admins!LayoutInv, DoneHonest, Admins!DoneHonest
  <2> QED
    BY <1>1, <2>1, <2>2 DEF ConsoleInv
<1> QED
  BY <1>1, ConsoleInvariant, PTL

\* The load that follows a deletion does not list the account (AdminsPage,
\* handleDelete).
THEOREM DeletionIsSeen == ConsoleSpec => []SeesItsDeletion
<1>1. ASSUME ConsoleInv, section = "admins", NEW w \in PageCall,
             Has(w, "admins"), call[w].answer = "ok"
      PROVE  call[w].arg \notin call[w].got
  <2>1. call[w].what = "admins"
    BY <1>1 DEF Has
  <2>2. Admins!CallInv(call[w], past)
    BY <1>1, AdminsParts DEF ConsoleInv
  <2> QED
    BY <1>1, <2>1, <2>2 DEF Admins!CallInv
<1>2. ConsoleInv => SeesItsDeletion
  BY <1>1, SameCalls DEF SeesItsDeletion, Admins!SeesItsDeletion
<1> QED
  BY <1>2, ConsoleInvariant, PTL
==============================================================================
