------------------------- MODULE AuthenticationProofs -------------------------
(***************************************************************************)
(* Proofs about Authentication, for any number of session IDs and          *)
(* requests, any session length and any grace period within it.            *)
(*                                                                         *)
(* OneHeir and RenewedSessionsEnd are inductive with the types.  What the  *)
(* browser gets rests on more: every ID in a cookie was drawn (CookiesOK), *)
(* and a session reaches the browser once, in one response (DeliveryOK).   *)
(* NoSpuriousLogout is about time: the grace period of a renewed session   *)
(* begins after the renewing request was sent, so when the new session     *)
(* arrives there is enough left of it for every request sent before        *)
(* (GraceOK).                                                              *)
(***************************************************************************)
EXTENDS Authentication, TLAPS

\* What holds of the requests.  A request that goes on to renew has a cookie.
ReqOK ==
  /\ req \in [Requests -> Request]
  /\ \A r \in Requests : req[r].pc = "renewing" => req[r].cookie \in Sessions

\* What holds of the sessions.  An ID not drawn yet has no heirs, so the new
\* session of a renewal starts without any.
SessionOK ==
  /\ session \in [Sessions -> {"unused", "current", "renewed", "expired", "deleted"}]
  /\ ttl \in [Sessions -> 0 .. Length]
  /\ heirs \in [Sessions -> SUBSET Sessions]
  /\ OneHeir
  /\ RenewedSessionsEnd
  /\ \A s \in Sessions : Fresh(s) => heirs[s] = {}

\* The inductive invariant.
IInv == ReqOK /\ SessionOK /\ jar \in Sessions \union {Null}

\* Nothing is renewed, and nothing in progress, at the start.
LEMMA InitEstablishes == Init => IInv
BY SessionAssumption DEF Init, IInv, ReqOK, SessionOK, OneHeir, RenewedSessionsEnd, Live, Fresh, Idle, Request

\* A request that goes on with a session as its identity stays well formed.
LEMMA GoOK ==
  ASSUME ReqOK, NEW r \in Requests, NEW pc \in {"renewing", "verified", "answered"},
         NEW auth \in Sessions \union {Null}, Go(r, pc, auth),
         pc = "renewing" => req[r].cookie \in Sessions
  PROVE  ReqOK'
<1> DEFINE q == [req[r] EXCEPT !.pc = pc, !.auth = auth]
<1>1. req[r] \in Request
  BY DEF ReqOK
<1>2. q \in Request /\ q.pc = pc /\ q.cookie = req[r].cookie
  BY <1>1 DEF Request
<1>3. req' = [req EXCEPT ![r] = q]
  BY DEF Go
<1> HIDE DEF q
<1> QED BY <1>2, <1>3 DEF ReqOK

\* So does a request that ends.
LEMMA IdleOK ==
  ASSUME ReqOK, NEW r \in Requests, req' = [req EXCEPT ![r] = Idle]
  PROVE  ReqOK'
BY SessionAssumption DEF ReqOK, Idle, Request

\* Sessions that do not change stay sound.
LEMMA SessionsUnchanged ==
  ASSUME SessionOK, UNCHANGED <<session, ttl, heirs>>
  PROVE  SessionOK'
BY DEF SessionOK, OneHeir, RenewedSessionsEnd, Live, Fresh

\* The script of renew_session, run at any time after the session was read,
\* gives a session that has no heir its only one.
LEMMA RenewOK ==
  ASSUME SessionOK, NEW old \in Sessions, NEW new \in Sessions, RenewScript(old, new)
  PROVE  SessionOK'
<1>1. session[old] = "current" /\ session[new] = "unused" /\ old # new
  BY DEF RenewScript, MayRenew, Fresh
<1>2. heirs[old] = {} /\ heirs[new] = {}
  BY <1>1, SessionAssumption DEF SessionOK, RenewedSessionsEnd, Live, Fresh
<1>3. /\ session' = [s \in Sessions |-> IF s = old THEN "renewed" ELSE IF s = new THEN "current" ELSE session[s]]
      /\ ttl' = [s \in Sessions |-> IF s = old THEN Grace ELSE IF s = new THEN Length ELSE ttl[s]]
      /\ heirs' = [heirs EXCEPT ![old] = @ \union {new}]
  BY DEF RenewScript, OldSession
<1>4. /\ session' \in [Sessions -> {"unused", "current", "renewed", "expired", "deleted"}]
      /\ ttl' \in [Sessions -> 0 .. Length]
      /\ heirs' \in [Sessions -> SUBSET Sessions]
  BY <1>3, SessionAssumption DEF SessionOK
<1>5. /\ session'[old] = "renewed" /\ ttl'[old] = Grace /\ heirs'[old] = {new}
      /\ session'[new] = "current" /\ heirs'[new] = {}
      /\ \A s \in Sessions \ {old, new} :
           session'[s] = session[s] /\ ttl'[s] = ttl[s] /\ heirs'[s] = heirs[s]
  BY <1>1, <1>2, <1>3 DEF SessionOK
<1>6. OneHeir'
  BY <1>5 DEF SessionOK, OneHeir
<1>7. RenewedSessionsEnd'
  BY <1>5, SessionAssumption DEF SessionOK, RenewedSessionsEnd, Live
<1>8. (\A s \in Sessions : Fresh(s) => heirs[s] = {})'
  BY <1>5 DEF SessionOK, Fresh
<1> QED BY <1>4, <1>6, <1>7, <1>8 DEF SessionOK

\* A new session, drawn from the IDs nobody has had, leaves the others alone.
LEMMA CreateOK ==
  ASSUME SessionOK, NEW new \in Sessions, create_session(new), heirs' = heirs
  PROVE  SessionOK'
<1>1. /\ session' \in [Sessions -> {"unused", "current", "renewed", "expired", "deleted"}]
      /\ ttl' \in [Sessions -> 0 .. Length]
      /\ heirs' \in [Sessions -> SUBSET Sessions]
  BY SessionAssumption DEF SessionOK, create_session
<1>2. /\ session'[new] = "current" /\ heirs'[new] = {}
      /\ \A s \in Sessions \ {new} : session'[s] = session[s] /\ ttl'[s] = ttl[s]
  BY DEF SessionOK, Fresh, create_session
<1>3. OneHeir' /\ RenewedSessionsEnd' /\ (\A s \in Sessions : Fresh(s) => heirs[s] = {})'
  BY <1>2 DEF SessionOK, OneHeir, RenewedSessionsEnd, Live, Fresh
<1> QED BY <1>1, <1>3 DEF SessionOK

\* A step that only ends sessions keeps them sound.
LEMMA EndOK ==
  ASSUME SessionOK, heirs' = heirs,
         session' \in [Sessions -> {"unused", "current", "renewed", "expired", "deleted"}],
         ttl' \in [Sessions -> 0 .. Length],
         \A s \in Sessions : session'[s] \in {session[s], "expired", "deleted"} /\ ttl'[s] <= ttl[s]
  PROVE  SessionOK'
<1>1. OneHeir'
  BY DEF SessionOK, OneHeir
<1>2. \A s \in Sessions : Live(s)' => Live(s) /\ session'[s] = session[s]
  BY DEF SessionOK, Live
<1>3. RenewedSessionsEnd'
  <2> SUFFICES ASSUME NEW s \in Sessions, Live(s)'
               PROVE  (IF heirs[s] = {} THEN session[s] = "current" ELSE session[s] = "renewed" /\ ttl[s] <= Grace)'
    BY DEF RenewedSessionsEnd
  <2>1. IF heirs[s] = {} THEN session[s] = "current" ELSE session[s] = "renewed" /\ ttl[s] <= Grace
    BY <1>2 DEF SessionOK, RenewedSessionsEnd
  <2>2. ttl[s] \in Int /\ ttl'[s] \in Int /\ ttl'[s] <= ttl[s] /\ Grace \in Int
    BY SessionAssumption DEF SessionOK
  <2> QED BY <1>2, <2>1, <2>2
<1>4. (\A s \in Sessions : Fresh(s) => heirs[s] = {})'
  BY DEF SessionOK, Fresh
<1> QED BY <1>1, <1>3, <1>4 DEF SessionOK

\* Every step of a request preserves the invariant.
LEMMA StepPreserves ==
  ASSUME IInv, NEW r \in Requests, Step(r)
  PROVE  IInv'
<1> USE DEF IInv
<1>0. /\ ReqOK /\ SessionOK /\ jar \in Sessions \union {Null}
      /\ req[r] \in Request /\ req[r].cookie \in Sessions \union {Null}
      /\ req[r].auth \in Sessions \union {Null}
  BY DEF ReqOK, Request
<1>1. CASE \E kind \in {"get", "login", "logout"} : send(r, kind)
  <2>1. PICK kind \in {"get", "login", "logout"} : send(r, kind)
    BY <1>1
  <2> DEFINE q == [pc |-> "sent", kind |-> kind, cookie |-> jar, auth |-> Null, age |-> 0]
  <2>2. q \in Request /\ q.pc = "sent"
    BY <1>0, SessionAssumption DEF Request
  <2>3. req' = [req EXCEPT ![r] = q] /\ UNCHANGED <<session, ttl, heirs, jar>>
    BY <2>1 DEF send
  <2> HIDE DEF q
  <2>4. ReqOK'
    BY <1>0, <2>2, <2>3 DEF ReqOK
  <2> QED BY <1>0, <2>3, <2>4, SessionsUnchanged
<1>2. CASE verify_user(r)
  <2>0. heirs' = heirs /\ jar' = jar
    BY <1>2 DEF verify_user
  <2>1. CASE \E s \in Sessions : create_session(s) /\ Go(r, "answered", s)
    BY <1>0, <2>0, <2>1, GoOK, CreateOK
  <2>2. CASE Go(r, "answered", Null) /\ UNCHANGED <<session, ttl>>
    BY <1>0, <2>0, <2>2, GoOK, SessionsUnchanged
  <2> QED BY <1>2, <2>1, <2>2 DEF verify_user
<1>3. CASE verify_session(r)
  <2>1. PICK c : c = req[r].cookie
    OBVIOUS
  <2>2. \/ Go(r, "verified", Null)
        \/ Live(c) /\ Go(r, "renewing", c)
        \/ Go(r, "verified", c)
    BY <1>3, <2>1 DEF verify_session
  <2>3. Live(c) => c \in Sessions
    BY <1>0, <2>1 DEF Live
  <2>4. ReqOK'
    BY <1>0, <2>1, <2>2, <2>3, GoOK
  <2>5. UNCHANGED <<session, ttl, heirs, jar>>
    BY <1>3 DEF verify_session
  <2> QED BY <1>0, <2>4, <2>5, SessionsUnchanged
<1>4. CASE renew_session(r)
  <2>1. PICK c \in Sessions : c = req[r].cookie
    BY <1>0, <1>4 DEF ReqOK, renew_session
  <2>2. jar' = jar
    BY <1>4 DEF renew_session
  <2>3. CASE \E new \in Sessions : RenewScript(c, new) /\ Go(r, "verified", new)
    BY <1>0, <2>2, <2>3, GoOK, RenewOK
  <2>4. CASE Go(r, "verified", c) /\ UNCHANGED <<session, ttl, heirs>>
    BY <1>0, <2>2, <2>4, GoOK, SessionsUnchanged
  <2> QED BY <1>4, <2>1, <2>3, <2>4 DEF renew_session
<1>5. CASE on_logout(r)
  <2>1. ReqOK' /\ jar' = jar
    BY <1>0, <1>5, GoOK DEF on_logout
  <2>2. /\ heirs' = heirs /\ ttl' = ttl
        /\ session' = [s \in Sessions |-> IF s = req[r].auth /\ Live(s) THEN "deleted" ELSE session[s]]
    BY <1>5 DEF on_logout
  <2>3. SessionOK'
    <3>1. /\ session' \in [Sessions -> {"unused", "current", "renewed", "expired", "deleted"}]
          /\ \A s \in Sessions : session'[s] \in {session[s], "expired", "deleted"}
      BY <1>0, <2>2 DEF SessionOK
    <3>2. ttl' \in [Sessions -> 0 .. Length] /\ \A s \in Sessions : ttl'[s] <= ttl[s]
      BY <1>0, <2>2, SessionAssumption DEF SessionOK
    <3> QED BY <1>0, <2>2, <3>1, <3>2, EndOK
  <2> QED BY <1>0, <2>1, <2>3
<1>6. CASE on_request_body(r)
  <2>1. PICK a \in Sessions \union {Null} : a = req[r].auth
    BY <1>0
  <2>2. Go(r, "answered", a) /\ UNCHANGED <<session, ttl, heirs, jar>>
    BY <1>6, <2>1 DEF on_request_body
  <2> QED BY <1>0, <2>2, GoOK, SessionsUnchanged
<1>7. CASE receive(r)
  <2>1. ReqOK' /\ UNCHANGED <<session, ttl, heirs>>
    BY <1>0, <1>7, IdleOK DEF receive
  <2>2. jar' \in Sessions \union {Null}
    BY <1>0, <1>7 DEF receive
  <2> QED BY <1>0, <2>1, <2>2, SessionsUnchanged
<1>8. CASE lose(r)
  <2>1. ReqOK' /\ jar' = jar
    BY <1>0, <1>8, IdleOK DEF lose
  <2>2. CASE UNCHANGED <<session, ttl, heirs>>
    BY <1>0, <2>1, <2>2, SessionsUnchanged
  <2>3. CASE req[r].pc = "renewing" /\ \E new \in Sessions : RenewScript(req[r].cookie, new)
    <3>1. PICK c \in Sessions : c = req[r].cookie
      BY <1>0, <2>3 DEF ReqOK
    <3>2. \E new \in Sessions : RenewScript(c, new)
      BY <2>3, <3>1
    <3> QED BY <1>0, <2>1, <3>2, RenewOK
  <2>4. CASE (\E s \in Sessions : create_session(s)) /\ heirs' = heirs
    BY <1>0, <2>1, <2>4, CreateOK
  <2> QED BY <1>8, <2>2, <2>3, <2>4 DEF lose
<1>9. CASE lose_logout(r)
  BY <1>0, <1>9, GoOK, SessionsUnchanged DEF lose_logout
<1> QED BY <1>1, <1>2, <1>3, <1>4, <1>5, <1>6, <1>7, <1>8, <1>9 DEF Step

\* So does the passing of time.
LEMMA TickPreserves ==
  ASSUME IInv, Tick
  PROVE  IInv'
<1>0. ReqOK /\ SessionOK /\ jar \in Sessions \union {Null}
  BY DEF IInv
<1>1. ReqOK'
  <2>1. req' = [r \in Requests |-> IF req[r].pc = "idle" THEN req[r] ELSE [req[r] EXCEPT !.age = @ + 1]]
    BY DEF Tick
  <2>2. ASSUME NEW r \in Requests
        PROVE  req'[r] \in Request /\ (req'[r].pc = "renewing" => req'[r].cookie \in Sessions)
    <3>1. req[r] \in Request /\ (req[r].pc = "renewing" => req[r].cookie \in Sessions)
      BY <1>0 DEF ReqOK
    <3>2. CASE req[r].pc = "idle"
      BY <2>1, <3>1, <3>2
    <3>3. CASE req[r].pc # "idle"
      <4>1. req[r].age \in Nat /\ req[r].age < MaxDelay
        BY <3>1, <3>3, SessionAssumption DEF Tick, Request
      <4>2. req'[r] = [req[r] EXCEPT !.age = req[r].age + 1]
        BY <2>1, <3>3
      <4> QED BY <3>1, <4>1, <4>2, SessionAssumption DEF Request
    <3> QED BY <3>2, <3>3
  <2> QED BY <2>1, <2>2 DEF ReqOK
<1>2. /\ session' = [s \in Sessions |-> IF Live(s) /\ ttl[s] = 0 THEN "expired" ELSE session[s]]
      /\ ttl' = [s \in Sessions |-> IF ttl[s] > 0 THEN ttl[s] - 1 ELSE 0]
      /\ heirs' = heirs /\ jar' = jar
  BY DEF Tick
<1>3. /\ session' \in [Sessions -> {"unused", "current", "renewed", "expired", "deleted"}]
      /\ \A s \in Sessions : session'[s] \in {session[s], "expired", "deleted"}
  BY <1>0, <1>2 DEF SessionOK
<1>4. ttl' \in [Sessions -> 0 .. Length] /\ \A s \in Sessions : ttl'[s] <= ttl[s]
  BY <1>0, <1>2, SessionAssumption DEF SessionOK
<1>5. SessionOK'
  BY <1>0, <1>2, <1>3, <1>4, EndOK
<1> QED BY <1>0, <1>1, <1>2, <1>5 DEF IInv

\* The inductive invariant holds in every reachable state.
THEOREM Invariance == Spec => []IInv
<1>1. IInv /\ [Next]_vars => IInv'
  <2> SUFFICES ASSUME IInv, [Next]_vars PROVE IInv'
    OBVIOUS
  <2>1. CASE Next
    BY <2>1, StepPreserves, TickPreserves DEF Next
  <2>2. CASE UNCHANGED vars
    BY <2>2, SessionsUnchanged DEF IInv, vars, ReqOK
  <2> QED BY <2>1, <2>2
<1> QED BY InitEstablishes, <1>1, PTL DEF Spec

\* Type correctness.
THEOREM TypeCorrect == Spec => []TypeOK
<1>1. IInv => TypeOK
  BY DEF IInv, ReqOK, SessionOK, TypeOK
<1> QED BY <1>1, Invariance, PTL

\* Requests that find the same session due for renewal, in any number and in
\* any interleaving, renew it once.
THEOREM RenewedOnce == Spec => []OneHeir
<1>1. IInv => OneHeir
  BY DEF IInv, SessionOK
<1> QED BY <1>1, Invariance, PTL

\* The old session of a renewal outlives it by the grace period at most, and
\* the only session of a login that can be renewed is its last.
THEOREM RenewalEndsSession == Spec => []RenewedSessionsEnd
<1>1. IInv => RenewedSessionsEnd
  BY DEF IInv, SessionOK
<1> QED BY <1>1, Invariance, PTL

\* No request, however late, brings a session back that expired or was logged
\* out.
THEOREM SessionsStayDead == Spec => NoResurrection
<1> DEFINE Gone(s) == session[s] \in {"expired", "deleted"}
           Stays == \A s \in Sessions : Gone(s) => session'[s] = session[s]
<1>1. ASSUME IInv, Next PROVE Stays
  <2> SUFFICES ASSUME NEW s \in Sessions, Gone(s) PROVE session'[s] = session[s]
    OBVIOUS
  <2>0. SessionOK /\ ReqOK /\ ~ Live(s) /\ ~ Fresh(s) /\ ~ MayRenew(s)
    BY <1>1 DEF IInv, Live, Fresh, MayRenew
  <2>1. ASSUME NEW old \in Sessions, NEW new \in Sessions, RenewScript(old, new)
        PROVE  session'[s] = session[s]
    BY <2>0, <2>1 DEF RenewScript, MayRenew, SessionOK
  <2>2. ASSUME NEW new \in Sessions, create_session(new)
        PROVE  session'[s] = session[s]
    BY <2>0, <2>2 DEF create_session, SessionOK
  <2>3. CASE Tick
    BY <2>0, <2>3 DEF Tick
  <2>4. ASSUME NEW r \in Requests, Step(r) PROVE session'[s] = session[s]
    <3>1. CASE \E kind \in {"get", "login", "logout"} : send(r, kind)
      BY <3>1 DEF send
    <3>2. CASE verify_user(r)
      BY <2>2, <3>2 DEF verify_user
    <3>3. CASE verify_session(r) \/ on_request_body(r) \/ receive(r) \/ lose_logout(r)
      BY <3>3 DEF verify_session, on_request_body, receive, lose_logout
    <3>4. CASE renew_session(r)
      BY <2>0, <2>1, <3>4 DEF renew_session, ReqOK
    <3>5. CASE on_logout(r)
      BY <2>0, <3>5 DEF on_logout
    <3>6. CASE lose(r)
      BY <2>0, <2>1, <2>2, <3>6 DEF lose, ReqOK
    <3> QED BY <2>4, <3>1, <3>2, <3>3, <3>4, <3>5, <3>6 DEF Step
  <2> QED BY <1>1, <2>3, <2>4 DEF Next
<1>2. ASSUME UNCHANGED vars PROVE Stays
  BY <1>2 DEF vars
<1> QED BY <1>1, <1>2, Invariance, PTL DEF Spec, NoResurrection

-----------------------------------------------------------------------------
(* Logouts *)

\* A session ID that is in use.
Drawn(s) == s # Null => session[s] # "unused"

\* One that is in use after the step.
DrawnAfter(s) == s # Null => session'[s] # "unused"

\* Every ID that the browser or a request has was drawn, and a request that is
\* not answered under its own cookie has one that cannot be renewed any more.
CookiesOK ==
  /\ Drawn(jar)
  /\ \A r \in Requests :
       /\ Drawn(req[r].cookie) /\ Drawn(req[r].auth)
       /\ req[r].pc = "verified" /\ req[r].cookie # Null /\ req[r].auth # req[r].cookie
            => session[req[r].cookie] # "current"

\* A session only goes on: from unused to current, and from that to renewed and
\* to the end.
Onward == \A s \in Sessions :
  /\ session[s] # "unused" => session'[s] # "unused"
  /\ session[s] \notin {"unused", "current"} => session'[s] # "current"

\* Sessions go on with every step.
LEMMA SessionsGoOnward == IInv /\ Next => Onward
<1> SUFFICES ASSUME IInv, Next, NEW s \in Sessions, session[s] # "unused"
             PROVE  session'[s] # "unused" /\ (session[s] # "current" => session'[s] # "current")
  BY DEF Onward
<1>0. SessionOK /\ ReqOK /\ ~ Fresh(s)
  BY DEF IInv, Fresh
<1>1. ASSUME NEW old \in Sessions, NEW new \in Sessions, RenewScript(old, new)
      PROVE  session'[s] # "unused" /\ (session[s] # "current" => session'[s] # "current")
  BY <1>0, <1>1 DEF RenewScript
<1>2. ASSUME NEW new \in Sessions, create_session(new)
      PROVE  session'[s] # "unused" /\ (session[s] # "current" => session'[s] # "current")
  BY <1>0, <1>2 DEF create_session, SessionOK
<1>3. CASE Tick
  BY <1>3 DEF Tick
<1>4. ASSUME NEW r \in Requests, Step(r)
      PROVE  session'[s] # "unused" /\ (session[s] # "current" => session'[s] # "current")
  <2>1. CASE \E kind \in {"get", "login", "logout"} : send(r, kind)
    BY <2>1 DEF send
  <2>2. CASE verify_user(r)
    BY <1>2, <2>2 DEF verify_user
  <2>3. CASE verify_session(r) \/ on_request_body(r) \/ receive(r) \/ lose_logout(r)
    BY <2>3 DEF verify_session, on_request_body, receive, lose_logout
  <2>4. CASE renew_session(r)
    BY <1>0, <1>1, <2>4 DEF renew_session, ReqOK
  <2>5. CASE on_logout(r)
    BY <2>5 DEF on_logout
  <2>6. CASE lose(r)
    BY <1>0, <1>1, <1>2, <2>6 DEF lose, ReqOK
  <2> QED BY <1>4, <2>1, <2>2, <2>3, <2>4, <2>5, <2>6 DEF Step
<1> QED BY <1>3, <1>4 DEF Next

\* A request that changes to q leaves the cookies in order if q has drawn IDs.
LEMMA OneCookieChanges ==
  ASSUME IInv, CookiesOK, Onward, NEW r \in Requests, NEW q \in Request,
         req' = [req EXCEPT ![r] = q], DrawnAfter(jar'),
         DrawnAfter(q.cookie), DrawnAfter(q.auth),
         q.pc = "verified" /\ q.cookie # Null /\ q.auth # q.cookie => session'[q.cookie] # "current"
  PROVE  CookiesOK'
<1> SUFFICES ASSUME NEW p \in Requests
             PROVE  /\ DrawnAfter(req'[p].cookie) /\ DrawnAfter(req'[p].auth)
                    /\ req'[p].pc = "verified" /\ req'[p].cookie # Null /\ req'[p].auth # req'[p].cookie
                         => session'[req'[p].cookie] # "current"
  BY DEF CookiesOK, Drawn, DrawnAfter
<1>1. req \in [Requests -> Request]
  BY DEF IInv, ReqOK
<1>2. CASE p = r
  <2>1. req'[p] = q
    BY <1>1, <1>2
  <2> QED BY <2>1 DEF Drawn, DrawnAfter
<1>3. CASE p # r
  <2>1. req'[p] = req[p] /\ req[p].cookie \in Sessions \union {Null} /\ req[p].auth \in Sessions \union {Null}
    BY <1>1, <1>3 DEF Request
  <2>2. Drawn(req[p].cookie) /\ Drawn(req[p].auth)
    BY DEF CookiesOK
  <2>3. DrawnAfter(req[p].cookie) /\ DrawnAfter(req[p].auth)
    BY <2>1, <2>2 DEF Onward, Drawn, DrawnAfter
  <2>4. req[p].cookie # Null /\ session[req[p].cookie] # "current" => session'[req[p].cookie] # "current"
    BY <2>1, <2>2 DEF Onward, Drawn, DrawnAfter
  <2> QED BY <2>1, <2>3, <2>4 DEF CookiesOK
<1> QED BY <1>2, <1>3

\* A request of the browser keeps the cookies in order.
LEMMA StepKeepsCookies ==
  ASSUME IInv, CookiesOK, Onward, NEW r \in Requests, Step(r)
  PROVE  CookiesOK'
<1> DEFINE q == req[r]
           Going(pc, auth) == [q EXCEPT !.pc = pc, !.auth = auth]
<1>0. /\ q \in Request /\ q.cookie \in Sessions \union {Null} /\ q.auth \in Sessions \union {Null}
      /\ jar \in Sessions \union {Null} /\ Null \notin Sessions
      /\ session \in [Sessions -> {"unused", "current", "renewed", "expired", "deleted"}]
  BY SessionAssumption DEF IInv, ReqOK, SessionOK, Request
<1>1. Drawn(q.cookie) /\ Drawn(q.auth) /\ Drawn(jar)
  BY DEF CookiesOK
<1>2. DrawnAfter(q.cookie) /\ DrawnAfter(jar)
  BY <1>0, <1>1 DEF Onward, Drawn, DrawnAfter
<1>3. ASSUME NEW pc \in {"renewing", "verified", "answered"}, NEW auth \in Sessions \union {Null},
             Go(r, pc, auth), DrawnAfter(auth), UNCHANGED jar,
             pc = "verified" /\ q.cookie # Null /\ auth # q.cookie => session'[q.cookie] # "current"
      PROVE  CookiesOK'
  <2>1. /\ Going(pc, auth) \in Request
        /\ Going(pc, auth).pc = pc /\ Going(pc, auth).auth = auth /\ Going(pc, auth).cookie = q.cookie
    BY <1>0 DEF Request
  <2>2. req' = [req EXCEPT ![r] = Going(pc, auth)]
    BY <1>3 DEF Go
  <2> HIDE DEF Going
  <2>3. DrawnAfter(Going(pc, auth).cookie) /\ DrawnAfter(Going(pc, auth).auth)
    BY <1>2, <1>3, <2>1, <2>2 DEF Drawn, DrawnAfter
  <2> QED BY <1>2, <1>3, <2>1, <2>2, <2>3, OneCookieChanges
<1>4. DrawnAfter(Null)
  BY DEF Drawn, DrawnAfter
<1>5. ASSUME req' = [req EXCEPT ![r] = Idle], DrawnAfter(jar')
      PROVE  CookiesOK'
  <2>1. Idle \in Request /\ Idle.cookie = Null /\ Idle.auth = Null /\ Idle.pc = "idle"
    BY SessionAssumption DEF Idle, Request
  <2> QED BY <1>4, <1>5, <2>1, OneCookieChanges
<1>6. CASE \E kind \in {"get", "login", "logout"} : send(r, kind)
  <2> PICK kind \in {"get", "login", "logout"} : send(r, kind)
    BY <1>6
  <2> DEFINE p == [pc |-> "sent", kind |-> kind, cookie |-> jar, auth |-> Null, age |-> 0]
  <2>1. p \in Request /\ p.cookie = jar /\ p.auth = Null /\ p.pc = "sent"
    BY <1>0, SessionAssumption DEF Request
  <2>2. req' = [req EXCEPT ![r] = p] /\ UNCHANGED jar
    BY DEF send
  <2> HIDE DEF p
  <2> QED BY <1>2, <1>4, <2>1, <2>2, OneCookieChanges DEF Drawn, DrawnAfter
<1>7. CASE verify_user(r)
  <2>1. ASSUME NEW s \in Sessions, create_session(s), Go(r, "answered", s) PROVE CookiesOK'
    <3>1. DrawnAfter(s)
      BY <1>0, <2>1 DEF create_session, Drawn, DrawnAfter
    <3> QED BY <1>3, <1>7, <2>1, <3>1 DEF verify_user
  <2>2. ASSUME Go(r, "answered", Null) PROVE CookiesOK'
    BY <1>3, <1>4, <1>7, <2>2 DEF verify_user
  <2> QED BY <1>7, <2>1, <2>2 DEF verify_user
<1>8. CASE verify_session(r)
  <2>1. UNCHANGED session /\ UNCHANGED jar
    BY <1>8 DEF verify_session
  <2>2. ASSUME ~ Live(q.cookie), Go(r, "verified", Null) PROVE CookiesOK'
    <3>1. q.cookie # Null => session'[q.cookie] # "current"
      BY <2>1, <2>2 DEF Live
    <3> QED BY <1>3, <1>4, <2>1, <2>2, <3>1
  <2>3. ASSUME NEW pc \in {"renewing", "verified"}, Go(r, pc, q.cookie) PROVE CookiesOK'
    BY <1>0, <1>2, <1>3, <2>1, <2>3 DEF Drawn, DrawnAfter
  <2> QED BY <1>8, <2>2, <2>3 DEF verify_session
<1>9. CASE renew_session(r)
  <2>0. q.cookie \in Sessions /\ UNCHANGED jar
    BY <1>9 DEF renew_session, IInv, ReqOK
  <2>1. ASSUME NEW new \in Sessions, RenewScript(q.cookie, new), Go(r, "verified", new) PROVE CookiesOK'
    <3>1. session'[q.cookie] = "renewed" /\ DrawnAfter(new)
      BY <2>0, <2>1 DEF RenewScript, Drawn, DrawnAfter
    <3> QED BY <1>3, <2>0, <2>1, <3>1
  <2>2. ASSUME Go(r, "verified", q.cookie) PROVE CookiesOK'
    BY <1>2, <1>3, <2>0, <2>2 DEF Drawn, DrawnAfter
  <2> QED BY <1>9, <2>1, <2>2 DEF renew_session
<1>10. CASE on_logout(r) \/ lose_logout(r)
  BY <1>3, <1>4, <1>10 DEF on_logout, lose_logout
<1>11. CASE on_request_body(r)
  <2>1. DrawnAfter(q.auth) /\ Go(r, "answered", q.auth) /\ UNCHANGED jar
    BY <1>1, <1>11 DEF on_request_body, Drawn, DrawnAfter
  <2> QED BY <1>0, <1>3, <2>1
<1>12. CASE receive(r)
  <2>1. req' = [req EXCEPT ![r] = Idle] /\ session' = session /\ jar' \in {jar, q.auth}
    BY <1>12 DEF receive
  <2>2. DrawnAfter(jar')
    BY <1>1, <2>1 DEF Drawn, DrawnAfter
  <2> QED BY <1>5, <2>1, <2>2
<1>13. CASE lose(r)
  BY <1>2, <1>5, <1>13 DEF lose
<1> QED BY <1>6, <1>7, <1>8, <1>9, <1>10, <1>11, <1>12, <1>13 DEF Step

\* So does time.
LEMMA TickKeepsCookies ==
  ASSUME IInv, CookiesOK, Onward, Tick
  PROVE  CookiesOK'
<1>1. ASSUME NEW r \in Requests
      PROVE  /\ req'[r].pc = req[r].pc /\ req'[r].cookie = req[r].cookie /\ req'[r].auth = req[r].auth
             /\ req[r].cookie \in Sessions \union {Null} /\ req[r].auth \in Sessions \union {Null}
  BY DEF IInv, ReqOK, Request, Tick
<1>2. jar' = jar /\ jar \in Sessions \union {Null}
  BY DEF Tick, IInv
<1>3. ASSUME NEW s \in Sessions \union {Null}, Drawn(s)
      PROVE  /\ s # Null => session'[s] # "unused"
             /\ s # Null /\ session[s] # "current" => session'[s] # "current"
  BY <1>3 DEF Onward, Drawn
<1> QED BY <1>1, <1>2, <1>3 DEF CookiesOK, Drawn

\* The cookies are in order in every reachable state.
THEOREM CookiesInOrder == Spec => []CookiesOK
<1>1. Init => CookiesOK
  BY DEF Init, CookiesOK, Drawn, Idle
<1>2. IInv /\ CookiesOK /\ [Next]_vars => CookiesOK'
  <2> SUFFICES ASSUME IInv, CookiesOK, [Next]_vars PROVE CookiesOK'
    OBVIOUS
  <2>1. CASE Next
    BY <2>1, SessionsGoOnward, StepKeepsCookies, TickKeepsCookies DEF Next
  <2>2. CASE UNCHANGED vars
    BY <2>2 DEF vars, CookiesOK, Drawn
  <2> QED BY <2>1, <2>2
<1> QED BY <1>1, <1>2, Invariance, PTL DEF Spec

\* A logout leaves nothing of the session it came with but a grace period.
THEOREM LogoutsEnd == Spec => LogoutEnds
<1> DEFINE Ends(r) == on_logout(r) =>
      \A s \in {req[r].cookie, req[r].auth} \ {Null} :
        session'[s] \in {"current", "renewed"} => session'[s] = "renewed" /\ ttl'[s] <= Grace
<1>1. ASSUME IInv, CookiesOK PROVE \A r \in Requests : Ends(r)
  <2> SUFFICES ASSUME NEW r \in Requests, on_logout(r),
                      NEW s \in {req[r].cookie, req[r].auth} \ {Null},
                      session'[s] \in {"current", "renewed"}
               PROVE  session'[s] = "renewed" /\ ttl'[s] <= Grace
    OBVIOUS
  <2>1. s \in Sessions /\ req[r].pc = "verified" /\ SessionOK
    BY <1>1 DEF IInv, ReqOK, Request, on_logout
  <2>2. session'[s] = (IF s = req[r].auth /\ Live(s) THEN "deleted" ELSE session[s]) /\ ttl' = ttl
    BY <2>1 DEF on_logout
  <2>3. s # req[r].auth /\ s = req[r].cookie /\ session'[s] = session[s]
    BY <2>1, <2>2 DEF Live
  <2>4. session[s] # "current"
    BY <1>1, <2>1, <2>3 DEF CookiesOK
  <2>5. session[s] = "renewed" /\ Live(s)
    BY <2>1, <2>3, <2>4 DEF Live
  <2> QED BY <2>1, <2>2, <2>3, <2>5 DEF SessionOK, RenewedSessionsEnd
<1> QED BY <1>1, Invariance, CookiesInOrder, PTL DEF LogoutEnds
-----------------------------------------------------------------------------
(* Renewals *)

\* A session ID that has reached the browser: it is or was its cookie.
Used(s) ==
  \/ jar = s
  \/ \E r \in Requests : req[r].cookie = s
  \/ heirs[s] # {}

\* Request r has a session for the browser that is not the one it came with.
Brings(r, s) == req[r].auth = s /\ req[r].cookie # s

\* A request as it can be, given the heirs: its identity is that of its cookie or
\* of the heir of that, and a logout is answered with none.
Fits(q, h) ==
  /\ q.kind = "login" => q.cookie = Null
  /\ q.kind = "logout" => q.cookie # Null
  /\ q.pc = "idle" => q.cookie = Null
  /\ q.pc \in {"idle", "sent"} => q.auth = Null
  /\ q.pc = "renewing" => q.auth = q.cookie
  /\ q.pc = "answered" /\ q.kind = "logout" => q.auth = Null
  /\ q.cookie # Null /\ q.auth \notin {Null, q.cookie} => q.auth \in h[q.cookie]

\* A session is brought to the browser once: by one request, before anything is
\* sent with it.
BroughtOnce == \A s \in Sessions, r \in Requests : Brings(r, s) =>
  ~ Used(s) /\ \A p \in Requests : Brings(p, s) => p = r

\* An heir is drawn, has one parent, and has not reached a browser that still has
\* the parent.
HeirsOK == \A s, t \in Sessions : t \in heirs[s] =>
  /\ session[t] # "unused"
  /\ jar = s => ~ Used(t)
  /\ \A u \in Sessions : t \in heirs[u] => u = s

\* What holds of the sessions on their way to the browser.
DeliveryOK == BroughtOnce /\ HeirsOK /\ \A r \in Requests : Fits(req[r], heirs)

\* A request that changes to q, which brings nothing but what it brought before or
\* a session drawn in this step, keeps them in order.
LEMMA QuietDelivery ==
  ASSUME IInv, CookiesOK, DeliveryOK, Onward, NEW r \in Requests, NEW q \in Request,
         req' = [req EXCEPT ![r] = q], heirs' = heirs, jar' = jar, Fits(q, heirs),
         q.cookie \in {req[r].cookie, jar, Null},
         \/ q.auth \in {Null, q.cookie}
         \/ q.auth = req[r].auth /\ q.cookie = req[r].cookie
         \/ session[q.auth] = "unused"
  PROVE  DeliveryOK'
<1>0. /\ req \in [Requests -> Request] /\ Null \notin Sessions
      /\ \A s \in Sessions : session[s] = "unused" => heirs[s] = {}
  BY SessionAssumption DEF IInv, ReqOK, SessionOK, Fresh
<1>1. req'[r] = q /\ \A p \in Requests \ {r} : req'[p] = req[p]
  BY <1>0
<1>2. \A p \in Requests : Fits(req[p], heirs)'
  BY <1>1 DEF DeliveryOK, Fits
<1>3. ASSUME NEW s \in Sessions, Used(s)' PROVE Used(s)
  BY <1>0, <1>1, <1>3 DEF Used
<1>4. HeirsOK'
  BY <1>3 DEF DeliveryOK, HeirsOK, Onward
<1>5. ASSUME NEW s \in Sessions, session[s] = "unused"
      PROVE  ~ Used(s) /\ \A p \in Requests : ~ Brings(p, s)
  BY <1>0, <1>5 DEF CookiesOK, Drawn, Used, Brings
<1>6. ASSUME NEW s \in Sessions, NEW p \in Requests, Brings(p, s)'
      PROVE  Brings(p, s) \/ (p = r /\ session[s] = "unused")
  BY <1>0, <1>1, <1>6 DEF Brings
<1>7. BroughtOnce'
  <2> SUFFICES ASSUME NEW s \in Sessions, NEW p \in Requests, Brings(p, s)'
               PROVE  ~ Used(s)' /\ \A o \in Requests : Brings(o, s)' => o = p
    BY DEF BroughtOnce
  <2> QED BY <1>3, <1>5, <1>6 DEF DeliveryOK, BroughtOnce
<1> QED BY <1>2, <1>4, <1>7 DEF DeliveryOK

\* So does a renewal, whether the request goes on to bring the new session or is
\* lost.
LEMMA RenewDelivery ==
  ASSUME IInv, CookiesOK, DeliveryOK, Onward, NEW r \in Requests, NEW q \in Request,
         NEW c \in Sessions, NEW new \in Sessions, c = req[r].cookie, RenewScript(c, new),
         req' = [req EXCEPT ![r] = q], jar' = jar, Fits(q, heirs'),
         q.cookie \in {c, Null}, q.auth \in {new, Null}
  PROVE  DeliveryOK'
<1>0. /\ req \in [Requests -> Request] /\ Null \notin Sessions /\ heirs \in [Sessions -> SUBSET Sessions]
      /\ \A s \in Sessions : session[s] = "unused" => heirs[s] = {}
  BY SessionAssumption DEF IInv, ReqOK, SessionOK, Fresh
<1>1. req'[r] = q /\ \A p \in Requests \ {r} : req'[p] = req[p]
  BY <1>0
<1>2. /\ session[new] = "unused" /\ session'[new] # "unused" /\ c # new
      /\ heirs'[c] = heirs[c] \union {new}
      /\ \A s \in Sessions \ {c} : heirs'[s] = heirs[s]
  BY <1>0 DEF RenewScript, MayRenew, Fresh
<1>3. \A p \in Requests : Fits(req[p], heirs)'
  <2>1. ASSUME NEW p \in Requests \ {r} PROVE Fits(req[p], heirs')
    <3>1. req[p].cookie \in Sessions \union {Null} /\ Fits(req[p], heirs)
      BY <1>0 DEF Request, DeliveryOK
    <3>2. req[p].cookie # Null => heirs[req[p].cookie] \subseteq heirs'[req[p].cookie]
      BY <1>2, <3>1
    <3> QED BY <3>1, <3>2 DEF Fits
  <2> QED BY <1>1, <2>1
<1>4. Used(c)
  BY DEF Used
<1>5. ASSUME NEW s \in Sessions, Used(s)' PROVE Used(s)
  BY <1>0, <1>1, <1>2, <1>4, <1>5 DEF Used
<1>6. ~ Used(new) /\ \A p \in Requests : ~ Brings(p, new)
  BY <1>0, <1>2 DEF CookiesOK, Drawn, Used, Brings
<1>7. HeirsOK'
  <2> SUFFICES ASSUME NEW s \in Sessions, NEW t \in Sessions, t \in heirs'[s]
               PROVE  /\ session'[t] # "unused"
                      /\ jar = s => ~ Used(t)'
                      /\ \A u \in Sessions : t \in heirs'[u] => u = s
    BY DEF HeirsOK
  <2>1. CASE t = new
    <3>1. \A u \in Sessions : new \notin heirs[u]
      BY <1>2 DEF DeliveryOK, HeirsOK
    <3> QED BY <1>2, <1>5, <1>6, <2>1, <3>1
  <2>2. CASE t # new
    <3>1. \A u \in Sessions : t \in heirs'[u] => t \in heirs[u]
      BY <1>2, <2>2
    <3> QED BY <1>5, <3>1 DEF DeliveryOK, HeirsOK, Onward
  <2> QED BY <2>1, <2>2
<1>8. ASSUME NEW s \in Sessions, NEW p \in Requests, Brings(p, s)'
      PROVE  IF p = r THEN s = new ELSE Brings(p, s)
  BY <1>0, <1>1, <1>8, SMTT(30) DEF Brings
<1>9. BroughtOnce'
  <2> SUFFICES ASSUME NEW s \in Sessions, NEW p \in Requests, Brings(p, s)'
               PROVE  ~ Used(s)' /\ \A o \in Requests : Brings(o, s)' => o = p
    BY DEF BroughtOnce
  <2> QED BY <1>5, <1>6, <1>8 DEF DeliveryOK, BroughtOnce
<1> QED BY <1>3, <1>7, <1>9 DEF DeliveryOK
\* So does a response: what it brings was brought by nobody else, and has no heirs.
LEMMA ReceiveDelivery ==
  ASSUME IInv, CookiesOK, DeliveryOK, NEW r \in Requests, receive(r)
  PROVE  DeliveryOK'
<1>0. /\ req \in [Requests -> Request] /\ Null \notin Sessions
      /\ req[r].auth \in Sessions \union {Null} /\ req[r].cookie \in Sessions \union {Null}
  BY SessionAssumption DEF IInv, ReqOK, Request
<1>1. /\ req'[r] = Idle /\ \A p \in Requests \ {r} : req'[p] = req[p]
      /\ UNCHANGED <<session, heirs>>
  BY <1>0 DEF receive
<1>2. \A p \in Requests : Fits(req[p], heirs)'
  BY <1>1 DEF DeliveryOK, Fits, Idle
<1>3. \/ jar' = jar \/ jar' = Null
      \/ jar' \in Sessions /\ Brings(r, jar')
  BY <1>0 DEF receive, renewed_auth, Brings
<1>4. ASSUME NEW s \in Sessions, Used(s)' PROVE Used(s) \/ (jar' = s /\ Brings(r, s))
  BY <1>0, <1>1, <1>3, <1>4, SMTT(30) DEF Used, Idle
<1>5. ASSUME NEW s \in Sessions, NEW p \in Requests, Brings(p, s)' PROVE Brings(p, s) /\ p # r
  BY <1>0, <1>1, <1>5 DEF Brings, Idle
<1>6. BroughtOnce'
  <2> SUFFICES ASSUME NEW s \in Sessions, NEW p \in Requests, Brings(p, s)'
               PROVE  ~ Used(s)' /\ \A o \in Requests : Brings(o, s)' => o = p
    BY DEF BroughtOnce
  <2> QED BY <1>4, <1>5 DEF DeliveryOK, BroughtOnce
<1>7. HeirsOK'
  <2> SUFFICES ASSUME NEW s \in Sessions, NEW t \in Sessions, t \in heirs[s], jar' = s
               PROVE  ~ Used(t)'
    BY <1>1 DEF HeirsOK, DeliveryOK
  <2>1. ~ Brings(r, s)
    BY DEF DeliveryOK, BroughtOnce, Used
  <2>2. jar' = jar
    BY <1>0, <1>3, <2>1
  <2>3. ~ Used(t)
    BY <2>2 DEF DeliveryOK, HeirsOK
  <2> QED BY <1>4, <2>2, <2>3 DEF Used
<1> QED BY <1>2, <1>6, <1>7 DEF DeliveryOK

\* Every step of a request keeps the sessions on their way in order.
LEMMA StepDelivery ==
  ASSUME IInv, CookiesOK, DeliveryOK, Onward, NEW r \in Requests, Step(r)
  PROVE  DeliveryOK'
<1> DEFINE q == req[r]
           Going(pc, auth) == [q EXCEPT !.pc = pc, !.auth = auth]
<1>0. /\ q \in Request /\ q.cookie \in Sessions \union {Null} /\ q.auth \in Sessions \union {Null}
      /\ jar \in Sessions \union {Null} /\ Null \notin Sessions
      /\ Fits(q, heirs)
  BY SessionAssumption DEF IInv, ReqOK, Request, DeliveryOK
<1>1. ASSUME NEW pc \in {"renewing", "verified", "answered"}, NEW auth \in Sessions \union {Null},
             Go(r, pc, auth)
      PROVE  /\ Going(pc, auth) \in Request /\ req' = [req EXCEPT ![r] = Going(pc, auth)]
             /\ Going(pc, auth).pc = pc /\ Going(pc, auth).auth = auth
             /\ Going(pc, auth).cookie = q.cookie /\ Going(pc, auth).kind = q.kind
  BY <1>0, <1>1 DEF Request, Go
<1> HIDE DEF Going
<1>2. ASSUME NEW pc \in {"renewing", "verified", "answered"}, NEW auth \in Sessions \union {Null},
             Go(r, pc, auth), heirs' = heirs, jar' = jar, q.pc # "idle",
             pc = "renewing" => auth = q.cookie,
             pc = "answered" /\ q.kind = "logout" => auth = Null,
             \/ auth \in {Null, q.cookie, q.auth}
             \/ q.cookie = Null /\ session[auth] = "unused"
      PROVE  DeliveryOK'
  <2>1. Fits(Going(pc, auth), heirs)
    BY <1>0, <1>1, <1>2 DEF Fits
  <2>2. \/ auth \in {Null, q.cookie} \/ auth = q.auth \/ session[auth] = "unused"
    BY <1>2, SMTT(30)
  <2> QED BY <1>1, <1>2, <2>1, <2>2, QuietDelivery
<1>3. Idle \in Request /\ Idle.cookie = Null /\ Idle.auth = Null /\ Fits(Idle, heirs) /\ Fits(Idle, heirs')
  BY SessionAssumption, SMTT(30) DEF Idle, Request, Fits
<1>4. CASE \E kind \in {"get", "login", "logout"} : send(r, kind)
  <2> PICK kind \in {"get", "login", "logout"} : send(r, kind)
    BY <1>4
  <2> DEFINE p == [pc |-> "sent", kind |-> kind, cookie |-> jar, auth |-> Null, age |-> 0]
  <2>0. jar \in Sessions \union {Null} /\ 0 \in 0 .. MaxDelay
    BY SessionAssumption DEF IInv
  <2>1. p \in Request /\ p.cookie = jar /\ p.auth = Null /\ p.pc = "sent" /\ p.kind = kind
    BY <2>0 DEF Request
  <2>2. req' = [req EXCEPT ![r] = p] /\ heirs' = heirs /\ jar' = jar
    BY DEF send
  <2>3. (kind = "login" => jar = Null) /\ (kind = "logout" => jar # Null)
    BY DEF send
  <2> HIDE DEF p
  <2>4. Fits(p, heirs)
    BY <2>1, <2>3 DEF Fits
  <2> QED BY <2>1, <2>2, <2>4, QuietDelivery
<1>5. CASE verify_user(r)
  <2>1. q.kind = "login" /\ q.cookie = Null /\ q.pc = "sent" /\ heirs' = heirs /\ jar' = jar
    BY <1>0, <1>5 DEF verify_user, Fits
  <2>2. \E auth \in Sessions \union {Null} : Go(r, "answered", auth) /\ (auth = Null \/ session[auth] = "unused")
    BY <1>5 DEF verify_user, create_session, Fresh
  <2> QED BY <1>2, <2>1, <2>2
<1>6. CASE verify_session(r)
  <2>1. q.pc = "sent" /\ heirs' = heirs /\ jar' = jar
    BY <1>6 DEF verify_session
  <2>2. \/ Go(r, "verified", Null)
        \/ Go(r, "renewing", q.cookie)
        \/ Go(r, "verified", q.cookie)
    BY <1>6 DEF verify_session
  <2> QED BY <1>0, <1>2, <2>1, <2>2, SMTT(30)
<1>7. CASE renew_session(r)
  <2>1. q.cookie \in Sessions /\ q.pc = "renewing" /\ q.kind # "login" /\ jar' = jar
    BY <1>0, <1>7, SMTT(30) DEF renew_session, IInv, ReqOK, Fits
  <2>2. ASSUME NEW new \in Sessions, RenewScript(q.cookie, new), Go(r, "verified", new) PROVE DeliveryOK'
    <3>1. new \in heirs'[q.cookie]
      BY <2>1, <2>2, SMTT(30) DEF RenewScript, IInv, SessionOK
    <3>2. Fits(Going("verified", new), heirs')
      BY <1>0, <1>1, <2>1, <2>2, <3>1, SMTT(30) DEF Fits
    <3> QED BY <1>1, <2>1, <2>2, <3>2, RenewDelivery, SMTT(30)
  <2>3. ASSUME Go(r, "verified", q.cookie), heirs' = heirs PROVE DeliveryOK'
    BY <1>2, <2>1, <2>3
  <2> QED BY <1>7, <2>2, <2>3, SMTT(30) DEF renew_session
<1>8. CASE on_logout(r) \/ lose_logout(r)
  BY <1>2, <1>8 DEF on_logout, lose_logout
<1>9. CASE on_request_body(r)
  BY <1>0, <1>2, <1>9 DEF on_request_body
<1>10. CASE receive(r)
  BY <1>10, ReceiveDelivery
<1>11. CASE lose(r)
  <2>1. req' = [req EXCEPT ![r] = Idle] /\ jar' = jar
    BY <1>11 DEF lose
  <2>2. CASE heirs' = heirs
    BY <1>3, <2>1, <2>2, QuietDelivery
  <2>3. CASE q.pc = "renewing" /\ \E new \in Sessions : RenewScript(q.cookie, new)
    <3>1. q.cookie \in Sessions
      BY <2>3 DEF IInv, ReqOK
    <3> QED BY <1>3, <2>1, <2>3, <3>1, RenewDelivery
  <2> QED BY <1>11, <2>2, <2>3 DEF lose
<1> QED BY <1>4, <1>5, <1>6, <1>7, <1>8, <1>9, <1>10, <1>11 DEF Step
\* So does time.
LEMMA TickDelivery ==
  ASSUME IInv, DeliveryOK, Onward, Tick
  PROVE  DeliveryOK'
<1>1. ASSUME NEW r \in Requests
      PROVE  /\ req'[r].pc = req[r].pc /\ req'[r].kind = req[r].kind
             /\ req'[r].cookie = req[r].cookie /\ req'[r].auth = req[r].auth
  BY DEF IInv, ReqOK, Request, Tick
<1>2. heirs' = heirs /\ jar' = jar
  BY DEF Tick
<1>3. \A s \in Sessions : Used(s)' <=> Used(s)
  BY <1>1, <1>2 DEF Used
<1>4. \A s \in Sessions, r \in Requests : Brings(r, s)' <=> Brings(r, s)
  BY <1>1 DEF Brings
<1>5. BroughtOnce'
  BY <1>3, <1>4 DEF DeliveryOK, BroughtOnce
<1>6. HeirsOK'
  BY <1>2, <1>3 DEF DeliveryOK, HeirsOK, Onward
<1>7. \A r \in Requests : Fits(req[r], heirs)'
  BY <1>1, <1>2 DEF DeliveryOK, Fits
<1> QED BY <1>5, <1>6, <1>7 DEF DeliveryOK

\* The sessions on their way to the browser are in order in every reachable state.
THEOREM DeliveryInOrder == Spec => []DeliveryOK
<1>1. Init => DeliveryOK
  BY SessionAssumption DEF Init, DeliveryOK, BroughtOnce, HeirsOK, Brings, Used, Fits, Idle
<1>2. IInv /\ CookiesOK /\ DeliveryOK /\ [Next]_vars => DeliveryOK'
  <2> SUFFICES ASSUME IInv, CookiesOK, DeliveryOK, [Next]_vars PROVE DeliveryOK'
    OBVIOUS
  <2>1. CASE Next
    BY <2>1, SessionsGoOnward, StepDelivery, TickDelivery DEF Next
  <2>2. CASE UNCHANGED vars
    BY <2>2 DEF vars, DeliveryOK, BroughtOnce, HeirsOK, Brings, Used
  <2> QED BY <2>1, <2>2
<1> QED BY <1>1, <1>2, Invariance, CookiesInOrder, PTL DEF Spec

\* Request r has the renewed session of the browser, or the end of its login.
HasRenewal(r) ==
  \/ req[r].auth \in heirs[jar]
  \/ req[r].cookie = jar /\ req[r].kind = "logout"

\* A response that has the renewal of the browser's session carries a Set-Cookie.
LEMMA RenewalReceived ==
  ASSUME IInv, DeliveryOK, NEW r \in Requests, receive(r), jar \in Sessions, HasRenewal(r)
  PROVE  jar' = Null \/ (jar' \in Sessions /\ Brings(r, jar'))
<1>0. /\ req[r].auth \in Sessions \union {Null} /\ req[r].cookie \in Sessions \union {Null}
      /\ heirs[jar] \subseteq Sessions /\ Null \notin Sessions /\ Fits(req[r], heirs)
      /\ req[r].pc = "answered"
  BY SessionAssumption DEF IInv, ReqOK, SessionOK, Request, DeliveryOK, receive
<1>1. req[r].auth # req[r].cookie
  <2>1. CASE req[r].auth \in heirs[jar]
    <3>1. ~ Used(req[r].auth)
      BY <1>0, <2>1 DEF DeliveryOK, HeirsOK
    <3> QED BY <3>1 DEF Used
  <2>2. CASE req[r].cookie = jar /\ req[r].kind = "logout"
    BY <1>0, <2>2 DEF Fits
  <2> QED BY <2>1, <2>2 DEF HasRenewal
<1>2. jar' = req[r].auth
  BY <1>1 DEF receive, renewed_auth
<1> QED BY <1>0, <1>1, <1>2 DEF Brings

\* A step of a request that is not lost keeps the renewal of the browser's session
\* on its way.
LEMMA StepKeepsRenewal ==
  ASSUME IInv, CookiesOK, DeliveryOK, RenewalComing, NEW r \in Requests, Step(r),
         lose(r) => receive(r)
  PROVE  RenewalComing'
<1> SUFFICES ASSUME jar' # Null, session'[jar'] = "renewed"
             PROVE  \E p \in Requests : HasRenewal(p)'
  BY DEF RenewalComing, HasRenewal
<1>0. /\ req \in [Requests -> Request] /\ SessionOK /\ Null \notin Sessions
      /\ req[r].cookie \in Sessions \union {Null} /\ req[r].auth \in Sessions \union {Null}
      /\ jar \in Sessions \union {Null} /\ Fits(req[r], heirs)
  BY SessionAssumption, SMTT(30) DEF IInv, ReqOK, Request, DeliveryOK
<1>1. \A p \in Requests \ {r} : req'[p] = req[p]
  BY <1>0 DEF Step, send, verify_user, verify_session, renew_session, on_logout, on_request_body, receive, lose, lose_logout, Go
<1>2. CASE receive(r)
  <2>1. session' = session /\ heirs' = heirs
    BY <1>2, SMTT(30) DEF receive
  <2>2. CASE jar' \in Sessions /\ Brings(r, jar')
    <3>1. heirs[jar'] = {}
      BY <2>2 DEF DeliveryOK, BroughtOnce, Used
    <3> QED BY <1>0, <2>1, <2>2, <3>1 DEF SessionOK, RenewedSessionsEnd, Live
  <2>3. CASE jar' = jar
    <3>1. PICK p \in Requests : HasRenewal(p)
      BY <2>1, <2>3, SMTT(30) DEF RenewalComing, HasRenewal
    <3>2. CASE p = r
      BY <1>0, <1>2, <2>2, <2>3, <3>1, <3>2, RenewalReceived
    <3>3. CASE p # r
      BY <1>1, <2>1, <2>3, <3>1, <3>3 DEF HasRenewal
    <3> QED BY <3>2, <3>3
  <2> QED BY <1>0, <1>2, <2>2, <2>3 DEF receive, renewed_auth, Brings
<1>3. ASSUME jar' = jar, session[jar] = "renewed", heirs'[jar] = heirs[jar],
             HasRenewal(r) => HasRenewal(r)'
      PROVE  \E p \in Requests : HasRenewal(p)'
  <2>1. PICK p \in Requests : HasRenewal(p)
    BY <1>3 DEF RenewalComing, HasRenewal
  <2>2. CASE p = r
    BY <1>3, <2>1, <2>2
  <2>3. CASE p # r
    BY <1>1, <1>3, <2>1, <2>3 DEF HasRenewal
  <2> QED BY <2>2, <2>3
<1>4. CASE \E kind \in {"get", "login", "logout"} : send(r, kind)
  <2>1. UNCHANGED <<session, heirs, jar>> /\ jar \in Sessions /\ heirs[jar] \subseteq Sessions
    BY <1>0, <1>4, SMTT(30) DEF send, SessionOK
  <2>2. req[r].auth = Null /\ req[r].cookie = Null
    BY <1>0, <1>4, SMTT(30) DEF send, Fits
  <2>3. ~ HasRenewal(r)
    BY <1>0, <2>1, <2>2 DEF HasRenewal
  <2> QED BY <1>3, <2>1, <2>3
<1>5. CASE verify_user(r)
  <2>1. heirs' = heirs /\ jar' = jar /\ jar \in Sessions /\ heirs[jar] \subseteq Sessions
    BY <1>0, <1>5, SMTT(30) DEF verify_user, SessionOK
  <2>2. req[r].auth = Null /\ req[r].cookie = Null
    BY <1>0, <1>5, SMTT(30) DEF verify_user, Fits
  <2>3. ~ HasRenewal(r)
    BY <1>0, <2>1, <2>2, SMTT(30) DEF HasRenewal
  <2>4. session[jar] = "renewed"
    BY <1>0, <1>5, <2>1 DEF verify_user, create_session, SessionOK
  <2> QED BY <1>3, <2>1, <2>3, <2>4, SMTT(30)
<1>6. ASSUME NEW pc \in {"renewing", "verified", "answered"}, NEW auth, Go(r, pc, auth)
      PROVE  req'[r].cookie = req[r].cookie /\ req'[r].kind = req[r].kind /\ req'[r].auth = auth
  BY <1>0, <1>6 DEF Go, Request
<1>7. CASE verify_session(r)
  <2>1. UNCHANGED <<session, heirs, jar>> /\ jar \in Sessions /\ heirs[jar] \subseteq Sessions
    BY <1>0, <1>7, SMTT(30) DEF verify_session, SessionOK
  <2>2. req'[r].cookie = req[r].cookie /\ req'[r].kind = req[r].kind
    BY <1>6, <1>7, SMTT(30) DEF verify_session
  <2>3. req[r].auth = Null
    BY <1>0, <1>7, SMTT(30) DEF verify_session, Fits
  <2>4. HasRenewal(r) => HasRenewal(r)'
    BY <1>0, <2>1, <2>2, <2>3, SMTT(30) DEF HasRenewal
  <2> QED BY <1>3, <2>1, <2>4, SMTT(30)
<1>8. CASE renew_session(r)
  <2>0. /\ jar' = jar /\ jar \in Sessions /\ heirs[jar] \subseteq Sessions
        /\ req[r].auth = req[r].cookie /\ req[r].cookie \in Sessions
    BY <1>0, <1>8 DEF renew_session, SessionOK, Fits, IInv, ReqOK
  <2>1. req'[r].cookie = req[r].cookie /\ req'[r].kind = req[r].kind
    BY <1>6, <1>8, SMTT(30) DEF renew_session
  <2>2. req[r].auth \notin heirs[jar]
    BY <2>0 DEF DeliveryOK, HeirsOK, Used
  <2>3. HasRenewal(r) => HasRenewal(r)'
    BY <2>0, <2>1, <2>2 DEF HasRenewal
  <2>4. ASSUME NEW new \in Sessions, RenewScript(req[r].cookie, new), Go(r, "verified", new)
        PROVE  \E p \in Requests : HasRenewal(p)'
    <3>1. CASE req[r].cookie = jar
      <4>1. new \in heirs'[jar]
        BY <1>0, <2>0, <2>4, <3>1, SMTT(30) DEF RenewScript, SessionOK
      <4>2. req'[r].auth = new
        BY <1>6, <2>4, SMTT(30)
      <4> QED BY <2>0, <4>1, <4>2, SMTT(30) DEF HasRenewal
    <3>2. CASE req[r].cookie # jar
      <4>1. heirs'[jar] = heirs[jar] /\ session[jar] = "renewed"
        BY <1>0, <2>0, <2>4, <3>2, SMTT(30) DEF RenewScript, SessionOK
      <4> QED BY <1>3, <2>0, <2>3, <4>1, SMTT(30)
    <3> QED BY <3>1, <3>2
  <2>5. ASSUME UNCHANGED <<session, ttl, heirs>>
        PROVE  \E p \in Requests : HasRenewal(p)'
    BY <1>3, <2>0, <2>3, <2>5
  <2> QED BY <1>8, <2>4, <2>5, SMTT(30) DEF renew_session
<1>9. CASE on_logout(r) \/ lose_logout(r)
  <2>1. /\ heirs' = heirs /\ jar' = jar /\ jar \in Sessions /\ heirs[jar] \subseteq Sessions
        /\ session[jar] = "renewed" /\ req[r].kind = "logout" /\ req[r].pc = "verified"
    BY <1>0, <1>9, SMTT(30) DEF on_logout, lose_logout, SessionOK
  <2>2. req'[r].cookie = req[r].cookie /\ req'[r].kind = req[r].kind
    BY <1>6, <1>9 DEF on_logout, lose_logout
  <2>3. HasRenewal(r) => req[r].cookie = jar
    <3> SUFFICES ASSUME req[r].auth \in heirs[jar] PROVE req[r].cookie = jar
      BY SMTT(30) DEF HasRenewal
    <3>1. req[r].auth \in Sessions /\ ~ Used(req[r].auth)
      BY <2>1 DEF DeliveryOK, HeirsOK
    <3>2. req[r].auth # req[r].cookie
      BY <3>1, SMTT(30) DEF Used
    <3>3. req[r].cookie # Null
      BY <2>1, <3>1, <1>0, SMTT(30) DEF Fits
    <3>4. req[r].auth \in heirs[req[r].cookie]
      BY <1>0, <3>1, <3>2, <3>3, SMTT(30) DEF Fits
    <3> QED BY <1>0, <2>1, <3>1, <3>3, <3>4 DEF DeliveryOK, HeirsOK
  <2>4. HasRenewal(r) => HasRenewal(r)'
    BY <2>1, <2>2, <2>3 DEF HasRenewal
  <2> QED BY <1>3, <2>1, <2>4, SMTT(30)
<1>10. CASE on_request_body(r)
  <2>1. UNCHANGED <<session, heirs, jar>>
    BY <1>10, SMTT(30) DEF on_request_body
  <2>2. req'[r].cookie = req[r].cookie /\ req'[r].kind = req[r].kind /\ req'[r].auth = req[r].auth
    BY <1>6, <1>10 DEF on_request_body
  <2> QED BY <1>3, <2>1, <2>2 DEF HasRenewal
<1> QED BY <1>2, <1>4, <1>5, <1>7, <1>8, <1>9, <1>10 DEF Step

\* Only a lost response costs a browser its renewed session, for any number of
\* requests and whatever order they are verified, renewed and answered in.
THEOREM RenewalsDelivered == Spec => RenewalDelivered
<1> DEFINE Delivered == RenewalComing /\ ~RenewalComing' => \E r \in Requests : lose(r) /\ ~receive(r)
<1>1. ASSUME IInv, CookiesOK, DeliveryOK, Next PROVE Delivered
  <2> SUFFICES ASSUME RenewalComing, \A r \in Requests : lose(r) => receive(r)
               PROVE  RenewalComing'
    OBVIOUS
  <2>1. CASE Tick
    <3>1. ASSUME NEW r \in Requests
          PROVE  /\ req'[r].kind = req[r].kind
                 /\ req'[r].cookie = req[r].cookie /\ req'[r].auth = req[r].auth
      BY <1>1, <2>1 DEF IInv, ReqOK, Request, Tick
    <3>2. heirs' = heirs /\ jar' = jar /\ (jar # Null /\ session'[jar] = "renewed" => session[jar] = "renewed")
      BY <1>1, <2>1 DEF Tick, IInv, SessionOK
    <3> QED BY <3>1, <3>2 DEF RenewalComing
  <2>2. ASSUME NEW r \in Requests, Step(r) PROVE RenewalComing'
    BY <1>1, <2>2, StepKeepsRenewal
  <2> QED BY <1>1, <2>1, <2>2 DEF Next
<1>2. ASSUME UNCHANGED vars PROVE Delivered
  BY <1>2, SMTT(30) DEF vars, RenewalComing
<1> QED BY <1>1, <1>2, Invariance, CookiesInOrder, DeliveryInOrder, PTL DEF Spec, RenewalDelivered
-----------------------------------------------------------------------------
(* Grace periods *)

\* Session s has not expired, and if it was renewed it has t ticks left or more.
InGrace(s, t) == session[s] # "expired" /\ (session[s] = "renewed" => ttl[s] >= t)

\* What a request with the cookie of a renewed session may rely on.  The grace
\* period began after the request that brings the heir was sent; one that finds
\* the heir in the browser was sent before that arrived.  The browser has got no
\* heir from a login, and no session is its own heir.
GraceOf(r, s) ==
  /\ req[r].auth \in heirs[s] => InGrace(s, Grace - req[r].age)
  /\ jar \in heirs[s] => InGrace(s, MaxDelay - req[r].age)

GraceOK ==
  /\ \A s \in Sessions : s \notin heirs[s]
  /\ \A r \in Requests, s \in Sessions :
       /\ req[r].cookie = Null => req[r].auth \notin heirs[s]
       /\ req[r].cookie = s => GraceOf(r, s)

\* A step of a request that renews nothing keeps the grace periods.
LEMMA QuietGrace ==
  ASSUME IInv, DeliveryOK, GraceOK, NEW r \in Requests, NEW q \in Request,
         req' = [req EXCEPT ![r] = q], heirs' = heirs, jar' = jar,
         \A s \in Sessions : heirs[s] # {} => session'[s] \in {session[s], "deleted"} /\ ttl'[s] = ttl[s],
         q.cookie = Null =>
           q.auth = Null \/ session[q.auth] = "unused" \/ (q.auth = req[r].auth /\ req[r].cookie = Null),
         q.cookie # Null =>
           \/ q.cookie = jar /\ q.auth = Null
           \/ q.cookie = req[r].cookie /\ q.age = req[r].age /\ q.auth \in {Null, q.cookie, req[r].auth}
  PROVE  GraceOK'
<1>0. /\ req \in [Requests -> Request] /\ Null \notin Sessions /\ heirs \in [Sessions -> SUBSET Sessions]
      /\ q.cookie \in Sessions \union {Null} /\ q.auth \in Sessions \union {Null}
  BY SessionAssumption DEF IInv, ReqOK, SessionOK, Request
<1>1. req'[r] = q /\ \A p \in Requests \ {r} : req'[p] = req[p]
  BY <1>0
<1>2. ASSUME NEW s \in Sessions, heirs[s] # {}, NEW t, InGrace(s, t)
      PROVE  InGrace(s, t)'
  BY <1>2 DEF InGrace
<1>3. ASSUME NEW p \in Requests, NEW s \in Sessions, req'[p] = req[p], req[p].cookie = s
      PROVE  GraceOf(p, s)'
  <2>1. GraceOf(p, s)
    BY <1>3, SMTT(30) DEF GraceOK
  <2> QED BY <1>2, <1>3, <2>1 DEF GraceOf
<1>4. ASSUME NEW s \in Sessions, q.cookie = s PROVE GraceOf(r, s)'
  <2>1. s \notin heirs[s] /\ Null \notin heirs[s]
    BY <1>0 DEF GraceOK
  <2>2. CASE q.cookie = jar /\ q.auth = Null
    BY <1>0, <1>1, <1>4, <2>1, <2>2, SMTT(30) DEF GraceOf
  <2>3. CASE q.cookie = req[r].cookie /\ q.age = req[r].age /\ q.auth \in {Null, q.cookie, req[r].auth}
    <3>1. GraceOf(r, s)
      BY <1>4, <2>3, SMTT(30) DEF GraceOK
    <3> QED BY <1>1, <1>2, <1>4, <2>1, <2>3, <3>1, SMTT(30) DEF GraceOf
  <2> QED BY <1>0, <1>4, <2>2, <2>3, SMTT(30)
<1>5. ASSUME NEW s \in Sessions, q.cookie = Null PROVE q.auth \notin heirs[s]
  BY <1>0, <1>5, SMTT(30) DEF DeliveryOK, HeirsOK, GraceOK
<1>6. ASSUME NEW p \in Requests, NEW s \in Sessions
      PROVE  /\ req'[p].cookie = Null => req'[p].auth \notin heirs[s]
             /\ req'[p].cookie = s => GraceOf(p, s)'
  <2>1. CASE p = r
    BY <1>1, <1>4, <1>5, <2>1, SMTT(30)
  <2>2. CASE p # r
    BY <1>1, <1>3, <2>2 DEF GraceOK
  <2> QED BY <2>1, <2>2
<1> QED BY <1>6, SMTT(30) DEF GraceOK

\* A renewal begins one: nothing has got the new session before.
LEMMA RenewGrace ==
  ASSUME IInv, CookiesOK, GraceOK, NEW r \in Requests, NEW q \in Request,
         NEW c \in Sessions, NEW new \in Sessions, RenewScript(c, new),
         req' = [req EXCEPT ![r] = q], jar' = jar,
         q.cookie \in {c, Null}, q.cookie = Null => q.auth = Null
  PROVE  GraceOK'
<1>0. /\ req \in [Requests -> Request] /\ Null \notin Sessions /\ heirs \in [Sessions -> SUBSET Sessions]
      /\ \A s \in Sessions : session[s] = "unused" => heirs[s] = {}
      /\ \A p \in Requests : req[p].age \in 0 .. MaxDelay
      /\ q.age \in 0 .. MaxDelay /\ MaxDelay \in Nat /\ Grace \in Nat
  BY SessionAssumption DEF IInv, ReqOK, SessionOK, Fresh, Request
<1>1. req'[r] = q /\ \A p \in Requests \ {r} : req'[p] = req[p]
  BY <1>0
<1>2. /\ session[new] = "unused" /\ session[c] = "current" /\ c # new
      /\ session'[c] = "renewed" /\ ttl'[c] = Grace
      /\ heirs'[c] = heirs[c] \union {new}
      /\ \A s \in Sessions \ {c} : heirs'[s] = heirs[s]
      /\ \A s \in Sessions \ {c, new} : session'[s] = session[s] /\ ttl'[s] = ttl[s]
  BY <1>0, SMTT(30) DEF RenewScript, MayRenew, Fresh, OldSession
<1>3. heirs[c] = {} /\ heirs[new] = {}
  BY <1>0, <1>2, SMTT(30) DEF IInv, SessionOK, RenewedSessionsEnd, Live
<1>4. jar # new /\ \A p \in Requests : req[p].auth # new
  BY <1>0, <1>2 DEF CookiesOK, Drawn
<1>5. ASSUME NEW p \in Requests PROVE GraceOf(p, c)'
  <2>1. jar' \notin heirs'[c]
    BY <1>2, <1>3, <1>4
  <2>2. req'[p].age \in 0 .. MaxDelay
    BY <1>0, <1>1, SMTT(30)
  <2>3. InGrace(c, Grace - req[p].age)'
    BY <1>0, <1>2, <2>2 DEF InGrace
  <2> QED BY <2>1, <2>3 DEF GraceOf
<1>6. ASSUME NEW p \in Requests \ {r}, NEW s \in Sessions \ {c}, req[p].cookie = s
      PROVE  GraceOf(p, s)'
  <2>1. CASE s = new
    BY <1>2, <1>3, <2>1 DEF GraceOf
  <2>2. CASE s # new
    <3>1. GraceOf(p, s)
      BY <1>6 DEF GraceOK
    <3> QED BY <1>1, <1>2, <2>2, <3>1 DEF GraceOf, InGrace
  <2> QED BY <2>1, <2>2
<1>7. ASSUME NEW p \in Requests, NEW s \in Sessions, req'[p].cookie = s
      PROVE  GraceOf(p, s)'
  BY <1>0, <1>1, <1>5, <1>6, <1>7
<1>8. ASSUME NEW p \in Requests, NEW s \in Sessions, req'[p].cookie = Null
      PROVE  req'[p].auth \notin heirs'[s]
  <2>1. CASE p = r
    BY <1>0, <1>1, <1>2, <1>8, <2>1
  <2>2. CASE p # r
    BY <1>1, <1>2, <1>4, <1>8, <2>2 DEF GraceOK
  <2> QED BY <2>1, <2>2
<1>9. \A s \in Sessions : s \notin heirs'[s]
  BY <1>2 DEF GraceOK
<1> QED BY <1>7, <1>8, <1>9 DEF GraceOK

\* When the heir arrives, what is left of the grace period suffices for every
\* request that was sent before.
LEMMA ReceiveGrace ==
  ASSUME IInv, DeliveryOK, GraceOK, 2 * MaxDelay <= Grace, NEW r \in Requests, receive(r)
  PROVE  GraceOK'
<1>0. /\ req \in [Requests -> Request] /\ Null \notin Sessions /\ heirs \in [Sessions -> SUBSET Sessions]
      /\ req[r].auth \in Sessions \union {Null} /\ req[r].cookie \in Sessions \union {Null}
      /\ \A p \in Requests : req[p].age \in 0 .. MaxDelay
      /\ MaxDelay \in Nat /\ Grace \in Nat /\ ttl \in [Sessions -> 0 .. Length] /\ Length \in Nat
  BY SessionAssumption DEF IInv, ReqOK, SessionOK, Request
<1>1. /\ req'[r] = Idle /\ \A p \in Requests \ {r} : req'[p] = req[p]
      /\ UNCHANGED <<session, ttl, heirs>>
  BY <1>0 DEF receive
<1>2. \/ jar' = jar \/ jar' = Null
      \/ jar' \in Sessions /\ Brings(r, jar')
  BY <1>0 DEF receive, renewed_auth, Brings
<1>3. ASSUME NEW p \in Requests \ {r}, NEW s \in Sessions, req[p].cookie = s
      PROVE  GraceOf(p, s)'
  <2>1. GraceOf(p, s)
    BY <1>3 DEF GraceOK
  <2>2. ASSUME jar' \in heirs[s], Brings(r, jar') PROVE InGrace(s, MaxDelay - req[p].age)
    <3>1. req[r].auth = jar' /\ req[r].cookie # jar' /\ jar' \in Sessions /\ Fits(req[r], heirs)
      BY <1>0, <2>2, SMTT(30) DEF Brings, DeliveryOK
    <3>2. req[r].cookie \in Sessions
      BY <1>0, <2>2, <3>1, SMTT(30) DEF GraceOK
    <3>3. jar' \in heirs[req[r].cookie]
      BY <1>0, <3>1, <3>2, SMTT(30) DEF Fits
    <3>4. req[r].cookie = s
      BY <2>2, <3>1, <3>2, <3>3, SMTT(30) DEF DeliveryOK, HeirsOK
    <3>5. InGrace(s, Grace - req[r].age)
      BY <2>2, <3>1, <3>4 DEF GraceOK, GraceOf
    <3>6. Grace - req[r].age >= MaxDelay - req[p].age
      BY <1>0
    <3> QED BY <1>0, <3>5, <3>6 DEF InGrace
  <2>3. jar' \in heirs[s] => InGrace(s, MaxDelay - req[p].age)
    BY <1>0, <1>2, <2>1, <2>2 DEF GraceOf
  <2> QED BY <1>1, <2>1, <2>3 DEF GraceOf, InGrace
<1>4. ASSUME NEW p \in Requests, NEW s \in Sessions
      PROVE  /\ req'[p].cookie = Null => req'[p].auth \notin heirs'[s]
             /\ req'[p].cookie = s => GraceOf(p, s)'
  <2>1. CASE p = r
    <3>1. req'[p].cookie = Null /\ req'[p].auth = Null
      BY <1>1, <2>1 DEF Idle
    <3> QED BY <1>0, <1>1, <3>1, SMTT(30)
  <2>2. CASE p # r
    BY <1>1, <1>3, <2>2 DEF GraceOK
  <2> QED BY <2>1, <2>2
<1> QED BY <1>1, <1>4 DEF GraceOK

\* Every step of a request keeps the grace periods.
LEMMA StepGrace ==
  ASSUME IInv, CookiesOK, DeliveryOK, GraceOK, 2 * MaxDelay <= Grace, NEW r \in Requests, Step(r)
  PROVE  GraceOK'
<1> DEFINE q == req[r]
           Going(pc, auth) == [q EXCEPT !.pc = pc, !.auth = auth]
           Quiet == \A s \in Sessions : heirs[s] # {} => session'[s] \in {session[s], "deleted"} /\ ttl'[s] = ttl[s]
<1>0. /\ q \in Request /\ q.cookie \in Sessions \union {Null} /\ q.auth \in Sessions \union {Null}
      /\ jar \in Sessions \union {Null} /\ Null \notin Sessions /\ SessionOK
      /\ Fits(q, heirs)
  BY SessionAssumption DEF IInv, ReqOK, Request, DeliveryOK
<1>1. ASSUME NEW pc \in {"renewing", "verified", "answered"}, NEW auth \in Sessions \union {Null},
             Go(r, pc, auth)
      PROVE  /\ Going(pc, auth) \in Request /\ req' = [req EXCEPT ![r] = Going(pc, auth)]
             /\ Going(pc, auth).auth = auth /\ Going(pc, auth).cookie = q.cookie
             /\ Going(pc, auth).age = q.age
  BY <1>0, <1>1 DEF Request, Go
<1> HIDE DEF Going
<1>2. ASSUME NEW pc \in {"renewing", "verified", "answered"}, NEW auth \in Sessions \union {Null},
             Go(r, pc, auth), heirs' = heirs, jar' = jar, Quiet,
             q.cookie = Null => auth \in {Null, q.auth} \/ session[auth] = "unused",
             q.cookie # Null => auth \in {Null, q.cookie, q.auth}
      PROVE  GraceOK'
  BY <1>1, <1>2, QuietGrace
<1>3. Idle \in Request /\ Idle.cookie = Null /\ Idle.auth = Null
  BY SessionAssumption DEF Idle, Request
<1>4. ASSUME NEW s \in Sessions, create_session(s) PROVE Quiet
  BY <1>0, <1>4 DEF create_session, SessionOK
<1>5. ASSUME UNCHANGED <<session, ttl>> PROVE Quiet
  BY <1>5
<1> HIDE DEF Quiet
<1>6. CASE \E kind \in {"get", "login", "logout"} : send(r, kind)
  <2> PICK kind \in {"get", "login", "logout"} : send(r, kind)
    BY <1>6
  <2> DEFINE p == [pc |-> "sent", kind |-> kind, cookie |-> jar, auth |-> Null, age |-> 0]
  <2>0. 0 \in 0 .. MaxDelay
    BY SessionAssumption
  <2>1. p \in Request /\ p.cookie = jar /\ p.auth = Null
    BY <1>0, <2>0 DEF Request
  <2>2. req' = [req EXCEPT ![r] = p] /\ heirs' = heirs /\ jar' = jar /\ UNCHANGED <<session, ttl>>
    BY DEF send
  <2> HIDE DEF p
  <2>3. Quiet
    BY <1>5, <2>2
  <2> QED BY <2>1, <2>2, <2>3, QuietGrace DEF Quiet
<1>7. CASE verify_user(r)
  <2>1. q.cookie = Null /\ heirs' = heirs /\ jar' = jar
    BY <1>0, <1>7, SMTT(30) DEF verify_user, Fits
  <2>2. \E auth \in Sessions \union {Null} :
          Go(r, "answered", auth) /\ (auth = Null \/ session[auth] = "unused") /\ Quiet
    BY <1>4, <1>5, <1>7, SMTT(30) DEF verify_user, create_session, Fresh
  <2> QED BY <1>2, <2>1, <2>2
<1>8. CASE verify_session(r)
  <2>1. heirs' = heirs /\ jar' = jar /\ Quiet
    BY <1>5, <1>8 DEF verify_session
  <2>2. \/ Go(r, "verified", Null)
        \/ Go(r, "renewing", q.cookie) /\ q.cookie # Null
        \/ Go(r, "verified", q.cookie) /\ q.cookie # Null
    BY <1>8, SMTT(30) DEF verify_session, Live
  <2> QED BY <1>0, <1>2, <2>1, <2>2, SMTT(30)
<1>9. CASE renew_session(r)
  <2>1. q.cookie \in Sessions /\ jar' = jar
    BY <1>9, SMTT(30) DEF renew_session, IInv, ReqOK
  <2>2. ASSUME NEW new \in Sessions, RenewScript(q.cookie, new), Go(r, "verified", new) PROVE GraceOK'
    BY <1>0, <1>1, <2>1, <2>2, RenewGrace
  <2>3. ASSUME Go(r, "verified", q.cookie), UNCHANGED <<session, ttl, heirs>> PROVE GraceOK'
    BY <1>0, <1>2, <1>5, <2>1, <2>3
  <2> QED BY <1>9, <2>2, <2>3 DEF renew_session
<1>10. CASE on_logout(r)
  <2>1. heirs' = heirs /\ jar' = jar /\ Go(r, "answered", Null)
    BY <1>10 DEF on_logout
  <2>2. Quiet
    BY <1>10 DEF on_logout, Quiet
  <2> QED BY <1>2, <2>1, <2>2, SMTT(30)
<1>11. CASE lose_logout(r)
  BY <1>2, <1>5, <1>11 DEF lose_logout
<1>12. CASE on_request_body(r)
  <2>1. heirs' = heirs /\ jar' = jar /\ Go(r, "answered", q.auth) /\ Quiet
    BY <1>5, <1>12 DEF on_request_body
  <2> QED BY <1>0, <1>2, <2>1
<1>13. CASE receive(r)
  BY <1>13, ReceiveGrace
<1>14. CASE lose(r)
  <2>1. req' = [req EXCEPT ![r] = Idle] /\ jar' = jar
    BY <1>14 DEF lose
  <2>2. CASE heirs' = heirs /\ Quiet
    BY <1>3, <2>1, <2>2, QuietGrace DEF Quiet
  <2>3. CASE q.pc = "renewing" /\ \E new \in Sessions : RenewScript(q.cookie, new)
    <3>1. q.cookie \in Sessions
      BY <2>3 DEF IInv, ReqOK
    <3> QED BY <1>3, <2>1, <2>3, <3>1, RenewGrace
  <2> QED BY <1>4, <1>5, <1>14, <2>2, <2>3 DEF lose
<1> QED BY <1>6, <1>7, <1>8, <1>9, <1>10, <1>11, <1>12, <1>13, <1>14 DEF Step

\* So does time: before a session's grace period is over, the requests that rely
\* on it are.
LEMMA TickGrace ==
  ASSUME IInv, DeliveryOK, GraceOK, 2 * MaxDelay <= Grace, Tick
  PROVE  GraceOK'
<1>0. /\ req \in [Requests -> Request] /\ MaxDelay \in Nat /\ Grace \in Nat /\ Length \in Nat
      /\ SessionOK /\ ttl \in [Sessions -> 0 .. Length] /\ Null \notin Sessions
      /\ heirs' = heirs /\ jar' = jar
  BY SessionAssumption DEF IInv, ReqOK, SessionOK, Tick
<1>1. ASSUME NEW r \in Requests
      PROVE  /\ req'[r].cookie = req[r].cookie /\ req'[r].auth = req[r].auth
             /\ req[r].pc # "idle" => /\ req[r].age < MaxDelay /\ req[r].age \in Nat
                                      /\ req'[r].age = req[r].age + 1
  BY <1>0 DEF Request, Tick
<1>2. ASSUME NEW s \in Sessions, heirs[s] # {}, NEW t \in Nat, InGrace(s, t + 1)
      PROVE  InGrace(s, t)'
  <2>1. /\ session'[s] = IF Live(s) /\ ttl[s] = 0 THEN "expired" ELSE session[s]
        /\ ttl'[s] = IF ttl[s] > 0 THEN ttl[s] - 1 ELSE 0
        /\ ttl[s] \in Nat
    BY <1>0 DEF Tick
  <2>2. CASE Live(s)
    <3>1. session[s] = "renewed" /\ ttl[s] >= t + 1
      BY <1>0, <1>2, <2>2 DEF SessionOK, RenewedSessionsEnd, InGrace
    <3> QED BY <2>1, <3>1 DEF InGrace
  <2>3. CASE ~ Live(s)
    BY <1>0, <1>2, <2>1, <2>3 DEF InGrace, Live
  <2> QED BY <2>2, <2>3
<1>3. ASSUME NEW r \in Requests, NEW s \in Sessions, req[r].cookie = s
      PROVE  GraceOf(r, s)'
  <2>1. /\ req[r].age < MaxDelay /\ req[r].age \in Nat /\ req'[r].age = req[r].age + 1
    BY <1>0, <1>1, <1>3 DEF DeliveryOK, Fits
  <2>2. GraceOf(r, s)
    BY <1>3 DEF GraceOK
  <2>3. /\ MaxDelay - req'[r].age \in Nat /\ Grace - req'[r].age \in Nat
        /\ MaxDelay - req[r].age = (MaxDelay - req'[r].age) + 1
        /\ Grace - req[r].age = (Grace - req'[r].age) + 1
    BY <1>0, <2>1
  <2>4. req[r].auth \in heirs[s] => InGrace(s, Grace - req[r].age)'
    BY <1>0, <1>2, <2>2, <2>3 DEF GraceOf
  <2>5. jar \in heirs[s] => InGrace(s, MaxDelay - req[r].age)'
    BY <1>0, <1>2, <2>2, <2>3 DEF GraceOf
  <2> QED BY <1>0, <1>1, <2>4, <2>5 DEF GraceOf
<1> QED BY <1>0, <1>1, <1>3 DEF GraceOK

\* The grace periods are kept in every reachable state when two requests in a row
\* fit in one.
THEOREM GracePeriods ==
  ASSUME 2 * MaxDelay <= Grace
  PROVE  Spec => []GraceOK
<1>1. Init => GraceOK
  BY DEF Init, GraceOK, GraceOf
<1>2. IInv /\ CookiesOK /\ DeliveryOK /\ GraceOK /\ [Next]_vars => GraceOK'
  <2> SUFFICES ASSUME IInv, CookiesOK, DeliveryOK, GraceOK, [Next]_vars PROVE GraceOK'
    OBVIOUS
  <2>1. CASE Next
    BY <2>1, StepGrace, TickGrace DEF Next
  <2>2. CASE UNCHANGED vars
    BY <2>2 DEF vars, GraceOK, GraceOf, InGrace
  <2> QED BY <2>1, <2>2
<1> QED BY <1>1, <1>2, Invariance, CookiesInOrder, DeliveryInOrder, PTL DEF Spec

\* A request pending while its session is renewed never logs the browser out of the
\* new session, if the grace period is twice as long as a request takes or longer.
THEOREM NoLogoutByDelay ==
  ASSUME 2 * MaxDelay <= Grace
  PROVE  Spec => NoSpuriousLogout
<1> DEFINE Keeps(r) == receive(r) /\ jar' = Null
             /\ (\E s \in Sessions : req[r].cookie = s /\ jar \in heirs[s] /\ session[s] = "expired")
               => session[jar] # "current" \/ req[r].kind = "logout"
<1>1. ASSUME GraceOK PROVE \A r \in Requests : Keeps(r)
  BY <1>1 DEF GraceOK, GraceOf, InGrace
<1> QED BY <1>1, GracePeriods, PTL DEF NoSpuriousLogout

=============================================================================
