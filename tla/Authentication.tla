---------------------------- MODULE Authentication ----------------------------
(***************************************************************************)
(* Login sessions (src/src/server/crypto/Authentication.cc, the session    *)
(* side of src/src/server/hrb/SessionHandler and of src/src/server/net/    *)
(* Session.cc) seen from one browser of one user.                          *)
(*                                                                         *)
(* A session is a redis key with a time to live.  A request that finds     *)
(* less than half of it left renews the session: in one script, the old    *)
(* key is marked '#' and left to live for Grace more, and a new key marked *)
(* '_' is created, whose ID goes into the Set-Cookie of the response.      *)
(* Reading the session and renewing it are two redis commands, and the     *)
(* requests of a browser run concurrently on several connections.          *)
(*                                                                         *)
(* Time passes in ticks.  Bounds: Sessions are the IDs that can be drawn,  *)
(* Requests the requests in progress at a time, MaxDelay the ticks between *)
(* the sending of a request and the arrival of its response.               *)
(***************************************************************************)
EXTENDS Integers, FiniteSets

CONSTANTS
  Sessions,   \* session IDs
  Requests,   \* the browser's requests in progress
  Length,     \* session_length, in ticks
  Grace,      \* what is left to a renewed session: 30 seconds, in ticks
  MaxDelay,   \* how long a request takes at most
  Faults,     \* whether responses and redis connections can be lost
  Null

ASSUME SessionAssumption ==
  /\ Null \notin Sessions
  /\ Length \in Nat /\ Grace \in Nat /\ MaxDelay \in Nat
  /\ Grace <= Length
  /\ Faults \in BOOLEAN

VARIABLES
  session,    \* session:<id>: "unused", "current" (_user), "renewed" (#user), "expired" or "deleted"
  ttl,        \* session ID -> ticks left to live
  heirs,      \* session ID -> the sessions that renewed it (history)
  req,        \* the requests, with the m_auth of their SessionHandler
  jar         \* the browser's cookie

vars == <<session, ttl, heirs, req, jar>>

Live(s) == s # Null /\ session[s] \in {"current", "renewed"}

Idle == [pc |-> "idle", kind |-> "get", cookie |-> Null, auth |-> Null, age |-> 0]

\* Request r goes on at pc, authenticated as auth.
Go(r, pc, auth) == req' = [req EXCEPT ![r] = [@ EXCEPT !.pc = pc, !.auth = auth]]

-----------------------------------------------------------------------------
(* The browser (external) *)

\* The browser sends a request with the cookie it has; without one it logs in.
send(r, kind) ==
  /\ req[r].pc = "idle"
  /\ kind = "login" <=> jar = Null
  /\ req' = [req EXCEPT ![r] = [pc |-> "sent", kind |-> kind, cookie |-> jar, auth |-> Null, age |-> 0]]
  /\ UNCHANGED <<session, ttl, heirs, jar>>

-----------------------------------------------------------------------------
(* The server *)

\* secure_random: an ID nobody has had.
Fresh(s) == session[s] = "unused"

\* create_session: SET session:<id> _<user> EX <session_length>.
create_session(s) ==
  /\ Fresh(s)
  /\ session' = [session EXCEPT ![s] = "current"]
  /\ ttl' = [ttl EXCEPT ![s] = Length]

\* verify_user: the password is right and a session is created, or on_login
\* answers "forbidden".
verify_user(r) ==
  /\ req[r].pc = "sent" /\ req[r].kind = "login"
  /\ \/ \E s \in Sessions : create_session(s) /\ Go(r, "answered", s)
     \/ Go(r, "answered", Null) /\ UNCHANGED <<session, ttl>>
  /\ UNCHANGED <<heirs, jar>>

\* verify_session: one script reads the key and its time to live.
verify_session(r) ==
  /\ req[r].pc = "sent" /\ req[r].kind # "login"
  /\ LET s == req[r].cookie
     IN \/ ~ Live(s) /\ Go(r, "verified", Null)
        \/ Live(s) /\ ttl[s] < Length \div 2 /\ Go(r, "renewing", s)
        \/ Live(s) /\ ttl[s] >= Length \div 2 /\ Go(r, "verified", s)
  /\ UNCHANGED <<session, ttl, heirs, jar>>

\* Bugs: the script renews whatever is not renewed yet, also a missing key; it
\* does not look whether the session has been renewed.
MayRenewMissing(s) == session[s] # "renewed"

MayRenewAgain(s) == Live(s)

\* The script's condition.  string.sub of a missing key is an error.
MayRenew(s) == session[s] = "current"

\* Bugs: the old session ends at once; it keeps a whole session's time; the
\* grace period is added to that.
OldSessionNow == 0

OldSessionKept == Length

OldSessionExtended == Length + Grace

\* What the renewed session has left.
OldSession == Grace

\* The script of renew_session, when it renews.
RenewScript(old, new) ==
  /\ MayRenew(old)
  /\ Fresh(new)
  /\ session' = [s \in Sessions |-> IF s = old THEN "renewed" ELSE IF s = new THEN "current" ELSE session[s]]
  /\ ttl' = [s \in Sessions |-> IF s = old THEN OldSession ELSE IF s = new THEN Length ELSE ttl[s]]
  /\ heirs' = [heirs EXCEPT ![old] = @ \union {new}]

\* renew_session: "if error occurs or session already renewed, use the old
\* session".  When the IDs are used up the script counts as failed.
renew_session(r) ==
  /\ req[r].pc = "renewing"
  /\ \/ \E new \in Sessions : RenewScript(req[r].cookie, new) /\ Go(r, "verified", new)
     \/ /\ MayRenew(req[r].cookie) => \A s \in Sessions : ~ Fresh(s)
        /\ Go(r, "verified", req[r].cookie)
        /\ UNCHANGED <<session, ttl, heirs>>
  /\ UNCHANGED jar

\* A bug: the session of the cookie is destroyed.
OnLogoutCookie(r) ==
  /\ req[r].pc = "verified" /\ req[r].kind = "logout"
  /\ session' = [s \in Sessions |-> IF s = req[r].cookie /\ Live(s) THEN "deleted" ELSE session[s]]
  /\ Go(r, "answered", Null)
  /\ UNCHANGED <<ttl, heirs, jar>>

\* DEL session:<id> of the session the request has now; m_auth is cleared.
on_logout(r) ==
  /\ req[r].pc = "verified" /\ req[r].kind = "logout"
  /\ session' = [s \in Sessions |-> IF s = req[r].auth /\ Live(s) THEN "deleted" ELSE session[s]]
  /\ Go(r, "answered", Null)
  /\ UNCHANGED <<ttl, heirs, jar>>

\* Any other request is answered under the identity it has got.
on_request_body(r) ==
  /\ req[r].pc = "verified" /\ req[r].kind = "get"
  /\ Go(r, "answered", req[r].auth)
  /\ UNCHANGED <<session, ttl, heirs, jar>>

\* A bug: no Set-Cookie for a renewed session.
RenewedLogin(r) == req[r].cookie = Null /\ req[r].auth # Null

\* Whether the response carries a Set-Cookie, which is that of m_auth, or the
\* one that clears the browser's.
renewed_auth(r) ==
  IF req[r].cookie # Null THEN req[r].auth # req[r].cookie ELSE req[r].auth # Null

\* The response arrives.
receive(r) ==
  /\ req[r].pc = "answered"
  /\ jar' = IF renewed_auth(r) THEN req[r].auth ELSE jar
  /\ req' = [req EXCEPT ![r] = Idle]
  /\ UNCHANGED <<session, ttl, heirs>>

-----------------------------------------------------------------------------
(* Faults and time (external) *)

\* The response is lost, or redis is: the request ends with an error response
\* that carries no cookie.  A command in progress may have been executed.
lose(r) ==
  /\ Faults
  /\ req[r].pc \in {"sent", "renewing", "answered"}
  /\ req' = [req EXCEPT ![r] = Idle]
  /\ \/ UNCHANGED <<session, ttl, heirs>>
     \/ req[r].pc = "renewing" /\ \E new \in Sessions : RenewScript(req[r].cookie, new)
     \/ /\ req[r].pc = "sent" /\ req[r].kind = "login"
        /\ \E s \in Sessions : create_session(s)
        /\ UNCHANGED heirs
  /\ UNCHANGED jar

\* on_logout ignores the error when redis is lost before it executes DEL.
lose_logout(r) ==
  /\ Faults
  /\ req[r].pc = "verified" /\ req[r].kind = "logout"
  /\ Go(r, "answered", Null)
  /\ UNCHANGED <<session, ttl, heirs, jar>>

\* A tick.  A key whose time is over expires.
Tick ==
  /\ \A r \in Requests : req[r].pc # "idle" => req[r].age < MaxDelay
  /\ req' = [r \in Requests |-> IF req[r].pc = "idle" THEN req[r] ELSE [req[r] EXCEPT !.age = @ + 1]]
  /\ session' = [s \in Sessions |-> IF Live(s) /\ ttl[s] = 0 THEN "expired" ELSE session[s]]
  /\ ttl' = [s \in Sessions |-> IF ttl[s] > 0 THEN ttl[s] - 1 ELSE 0]
  /\ UNCHANGED <<heirs, jar>>

Init ==
  /\ session = [s \in Sessions |-> "unused"]
  /\ ttl = [s \in Sessions |-> 0]
  /\ heirs = [s \in Sessions |-> {}]
  /\ req = [r \in Requests |-> Idle]
  /\ jar = Null

Step(r) ==
  \/ \E kind \in {"get", "login", "logout"} : send(r, kind)
  \/ verify_user(r) \/ verify_session(r) \/ renew_session(r)
  \/ on_logout(r) \/ on_request_body(r) \/ receive(r)
  \/ lose(r) \/ lose_logout(r)

Next == Tick \/ \E r \in Requests : Step(r)

Spec == Init /\ [][Next]_vars

-----------------------------------------------------------------------------
(* Properties *)

Request ==
  [pc : {"idle", "sent", "renewing", "verified", "answered"},
   kind : {"get", "login", "logout"},
   cookie : Sessions \union {Null},
   auth : Sessions \union {Null},
   age : 0 .. MaxDelay]

\* Every variable has its type; no time to live exceeds session_length.
TypeOK ==
  /\ session \in [Sessions -> {"unused", "current", "renewed", "expired", "deleted"}]
  /\ ttl \in [Sessions -> 0 .. Length]
  /\ heirs \in [Sessions -> SUBSET Sessions]
  /\ req \in [Requests -> Request]
  /\ jar \in Sessions \union {Null}

\* However many requests find a session due for renewal at the same time, one
\* of them renews it: a login never branches into two renewable sessions.
OneHeir == \A s \in Sessions : \A p, q \in heirs[s] : p = q

\* A session that can still be renewed has not been renewed, and a session that
\* was renewed lives for the grace period at most.
RenewedSessionsEnd ==
  \A s \in Sessions :
    Live(s) => IF heirs[s] = {} THEN session[s] = "current" ELSE session[s] = "renewed" /\ ttl[s] <= Grace

\* A session that expired or was logged out never becomes valid again, although
\* a request that verified it before may still go on to renew it.
NoResurrection ==
  [][\A s \in Sessions : session[s] \in {"expired", "deleted"} => session'[s] = session[s]]_vars

\* A browser whose session has been renewed has the new one, or the end of the
\* login, coming in a response.
RenewalComing ==
  jar # Null /\ session[jar] = "renewed" =>
    \E r \in Requests :
      \/ req[r].auth \in heirs[jar]
      \/ req[r].cookie = jar /\ req[r].kind = "logout"

\* Only a response that is lost costs a browser its renewed session: in whatever
\* order requests are verified, renewed and answered, the Set-Cookie of
\* on_request_header brings the browser the new session or ends the login.
RenewalDelivered ==
  [][RenewalComing /\ ~RenewalComing' => \E r \in Requests : lose(r) /\ ~receive(r)]_vars

\* A request pending while its session is renewed does not cost the browser the
\* new session: a request with the old cookie that is verified after the grace
\* period would be answered with the Set-Cookie that clears the new cookie.
NoSpuriousLogout ==
  [][\A r \in Requests :
       receive(r) /\ jar' = Null /\ (\E s \in Sessions : req[r].cookie = s /\ jar \in heirs[s] /\ session[s] = "expired")
         => session[jar] # "current" \/ req[r].kind = "logout"]_vars

\* A logout whose DEL is executed ends the session it came with and the one it got by
\* renewing that: what it leaves is a renewed session in its grace period
\* (on_logout destroys the session of m_auth, not that of the cookie).
LogoutEnds ==
  [][\A r \in Requests : on_logout(r) =>
       \A s \in {req[r].cookie, req[r].auth} \ {Null} :
         session'[s] \in {"current", "renewed"} => session'[s] = "renewed" /\ ttl'[s] <= Grace]_vars
=============================================================================
