------------------------------ MODULE HttpSession ------------------------------
(***************************************************************************)
(* The HTTP sessions of the server (src/src/server/net/Session.cc), the    *)
(* dispatch of their requests (server/hrb/SessionHandler.ipp) and the pool *)
(* of redis sockets they share (server/net/Redis.cc).                      *)
(*                                                                         *)
(* A session reads a request, lets a handler answer it, and reads the      *)
(* next one if the client asked to keep the connection.  Every request     *)
(* gets a new handler with a redis connection of its own, which takes its  *)
(* socket from the pool; the previous handler's socket goes back when the  *)
(* new one has been made.  The sessions run on several threads, so the     *)
(* steps of Pool::get_sock, whose first check is made without the lock,    *)
(* interleave.                                                             *)
(*                                                                         *)
(* Redis can be restarted: then all sockets are broken, which is noticed   *)
(* when a command is sent.  What redis does is modelled in Ownership and   *)
(* Authentication, and the connection in RedisConnection; here a command   *)
(* succeeds, is refused ("absent": the object, or the password, is not     *)
(* there, or the script failed) or meets a broken connection.              *)
(*                                                                         *)
(* The client's requests are chosen when they are read, so a client that   *)
(* sends ahead is included.  The bytes of a body that is not read stay in  *)
(* front of the next request; they are taken for no request of their own.  *)
(***************************************************************************)
EXTENDS Integers, Sequences, FiniteSets

CONSTANTS
  Sessions,     \* TCP connections of clients
  Descriptors,  \* bound: sockets to redis at a time
  Ops,          \* the requests that clients make
  MaxDraining   \* bound: connections that outlive their handler

ASSUME HttpAssumption ==
  /\ IsFiniteSet(Sessions)
  /\ Descriptors \in Nat /\ MaxDraining \in Nat

\* What is known of a socket to redis.
Sockets == {"open", "stale"}

VARIABLES
  pool,      \* Pool::m_socks
  draining,  \* the sockets of old handlers with a command outstanding
  up,        \* whether redis accepts connections
  sess       \* the sessions

vars == <<pool, draining, up, sess>>

-----------------------------------------------------------------------------
(* Requests *)

\* A bug: the completions do not look at the error of the connection.
StatusUnchecked == [
  get    |-> [ok |-> 200, absent |-> 404, error |-> 404],
  view   |-> [ok |-> 200, absent |-> 200, error |-> 200],
  unlink |-> [ok |-> 204, absent |-> 204, error |-> 204],
  perm   |-> [ok |-> 204, absent |-> 204, error |-> 204],
  move   |-> [ok |-> 204, absent |-> 204, error |-> 204],
  cover  |-> [ok |-> 204, absent |-> 400, error |-> 400],
  share  |-> [ok |-> 204, absent |-> 204, error |-> 204],
  list   |-> [ok |-> 200, absent |-> 200, error |-> 200],
  login  |-> [ok |-> 204, absent |-> 403, error |-> 403],
  logout |-> [ok |-> 200, absent |-> 200, error |-> 200],
  upload |-> [ok |-> 201, absent |-> 201, error |-> 201]]

\* The response when the command has succeeded, was refused, or failed with its
\* connection.  The completions of unlink_blob, set_permission, move_blob and
\* link_blob only log what redis refuses; those of share_resource, list_guests and
\* destroy_session do not look at the error of the connection either.
Status == [
  get    |-> [ok |-> 200, absent |-> 404, error |-> 500],
  view   |-> [ok |-> 200, absent |-> 200, error |-> 500],
  unlink |-> [ok |-> 204, absent |-> 204, error |-> 500],
  perm   |-> [ok |-> 204, absent |-> 204, error |-> 500],
  move   |-> [ok |-> 204, absent |-> 204, error |-> 500],
  cover  |-> [ok |-> 204, absent |-> 400, error |-> 500],
  share  |-> [ok |-> 204, absent |-> 204, error |-> 204],
  list   |-> [ok |-> 200, absent |-> 200, error |-> 200],
  login  |-> [ok |-> 204, absent |-> 403, error |-> 500],
  logout |-> [ok |-> 200, absent |-> 200, error |-> 200],
  upload |-> [ok |-> 201, absent |-> 201, error |-> 500]]

\* The responses a handler gives before it sends a command: an unchanged or
\* static file, arguments it cannot use, somebody who is not the owner.
Early == [
  get    |-> {304}, view  |-> {},         unlink |-> {403},      perm   |-> {400, 403},
  move   |-> {403}, cover |-> {400, 403}, share  |-> {403},      list   |-> {403},
  login  |-> {400}, logout |-> {},        upload |-> {400, 403, 500}, static |-> {200, 404},
  invalid |-> {400}]

ASSUME OpsAssumption == Ops \subseteq DOMAIN Early

HasBody(op) == op \in {"perm", "move", "cover", "share", "list", "login", "upload", "invalid"}

\* The parser on_request_header chooses: without a session, one for an empty body.
BodyFits(op, cookie) == HasBody(op) => cookie \/ op = "login"

-----------------------------------------------------------------------------
(* The pool *)

\* The places of the sessions where sockets of these kinds are: that of the handler,
\* and that of the next one.
Held(kinds) == {h \in Sessions \X {"conn", "next"} : sess[h[1]][h[2]] \in kinds}

\* The sockets to redis.
Total == Len(pool) + Len(draining) + Cardinality(Held(Sockets))

\* m_socks.pop_back()
AfterPop(p) == SubSeq(p, 1, Len(p) - 1)

\* ~Connection gives an open socket back.  A view may leave an update of an inode
\* outstanding; then the connection lives until redis has answered.
Release(s) ==
  LET sock == sess[s].conn
  IN \/ sock # "none" /\ pool' = Append(pool, sock) /\ UNCHANGED draining
     \/ /\ sock # "none" /\ sess[s].op = "view" /\ Len(draining) < MaxDraining
        /\ draining' = Append(draining, sock)
        /\ UNCHANGED pool
     \/ sock = "none" /\ UNCHANGED <<pool, draining>>

\* A bug: the test is the wrong way round.
HasSocketsNot == pool = <<>>

\* !m_socks.empty()
HasSockets == pool # <<>>

\* do_read makes a handler.  The first look at m_socks is not locked.
do_read(r) == [r EXCEPT !.pc = IF HasSockets THEN "pop" ELSE "connect"]

\* get_sock, with the lock.
get_sock(s) ==
  /\ sess[s].pc = "pop"
  /\ \/ /\ pool # <<>>
        /\ sess' = [sess EXCEPT ![s].pc = "emplace", ![s].next = pool[Len(pool)]]
        /\ pool' = AfterPop(pool)
     \/ /\ pool = <<>>
        /\ sess' = [sess EXCEPT ![s].pc = "connect"]
        /\ UNCHANGED pool
  /\ UNCHANGED <<draining, up>>

Ended == [pc |-> "ended", op |-> "static", cookie |-> FALSE, done |-> "none",
          status |-> 0, conn |-> "none", next |-> "none", owed |-> 0, unread |-> FALSE, skewed |-> FALSE]

\* A new socket.  When redis is down, connect throws, no handler of the
\* io_context catches it, and the server ends.
connect(s) ==
  /\ sess[s].pc = "connect"
  /\ \/ /\ up
        /\ Total < Descriptors
        /\ sess' = [sess EXCEPT ![s].pc = "emplace", ![s].next = "open"]
        /\ UNCHANGED <<pool, draining, up>>
     \/ /\ ~up
        /\ sess' = [q \in Sessions |-> Ended]
        /\ pool' = <<>> /\ draining' = <<>>
        /\ UNCHANGED up

\* m_handler.emplace destroys the previous handler.
emplace(s) ==
  /\ sess[s].pc = "emplace"
  /\ Release(s)
  /\ sess' = [sess EXCEPT ![s].pc = "header", ![s].conn = sess[s].next, ![s].next = "none",
                          ![s].op = "static"]
  /\ UNCHANGED up

\* The last command of a connection without a handler is answered, or it fails.
drain ==
  /\ draining # <<>>
  /\ draining' = Tail(draining)
  /\ pool' = IF Head(draining) = "stale" THEN pool ELSE Append(pool, Head(draining))
  /\ UNCHANGED <<up, sess>>

-----------------------------------------------------------------------------
(* A session *)

\* Listener::on_accept and Session::run.
accept(s) ==
  /\ sess[s].pc = "ended"
  /\ sess' = [sess EXCEPT ![s] = do_read(@)]
  /\ UNCHANGED <<pool, draining, up>>

\* send_response, with the class of the status; unread tells whether a part of the
\* body stays in the buffer.
Responded(r, status, unread) ==
  [pc |-> "writing", op |-> IF r.op = "view" THEN "view" ELSE "static", cookie |-> FALSE, done |-> "none",
   status |-> status \div 100, conn |-> r.conn, next |-> r.next,
   owed |-> r.owed - 1, unread |-> unread, skewed |-> r.skewed \/ unread]

\* A bug: on_read_header goes on after validate_request has answered.
RejectedGoesOn(r) == [r EXCEPT !.pc = "body", !.owed = @ - 1]

\* validate_request answers, and its body is not read.
Rejected(r) == Responded(r, 400, TRUE)

\* on_read_header and on_request_header: the session of the cookie (or the key of a
\* guest) is verified, unless it is a login.
on_read_header(s) ==
  /\ sess[s].pc = "header" /\ ~sess[s].unread
  /\ \E op \in Ops, cookie \in BOOLEAN :
       LET r == [sess[s] EXCEPT !.op = op, !.cookie = cookie /\ op # "login", !.owed = @ + 1]
       IN sess' = [sess EXCEPT ![s] =
            IF op = "invalid" THEN Rejected(r)
            ELSE [r EXCEPT !.pc = IF r.cookie THEN "verify" ELSE "body"]]
  /\ UNCHANGED <<pool, draining, up>>

\* handle_read_error for bytes that are no request; they may stay in the buffer.
\* How many responses too many there are is not counted.
on_garbage(s) ==
  /\ sess[s].pc = "header" /\ sess[s].unread
  /\ \E unread \in BOOLEAN : sess' = [sess EXCEPT ![s] = Responded([@ EXCEPT !.owed = 1], 400, unread)]
  /\ UNCHANGED <<pool, draining, up>>

\* Bugs: the connection stays open; the completions are not called.
BreakStaysOpen(s, r) ==
  /\ sess[s].conn = "stale"
  /\ sess' = [sess EXCEPT ![s] = r]
  /\ UNCHANGED <<pool, draining, up>>

BreakUnnoticed(s, r) == FALSE

\* The command of a handler meets the broken connection, which is closed.
Break(s, r) ==
  /\ sess[s].conn = "stale"
  /\ sess' = [sess EXCEPT ![s] = [r EXCEPT !.conn = "none"]]
  /\ UNCHANGED <<pool, draining, up>>

\* verify_session has completed: the body is read, or the answer is 500.  For an
\* upload, prepare_upload may fail.
on_verified(s) ==
  /\ sess[s].pc = "verify"
  /\ \/ /\ sess[s].conn = "open"
        /\ \/ sess' = [sess EXCEPT ![s].pc = "body"]
           \/ sess[s].op = "upload" /\ sess' = [sess EXCEPT ![s] = Responded(@, 500, TRUE)]
        /\ UNCHANGED <<pool, draining, up>>
     \/ Break(s, Responded(sess[s], 500, HasBody(sess[s].op)))

\* on_read: a body the parser does not take, or too long, or that cannot be written,
\* is an error.  on_request_body then answers, or sends a command to redis.
on_read(s) ==
  /\ sess[s].pc = "body"
  /\ LET op == sess[s].op
     IN \/ /\ ~BodyFits(op, sess[s].cookie) \/ op = "upload"
           /\ sess' = [sess EXCEPT ![s] = Responded(@, 400, TRUE)]
        \/ /\ BodyFits(op, sess[s].cookie)
           /\ \E status \in Early[op] : sess' = [sess EXCEPT ![s] = Responded(@, status, FALSE)]
        \/ /\ BodyFits(op, sess[s].cookie) /\ op \in DOMAIN Status
           /\ sess' = [sess EXCEPT ![s].pc = "command", ![s].cookie = FALSE]
  /\ UNCHANGED <<pool, draining, up>>

\* Redis executes the command.
execute(s) ==
  /\ sess[s].pc = "command" /\ sess[s].done = "none"
  /\ sess[s].conn = "open"
  /\ \E done \in {"ok", "absent"} : sess' = [sess EXCEPT ![s].done = done]
  /\ UNCHANGED <<pool, draining, up>>

\* The completion of the command.
on_reply(s) ==
  /\ sess[s].pc = "command"
  /\ \/ /\ sess[s].conn = "open" /\ sess[s].done # "none"
        /\ sess' = [sess EXCEPT ![s] = Responded(@, Status[sess[s].op][sess[s].done], FALSE)]
        /\ UNCHANGED <<pool, draining, up>>
     \/ Break(s, Responded(sess[s], Status[sess[s].op].error, FALSE))

\* on_write: the next request is read if the client asked to keep the connection
\* in the last header that was read.
on_write(s) ==
  /\ sess[s].pc = "writing"
  /\ sess' = [sess EXCEPT ![s] = do_read([@ EXCEPT !.status = 0])]
  /\ UNCHANGED <<pool, draining, up>>

\* The session ends, because its client has closed the connection (while the
\* server waits for it or writes to it) or did not ask to keep it.
end(s) ==
  /\ sess[s].pc \in {"header", "body", "writing"}
  /\ Release(s)
  /\ sess' = [sess EXCEPT ![s] = Ended]
  /\ UNCHANGED up

-----------------------------------------------------------------------------

\* Redis ends, and closes its sockets.
redis_down ==
  /\ up /\ up' = FALSE
  /\ pool' = [i \in DOMAIN pool |-> "stale"]
  /\ draining' = [i \in DOMAIN draining |-> "stale"]
  /\ sess' = [s \in Sessions |->
       [sess[s] EXCEPT !.conn = IF @ = "none" THEN @ ELSE "stale", !.next = IF @ = "none" THEN @ ELSE "stale"]]

redis_up ==
  /\ ~up /\ up' = TRUE
  /\ UNCHANGED <<pool, draining, sess>>

Init ==
  /\ pool = <<>> /\ draining = <<>>
  /\ up = TRUE
  /\ sess = [s \in Sessions |-> Ended]

\* What the server and redis do by themselves.
Work(s) == get_sock(s) \/ connect(s) \/ emplace(s) \/ on_verified(s) \/ execute(s) \/ on_reply(s)

Next ==
  \/ \E s \in Sessions :
       \/ accept(s) \/ Work(s)
       \/ on_read_header(s) \/ on_garbage(s) \/ on_read(s) \/ on_write(s) \/ end(s)
  \/ drain
  \/ redis_down \/ redis_up

Spec == Init /\ [][Next]_vars /\ \A s \in Sessions : WF_vars(Work(s))

-----------------------------------------------------------------------------
(* Properties *)

\* The sockets to redis are bounded by what can be in use at once, two for each
\* session while it changes handlers, although get_sock looks at the pool without
\* the lock and several sessions may find it empty together.
SocketsBounded == Total <= 2 * Cardinality(Sessions) + MaxDraining

\* A session answers each request once and in order, so that the n-th response is
\* that to the n-th request, until a response is sent whose request was not read
\* to its end.
OneResponseEach ==
  \A s \in Sessions : ~sess[s].skewed =>
     sess[s].owed = IF sess[s].pc \in {"verify", "body", "command"} THEN 1 ELSE 0

\* A request to change something is answered with success only if redis has
\* executed its command, also when the connection breaks at any moment; a login
\* and a cover only if it was not refused.  (Logouts and shares may be answered
\* with success when they have failed.)
Acknowledged ==
  [][\A s \in Sessions : sess[s].pc = "command" /\ sess'[s].status = 2 =>
       /\ sess[s].op \in {"unlink", "perm", "move", "upload"} => sess[s].done # "none"
       /\ sess[s].op \in {"login", "cover"} => sess[s].done = "ok"]_vars

\* A handler that waits for redis is answered, and answers, whatever happens to
\* redis: no client waits for a reply that is lost.  (It may wait for its own
\* client to send the body.)
CommandsAnswered ==
  \A s \in Sessions : sess[s].pc \in {"verify", "command"} ~> sess[s].pc \in {"body", "writing", "ended"}

\* The connection of session s fails its request (an upload may also fail because
\* of the disk).
Fails(s) == sess[s].pc \in {"verify", "command"} /\ sess'[s].status = 5 /\ sess[s].op # "upload"

StaleIn(socks) == {i \in DOMAIN socks : socks[i] = "stale"}

Stale == Cardinality(StaleIn(pool)) + Cardinality(StaleIn(draining)) + Cardinality(Held({"stale"}))

\* Every request that fails uses up a socket that was open when redis ended, and
\* while redis is up no socket becomes stale: after redis has come back, the stale
\* sockets in the pool, and those that idle sessions hold, fail one request each
\* and no more.
FailuresPaid ==
  [][/\ up /\ up' => Stale' <= Stale
     /\ (\E s \in Sessions : Fails(s)) => Stale' < Stale]_vars

=============================================================================
