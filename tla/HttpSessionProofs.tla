--------------------------- MODULE HttpSessionProofs ---------------------------
(***************************************************************************)
(* Proofs about HttpSession, for any number of sessions and any requests.  *)
(*                                                                         *)
(* SocketsBounded is not inductive: several sessions may have found the    *)
(* pool empty and be about to open a socket, while the others give theirs  *)
(* back.  What no step increases past the bound counts those sockets in    *)
(* advance, in the place where they will be held.                          *)
(*                                                                         *)
(* FailuresPaid counts the stale sockets step by step, each in the place   *)
(* where it is: they move between the pool, the sessions and the           *)
(* connections that drain, and a request fails only with one.              *)
(***************************************************************************)
EXTENDS HttpSession, FiniteSetTheorems, TLAPS

Places == {"conn", "next"}

\* The sessions.
Session ==
  [pc : {"ended", "pop", "connect", "emplace", "header", "verify", "body", "command", "writing"},
   op : DOMAIN Early, cookie : BOOLEAN, done : {"none", "ok", "absent"}, status : Int,
   conn : Sockets \union {"none"}, next : Sockets \union {"none"},
   owed : Int, unread : BOOLEAN, skewed : BOOLEAN]

\* What holds of session q by itself: it has a status while it writes, owes a
\* response while it has a request, holds a socket for the next handler only until
\* that is made, and sends a command only for the requests that have one.
SessionOK(q) ==
  /\ q.pc # "writing" => q.status = 0
  /\ ~q.skewed => q.owed = IF q.pc \in {"verify", "body", "command"} THEN 1 ELSE 0
  /\ IF q.pc = "emplace" THEN q.next \in Sockets ELSE q.next = "none"
  /\ q.pc = "command" => q.op \in DOMAIN Status

\* Whether session q has a socket in the place, or is about to open it.
Claims(q, place) == q[place] \in Sockets \/ (place = "next" /\ q.pc = "connect")

\* The places with a socket, or for one, when the sessions are f.
Claimed(f) == {h \in Sessions \X Places : Claims(f[h[1]], h[2])}

Bound == 2 * Cardinality(Sessions) + MaxDraining

\* The inductive invariant.
IInv ==
  /\ pool \in Seq(Sockets) /\ draining \in Seq(Sockets) /\ Len(draining) <= MaxDraining
  /\ sess \in [Sessions -> Session]
  /\ \A s \in Sessions : SessionOK(sess[s])
  /\ Len(pool) + Len(draining) + Cardinality(Claimed(sess)) <= Bound

-----------------------------------------------------------------------------
(* Counting the sockets *)

\* There are two places for each session.
LEMMA PlacesBound ==
  ASSUME NEW f
  PROVE  /\ IsFiniteSet(Claimed(f)) /\ Cardinality(Claimed(f)) \in Nat
         /\ Cardinality(Claimed(f)) <= 2 * Cardinality(Sessions)
         /\ Cardinality(Sessions) \in Nat
<1>1. IsFiniteSet(Places) /\ Cardinality(Places) = 2
  <2>1. Places = {"conn"} \union {"next"} /\ "next" \notin {"conn"}
    BY DEF Places
  <2>2. IsFiniteSet({"conn"}) /\ Cardinality({"conn"}) = 1
    BY FS_Singleton
  <2> QED BY <2>1, <2>2, FS_AddElement
<1>2. IsFiniteSet(Sessions) /\ Cardinality(Sessions) \in Nat
  BY HttpAssumption, FS_CardinalityType
<1>3. /\ IsFiniteSet(Sessions \X Places)
      /\ Cardinality(Sessions \X Places) = Cardinality(Sessions) * 2
  BY <1>1, <1>2, FS_Product
<1>4. Claimed(f) \in SUBSET (Sessions \X Places)
  BY DEF Claimed
<1>5. IsFiniteSet(Claimed(f)) /\ Cardinality(Claimed(f)) <= Cardinality(Sessions \X Places)
  BY <1>3, <1>4, FS_Subset
<1>6. Cardinality(Claimed(f)) \in Nat
  BY <1>5, FS_CardinalityType
<1> QED BY <1>2, <1>3, <1>5, <1>6

\* A session that claims no more than before.
LEMMA ClaimsLess ==
  ASSUME NEW f, NEW g, \A s \in Sessions : \A p \in Places : Claims(g[s], p) => Claims(f[s], p)
  PROVE  Cardinality(Claimed(g)) <= Cardinality(Claimed(f))
<1>1. Claimed(g) \in SUBSET Claimed(f)
  BY DEF Claimed
<1> QED BY <1>1, PlacesBound, FS_Subset

\* A session that claims at most one place more.
LEMMA ClaimsOneMore ==
  ASSUME NEW f, NEW g, NEW s \in Sessions, NEW p \in Places,
         \A t \in Sessions : \A k \in Places : Claims(g[t], k) => Claims(f[t], k) \/ (t = s /\ k = p)
  PROVE  Cardinality(Claimed(g)) <= Cardinality(Claimed(f)) + 1
<1>1. Claimed(g) \in SUBSET (Claimed(f) \union {<<s, p>>})
  BY DEF Claimed
<1>2. /\ IsFiniteSet(Claimed(f) \union {<<s, p>>})
      /\ Cardinality(Claimed(f) \union {<<s, p>>}) <= Cardinality(Claimed(f)) + 1
  <2>1. IsFiniteSet(Claimed(f)) /\ Cardinality(Claimed(f)) \in Nat
    BY PlacesBound
  <2> DEFINE c == Claimed(f)
             h == <<s, p>>
  <2> HIDE DEF c, h
  <2>2. IsFiniteSet(c) /\ Cardinality(c) \in Nat
    BY <2>1 DEF c
  <2>3. IsFiniteSet(c \union {h}) /\ Cardinality(c \union {h}) = IF h \in c THEN Cardinality(c) ELSE Cardinality(c) + 1
    BY <2>2, FS_AddElement, SMTT(30)
  <2>4. IsFiniteSet(c \union {h}) /\ Cardinality(c \union {h}) <= Cardinality(c) + 1
    BY <2>2, <2>3
  <2> QED BY <2>4 DEF c, h
<1> QED BY <1>1, <1>2, PlacesBound, FS_Subset, FS_CardinalityType

\* A session that gives up a place.
LEMMA ClaimsOneLess ==
  ASSUME NEW f, NEW g, NEW s \in Sessions, NEW p \in Places, Claims(f[s], p), ~Claims(g[s], p),
         \A t \in Sessions : \A k \in Places : Claims(g[t], k) => Claims(f[t], k)
  PROVE  Cardinality(Claimed(g)) + 1 <= Cardinality(Claimed(f))
<1>1. Claimed(g) \in SUBSET (Claimed(f) \ {<<s, p>>}) /\ <<s, p>> \in Claimed(f)
  BY DEF Claimed
<1>2. /\ IsFiniteSet(Claimed(f) \ {<<s, p>>})
      /\ Cardinality(Claimed(f) \ {<<s, p>>}) = Cardinality(Claimed(f)) - 1
  BY <1>1, PlacesBound, FS_RemoveElement
<1> QED BY <1>1, <1>2, PlacesBound, FS_Subset
-----------------------------------------------------------------------------
(* The sessions *)

\* A step of session s that becomes q, when no more sockets are claimed than the
\* bound allows.
LEMMA SessionStep ==
  ASSUME IInv, NEW s \in Sessions, NEW q \in Session, SessionOK(q),
         sess' = [sess EXCEPT ![s] = q],
         pool' \in Seq(Sockets), draining' \in Seq(Sockets), Len(draining') <= MaxDraining,
         Len(pool') + Len(draining') + Cardinality(Claimed(sess')) <= Bound
  PROVE  IInv'
<1>1. sess \in [Sessions -> Session] /\ \A t \in Sessions : SessionOK(sess[t])
  BY DEF IInv
<1>2. sess' \in [Sessions -> Session]
  BY <1>1
<1>3. \A t \in Sessions : SessionOK(sess'[t])
  <2> TAKE t \in Sessions
  <2>1. CASE t = s
    <3>1. sess'[t] = q
      BY <1>1, <2>1
    <3> QED BY <3>1
  <2>2. CASE t # s
    <3>1. sess'[t] = sess[t]
      BY <1>1, <2>2
    <3> QED BY <1>1, <3>1
  <2> QED BY <2>1, <2>2
<1> QED BY <1>2, <1>3 DEF IInv

\* A step that claims no more and leaves the pool alone.
LEMMA QuietStep ==
  ASSUME IInv, NEW s \in Sessions, NEW q \in Session, SessionOK(q),
         sess' = [sess EXCEPT ![s] = q], UNCHANGED <<pool, draining>>,
         \A p \in Places : Claims(q, p) => Claims(sess[s], p)
  PROVE  IInv'
<1>1. sess \in [Sessions -> Session]
  BY DEF IInv
<1>2. \A t \in Sessions : sess'[t] = IF t = s THEN q ELSE sess[t]
  BY <1>1
<1>3. \A t \in Sessions : \A p \in Places : Claims(sess'[t], p) => Claims(sess[t], p)
  BY <1>2
<1>4. Cardinality(Claimed(sess')) <= Cardinality(Claimed(sess))
  BY <1>3, ClaimsLess
<1>5. Cardinality(Claimed(sess')) \in Nat /\ Cardinality(Claimed(sess)) \in Nat /\ Bound \in Int
  BY PlacesBound, HttpAssumption DEF Bound
<1>6. /\ pool \in Seq(Sockets) /\ draining \in Seq(Sockets) /\ Len(draining) <= MaxDraining
      /\ Len(pool) + Len(draining) + Cardinality(Claimed(sess)) <= Bound
  BY DEF IInv
<1>7. Len(pool) \in Nat /\ Len(draining) \in Nat
  BY <1>6
<1>8. Len(pool') + Len(draining') + Cardinality(Claimed(sess')) <= Bound
  BY <1>4, <1>5, <1>6, <1>7
<1> QED BY <1>6, <1>8, SessionStep

\* A step that finds the pool empty.
LEMMA EmptyPoolStep ==
  ASSUME IInv, NEW s \in Sessions, NEW q \in Session, SessionOK(q),
         sess' = [sess EXCEPT ![s] = q], UNCHANGED <<pool, draining>>, pool = <<>>
  PROVE  IInv'
<1>1. draining \in Seq(Sockets) /\ pool \in Seq(Sockets) /\ Len(draining) <= MaxDraining /\ Len(draining) \in Nat /\ Len(pool) = 0
  BY DEF IInv
<1>2. /\ Cardinality(Claimed(sess')) \in Nat /\ Cardinality(Sessions) \in Nat
      /\ Cardinality(Claimed(sess')) <= 2 * Cardinality(Sessions)
  BY PlacesBound
<1>3. Len(pool') + Len(draining') + Cardinality(Claimed(sess')) <= Bound
  BY <1>1, <1>2, HttpAssumption DEF Bound
<1> QED BY <1>1, <1>3, SessionStep

\* A session that is ended is sound, and claims nothing.
LEMMA EndedOK == Ended \in Session /\ SessionOK(Ended) /\ \A p \in Places : ~Claims(Ended, p)
BY DEF Ended, Session, SessionOK, Claims, Places, Early, Sockets

\* A session that has responded is sound, if it owed the response.
LEMMA RespondedOK ==
  ASSUME NEW r \in Session, NEW status \in Int, NEW unread \in BOOLEAN, r.next = "none",
         ~r.skewed /\ ~unread => r.owed = 1
  PROVE  /\ Responded(r, status, unread) \in Session /\ SessionOK(Responded(r, status, unread))
         /\ Responded(r, status, unread).conn = r.conn /\ Responded(r, status, unread).next = "none"
         /\ Responded(r, status, unread).pc = "writing"
<1> DEFINE q == Responded(r, status, unread)
<1>1. status \div 100 \in Int /\ {"view", "static"} \subseteq DOMAIN Early
  BY DEF Early
<1>2. q \in Session
  BY <1>1 DEF Responded, Session
<1>3. q.pc = "writing" /\ q.conn = r.conn /\ q.next = r.next /\ q.owed = r.owed - 1
  BY DEF Responded
<1>4. r.owed \in Int
  BY DEF Session
<1>5. SessionOK(q)
  <2>1. ~q.skewed => ~r.skewed /\ ~unread
    BY Zenon DEF Responded
  <2> HIDE DEF q
  <2>2. ~q.skewed => q.owed = 0
    BY <1>3, <1>4, <2>1
  <2> QED BY <1>3, <2>2 DEF SessionOK
<1> QED BY <1>2, <1>3, <1>5

\* A step that keeps the socket of the handler, or loses it.
LEMMA KeepStep ==
  ASSUME IInv, NEW s \in Sessions, NEW q \in Session, SessionOK(q),
         sess' = [sess EXCEPT ![s] = q], UNCHANGED <<pool, draining>>,
         q.conn = sess[s].conn \/ q.conn = "none", q.next = "none", q.pc # "connect"
  PROVE  IInv'
<1>1. \A p \in Places : Claims(q, p) => Claims(sess[s], p)
  BY DEF Claims, Places, Sockets
<1> QED BY <1>1, QuietStep

\* The next handler of a session takes its socket from the pool, or opens one when
\* it has seen an empty pool.
LEMMA DoReadOK ==
  ASSUME IInv, NEW s \in Sessions, NEW r \in Session, r.status = 0, r.next = "none", r.conn = sess[s].conn,
         ~r.skewed => r.owed = 0,
         sess' = [sess EXCEPT ![s] = do_read(r)], UNCHANGED <<pool, draining>>
  PROVE  IInv'
<1> DEFINE q == do_read(r)
<1>1. /\ q \in Session /\ q.pc = (IF HasSockets THEN "pop" ELSE "connect") /\ q.status = 0 /\ q.next = "none"
      /\ q.conn = sess[s].conn /\ q.owed = r.owed
  BY DEF do_read, Session
<1>2. q.skewed = r.skewed
  BY DEF do_read, Session
<1> HIDE DEF q
<1>3. SessionOK(q)
  BY <1>1, <1>2 DEF SessionOK
<1>4. CASE HasSockets
  BY <1>1, <1>3, <1>4, KeepStep DEF q
<1>5. CASE ~HasSockets
  <2>1. pool = <<>>
    BY <1>5 DEF HasSockets
  <2> QED BY <1>1, <1>3, <2>1, EmptyPoolStep DEF q
<1> QED BY <1>4, <1>5

\* Listener::on_accept begins a session.
LEMMA AcceptOK ==
  ASSUME IInv, NEW s \in Sessions, accept(s)
  PROVE  IInv'
<1>1. sess[s] \in Session /\ SessionOK(sess[s]) /\ sess[s].pc = "ended"
  BY DEF IInv, accept
<1>2. sess[s].status = 0 /\ sess[s].next = "none" /\ (~sess[s].skewed => sess[s].owed = 0)
  BY <1>1 DEF SessionOK
<1>3. sess' = [sess EXCEPT ![s] = do_read(sess[s])] /\ UNCHANGED <<pool, draining>>
  BY Zenon DEF accept
<1> QED BY <1>1, <1>2, <1>3, DoReadOK

\* on_write goes on to the next request of a session.
LEMMA OnWriteOK ==
  ASSUME IInv, NEW s \in Sessions, on_write(s)
  PROVE  IInv'
<1> DEFINE r == [sess[s] EXCEPT !.status = 0]
<1>1. sess[s] \in Session /\ SessionOK(sess[s]) /\ sess[s].pc = "writing"
  BY DEF IInv, on_write
<1>2. r \in Session /\ r.status = 0 /\ r.next = sess[s].next /\ r.conn = sess[s].conn /\ r.owed = sess[s].owed
  BY <1>1 DEF Session
<1>3. r.skewed = sess[s].skewed
  BY <1>1 DEF Session
<1>4. sess' = [sess EXCEPT ![s] = do_read(r)] /\ UNCHANGED <<pool, draining>>
  BY Zenon DEF on_write
<1>5. sess[s].next = "none" /\ (~sess[s].skewed => sess[s].owed = 0)
  BY <1>1 DEF SessionOK
<1> HIDE DEF r
<1> QED BY <1>2, <1>3, <1>4, <1>5, DoReadOK

\* A response is sent.
LEMMA RespondOK ==
  ASSUME IInv, NEW s \in Sessions, NEW r \in Session, NEW status \in Int, NEW unread \in BOOLEAN,
         r.next = "none", r.conn = sess[s].conn, ~r.skewed /\ ~unread => r.owed = 1,
         sess' = [sess EXCEPT ![s] = Responded(r, status, unread)], UNCHANGED <<pool, draining>>
  PROVE  IInv'
<1> DEFINE q == Responded(r, status, unread)
<1>1. q \in Session /\ SessionOK(q) /\ q.conn = sess[s].conn /\ q.next = "none" /\ q.pc = "writing"
  BY RespondedOK
<1> HIDE DEF q
<1> QED BY <1>1, KeepStep DEF q

\* A response is sent because the connection to redis has broken.
LEMMA BreakOK ==
  ASSUME IInv, NEW s \in Sessions, NEW r \in Session, NEW status \in Int, NEW unread \in BOOLEAN,
         r.next = "none", r.conn = sess[s].conn, ~r.skewed /\ ~unread => r.owed = 1,
         Break(s, Responded(r, status, unread))
  PROVE  IInv'
<1> DEFINE q == Responded(r, status, unread)
           broken == [q EXCEPT !.conn = "none"]
<1>1. q \in Session /\ SessionOK(q) /\ q.conn = sess[s].conn /\ q.next = "none" /\ q.pc = "writing"
  BY RespondedOK
<1>2. sess' = [sess EXCEPT ![s] = broken] /\ UNCHANGED <<pool, draining>>
  BY Zenon DEF Break
<1> HIDE DEF q
<1>3. /\ broken \in Session /\ broken.conn = "none" /\ broken.next = "none" /\ broken.pc = "writing" /\ broken.owed = q.owed
  BY <1>1 DEF Session
<1>4. broken.skewed = q.skewed
  BY <1>1 DEF Session
<1> HIDE DEF broken
<1>5. SessionOK(broken)
  BY <1>1, <1>3, <1>4 DEF SessionOK
<1> QED BY <1>2, <1>3, <1>5, KeepStep

\* on_read_header takes up a request, or rejects it.
LEMMA OnReadHeaderOK ==
  ASSUME IInv, NEW s \in Sessions, on_read_header(s)
  PROVE  IInv'
<1>1. PICK op \in Ops, cookie \in BOOLEAN :
        LET r == [sess[s] EXCEPT !.op = op, !.cookie = cookie /\ op # "login", !.owed = @ + 1]
        IN sess' = [sess EXCEPT ![s] =
             IF op = "invalid" THEN Rejected(r)
             ELSE [r EXCEPT !.pc = IF r.cookie THEN "verify" ELSE "body"]]
  BY Zenon DEF on_read_header
<1> DEFINE known == cookie /\ op # "login"
           asked == [sess[s] EXCEPT !.op = op]
           named == [asked EXCEPT !.cookie = known]
           r == [named EXCEPT !.owed = sess[s].owed + 1]
           pc == IF r.cookie THEN "verify" ELSE "body"
           q == [r EXCEPT !.pc = pc]
<1>2. sess[s] \in Session /\ SessionOK(sess[s]) /\ sess[s].pc = "header" /\ UNCHANGED <<pool, draining>>
  BY DEF IInv, on_read_header
<1>3. sess' = [sess EXCEPT ![s] = IF op = "invalid" THEN Rejected(r) ELSE q]
  BY <1>1, Zenon
<1>4. known \in BOOLEAN /\ op \in DOMAIN Early
  BY OpsAssumption
<1> HIDE DEF known
<1>5. asked \in Session /\ asked.next = sess[s].next /\ asked.conn = sess[s].conn /\ asked.status = sess[s].status
  BY <1>2, <1>4 DEF Session
<1>6. asked.skewed = sess[s].skewed
  BY <1>2 DEF Session
<1> HIDE DEF asked
<1>7. named \in Session /\ named.next = sess[s].next /\ named.conn = sess[s].conn /\ named.status = sess[s].status
  BY <1>4, <1>5 DEF Session
<1>8. named.skewed = sess[s].skewed
  BY <1>5, <1>6 DEF Session
<1> HIDE DEF named
<1>9. /\ r \in Session /\ r.next = sess[s].next /\ r.conn = sess[s].conn /\ r.status = sess[s].status
      /\ r.owed = sess[s].owed + 1
  BY <1>2, <1>7 DEF Session
<1>10. r.skewed = sess[s].skewed
  BY <1>7, <1>8 DEF Session
<1> HIDE DEF r
<1>11. sess[s].next = "none" /\ sess[s].status = 0 /\ (~sess[s].skewed => sess[s].owed = 0)
  BY <1>2 DEF SessionOK
<1>12. ~r.skewed => r.owed = 1
  BY <1>9, <1>10, <1>11
<1>13. CASE op = "invalid"
  <2> DEFINE status == 400
             unread == TRUE
  <2>1. sess' = [sess EXCEPT ![s] = Responded(r, status, unread)]
    BY <1>3, <1>13 DEF Rejected
  <2>2. r.next = "none" /\ r.conn = sess[s].conn
    BY <1>9, <1>11
  <2>3. status \in Int /\ unread \in BOOLEAN /\ (~r.skewed /\ ~unread => r.owed = 1)
    OBVIOUS
  <2> HIDE DEF status, unread
  <2>4. r \in Session /\ UNCHANGED <<pool, draining>>
    BY <1>2, <1>9
  <2> QED BY <2>1, <2>2, <2>3, <2>4, RespondOK, Zenon
<1>14. CASE op # "invalid"
  <2>1. sess' = [sess EXCEPT ![s] = q]
    BY <1>3, <1>14
  <2>2. pc \in {"verify", "body"}
    OBVIOUS
  <2> HIDE DEF pc
  <2>3. q \in Session /\ q.pc = pc /\ q.next = "none" /\ q.conn = sess[s].conn /\ q.status = 0 /\ q.owed = r.owed
    BY <1>9, <1>11, <2>2 DEF Session
  <2>4. q.skewed = r.skewed
    BY <1>9 DEF Session
  <2> HIDE DEF q
  <2>5. SessionOK(q)
    BY <1>12, <2>2, <2>3, <2>4 DEF SessionOK
  <2> QED BY <1>2, <2>1, <2>2, <2>3, <2>5, KeepStep
<1> QED BY <1>13, <1>14

\* handle_read_error responds to bytes that are no request.
LEMMA OnGarbageOK ==
  ASSUME IInv, NEW s \in Sessions, on_garbage(s)
  PROVE  IInv'
<1> DEFINE r == [sess[s] EXCEPT !.owed = 1]
<1>1. sess[s] \in Session /\ SessionOK(sess[s]) /\ sess[s].pc = "header" /\ UNCHANGED <<pool, draining>>
  BY DEF IInv, on_garbage
<1>2. PICK unread \in BOOLEAN : sess' = [sess EXCEPT ![s] = Responded(r, 400, unread)]
  BY Zenon DEF on_garbage
<1>3. r \in Session /\ r.owed = 1 /\ r.next = sess[s].next /\ r.conn = sess[s].conn
  BY <1>1 DEF Session
<1>4. r.next = "none" /\ 400 \in Int
  BY <1>1, <1>3 DEF SessionOK
<1> HIDE DEF r
<1> DEFINE q == Responded(r, 400, unread)
<1>5. q \in Session /\ SessionOK(q) /\ q.conn = r.conn /\ q.next = "none" /\ q.pc = "writing"
  <2>1. ~r.skewed /\ ~unread => r.owed = 1
    BY <1>3
  <2> QED BY <1>3, <1>4, <2>1, RespondedOK
<1>6. sess' = [sess EXCEPT ![s] = q]
  BY <1>2
<1> HIDE DEF q
<1> QED BY <1>1, <1>3, <1>5, <1>6, KeepStep

\* A session that only goes to another step of its request, or notes that redis has
\* executed its command.
LEMMA GoOK ==
  ASSUME IInv, NEW s \in Sessions, NEW pc \in {"body", "command"}, NEW done \in {"none", "ok", "absent"},
         NEW cookie \in BOOLEAN, sess[s].pc \in {"verify", "body", "command"},
         pc = "command" => sess[s].op \in DOMAIN Status,
         \/ sess' = [sess EXCEPT ![s] = [sess[s] EXCEPT !.pc = pc]]
         \/ sess' = [sess EXCEPT ![s] = [sess[s] EXCEPT !.pc = pc, !.cookie = cookie]]
         \/ pc = sess[s].pc /\ sess' = [sess EXCEPT ![s] = [sess[s] EXCEPT !.done = done]],
         UNCHANGED <<pool, draining>>
  PROVE  IInv'
<1> DEFINE went == [sess[s] EXCEPT !.pc = pc]
           read == [went EXCEPT !.cookie = cookie]
           did == [sess[s] EXCEPT !.done = done]
<1>0. \/ sess' = [sess EXCEPT ![s] = went] \/ sess' = [sess EXCEPT ![s] = read]
      \/ pc = sess[s].pc /\ sess' = [sess EXCEPT ![s] = did]
  BY Zenon
<1>1. sess[s] \in Session /\ SessionOK(sess[s])
  BY DEF IInv
<1>2. /\ went \in Session /\ went.pc = pc /\ went.next = sess[s].next /\ went.conn = sess[s].conn
      /\ went.status = sess[s].status /\ went.owed = sess[s].owed /\ went.op = sess[s].op
  BY <1>1 DEF Session
<1>3. went.skewed = sess[s].skewed
  BY <1>1 DEF Session
<1>4. /\ did \in Session /\ did.pc = sess[s].pc /\ did.next = sess[s].next /\ did.conn = sess[s].conn
      /\ did.status = sess[s].status /\ did.owed = sess[s].owed /\ did.op = sess[s].op
  BY <1>1 DEF Session
<1>5. did.skewed = sess[s].skewed
  BY <1>1 DEF Session
<1> HIDE DEF went, did
<1>6. /\ read \in Session /\ read.pc = pc /\ read.next = sess[s].next /\ read.conn = sess[s].conn
      /\ read.status = sess[s].status /\ read.owed = sess[s].owed /\ read.op = sess[s].op
  BY <1>2 DEF Session
<1>7. read.skewed = sess[s].skewed
  BY <1>2, <1>3 DEF Session
<1> HIDE DEF read
<1>8. /\ sess[s].next = "none" /\ sess[s].status = 0 /\ (~sess[s].skewed => sess[s].owed = 1)
  BY <1>1 DEF SessionOK
<1>9. SessionOK(went) /\ SessionOK(read)
  BY <1>2, <1>3, <1>6, <1>7, <1>8 DEF SessionOK
<1>10. pc = sess[s].pc => SessionOK(did)
  BY <1>4, <1>5, <1>8 DEF SessionOK
<1> QED BY <1>0, <1>2, <1>4, <1>6, <1>8, <1>9, <1>10, KeepStep

\* A session with a request owes a response, unless it was answered too often.
LEMMA Asked ==
  ASSUME IInv, NEW s \in Sessions, sess[s].pc \in {"verify", "body", "command"}
  PROVE  sess[s] \in Session /\ sess[s].next = "none" /\ (~sess[s].skewed => sess[s].owed = 1)
BY DEF IInv, SessionOK

\* Such a session responds, because its connection has broken or otherwise.
LEMMA AnswerOK ==
  ASSUME IInv, NEW s \in Sessions, sess[s].pc \in {"verify", "body", "command"}, NEW status \in Int, NEW unread \in BOOLEAN,
         \/ sess' = [sess EXCEPT ![s] = Responded(sess[s], status, unread)] /\ UNCHANGED <<pool, draining>>
         \/ Break(s, Responded(sess[s], status, unread))
  PROVE  IInv'
<1>1. sess[s] \in Session /\ sess[s].next = "none" /\ (~sess[s].skewed => sess[s].owed = 1)
  BY Asked
<1>2. ~sess[s].skewed /\ ~unread => sess[s].owed = 1
  BY <1>1
<1>3. CASE sess' = [sess EXCEPT ![s] = Responded(sess[s], status, unread)] /\ UNCHANGED <<pool, draining>>
  BY <1>1, <1>2, <1>3, RespondOK
<1>4. CASE Break(s, Responded(sess[s], status, unread))
  BY <1>1, <1>2, <1>4, BreakOK
<1> QED BY <1>3, <1>4

\* verify_session has completed.
LEMMA OnVerifiedOK ==
  ASSUME IInv, NEW s \in Sessions, on_verified(s)
  PROVE  IInv'
<1> DEFINE status == 500
<1>1. sess[s].pc \in {"verify", "body", "command"} /\ status \in Int /\ HasBody(sess[s].op) \in BOOLEAN
  BY DEF on_verified, HasBody
<1>3. CASE sess' = [sess EXCEPT ![s].pc = "body"] /\ UNCHANGED <<pool, draining, up>>
  <2>1. sess' = [sess EXCEPT ![s] = [sess[s] EXCEPT !.pc = "body"]]
    BY <1>3, Zenon
  <2> QED BY <1>1, <1>3, <2>1, GoOK
<1>4. CASE sess' = [sess EXCEPT ![s] = Responded(@, 500, TRUE)] /\ UNCHANGED <<pool, draining, up>>
  <2>1. sess' = [sess EXCEPT ![s] = Responded(sess[s], status, TRUE)] /\ UNCHANGED <<pool, draining>>
    BY <1>4, Zenon
  <2> HIDE DEF status
  <2> QED BY <1>1, <2>1, AnswerOK, Zenon
<1>5. CASE Break(s, Responded(sess[s], 500, HasBody(sess[s].op)))
  <2>1. Break(s, Responded(sess[s], status, HasBody(sess[s].op)))
    BY <1>5
  <2> HIDE DEF status
  <2> QED BY <1>1, <2>1, AnswerOK, Zenon
<1> QED BY <1>3, <1>4, <1>5, Zenon DEF on_verified

\* on_read answers, or sends a command.
LEMMA OnReadOK ==
  ASSUME IInv, NEW s \in Sessions, on_read(s)
  PROVE  IInv'
<1> DEFINE bad == 400
<1>1. sess[s].pc = "body" /\ sess[s].pc \in {"verify", "body", "command"} /\ bad \in Int /\ UNCHANGED <<pool, draining>>
  BY DEF on_read
<1>3. CASE sess' = [sess EXCEPT ![s] = Responded(@, 400, TRUE)]
  <2>1. sess' = [sess EXCEPT ![s] = Responded(sess[s], bad, TRUE)]
    BY <1>3, Zenon
  <2> HIDE DEF bad
  <2> QED BY <1>1, <2>1, AnswerOK, Zenon
<1>4. CASE \E status \in Early[sess[s].op] : sess' = [sess EXCEPT ![s] = Responded(@, status, FALSE)]
  <2>1. PICK status \in Early[sess[s].op] : sess' = [sess EXCEPT ![s] = Responded(sess[s], status, FALSE)]
    BY <1>4, Zenon
  <2>2. sess[s].op \in DOMAIN Early
    BY DEF IInv, Session
  <2>3. Early[sess[s].op] \subseteq Int
    BY <2>2 DEF Early
  <2>4. status \in Int
    BY <2>3
  <2> QED BY <1>1, <2>1, <2>4, AnswerOK, Zenon
<1>5. CASE sess[s].op \in DOMAIN Status /\ sess' = [sess EXCEPT ![s].pc = "command", ![s].cookie = FALSE]
  <2>1. sess \in [Sessions -> Session]
    BY DEF IInv
  <2>2. ASSUME NEW cookie PROVE [sess EXCEPT ![s].pc = "command", ![s].cookie = cookie]
                                 = [sess EXCEPT ![s] = [sess[s] EXCEPT !.pc = "command", !.cookie = cookie]]
    BY <2>1
  <2>3. sess' = [sess EXCEPT ![s] = [sess[s] EXCEPT !.pc = "command", !.cookie = FALSE]]
    BY <1>5, <2>2, Zenon
  <2> QED BY <1>1, <1>5, <2>3, GoOK, Zenon
<1> QED BY <1>3, <1>4, <1>5, Zenon DEF on_read

\* Redis executes the command of a session.
LEMMA ExecuteOK ==
  ASSUME IInv, NEW s \in Sessions, execute(s)
  PROVE  IInv'
<1>1. sess[s].pc = "command" /\ UNCHANGED <<pool, draining>>
  BY DEF execute
<1>2. PICK done \in {"ok", "absent"} : sess' = [sess EXCEPT ![s] = [sess[s] EXCEPT !.done = done]]
  BY Zenon DEF execute
<1>3. sess[s].op \in DOMAIN Status
  BY <1>1 DEF IInv, SessionOK
<1> QED BY <1>1, <1>2, <1>3, GoOK

\* The classes of the responses.
LEMMA StatusType ==
  ASSUME NEW op \in DOMAIN Status
  PROVE  /\ \A done \in {"ok", "absent"} : Status[op][done] \in Int
         /\ Status[op].error \in Int
BY DEF Status

\* on_reply answers as the command went.
LEMMA OnReplyOK ==
  ASSUME IInv, NEW s \in Sessions, on_reply(s)
  PROVE  IInv'
<1> DEFINE reply == Status[sess[s].op][sess[s].done]
           error == Status[sess[s].op].error
<1>1. sess[s].pc = "command" /\ sess[s].pc \in {"verify", "body", "command"}
  BY DEF on_reply
<1>3. sess[s].op \in DOMAIN Status /\ sess[s].done \in {"none", "ok", "absent"}
  BY <1>1 DEF IInv, SessionOK, Session
<1>4. error \in Int /\ (sess[s].done # "none" => reply \in Int)
  BY <1>3, StatusType
<1>5. CASE sess[s].done # "none" /\ sess' = [sess EXCEPT ![s] = Responded(@, reply, FALSE)] /\ UNCHANGED <<pool, draining, up>>
  <2>1. sess' = [sess EXCEPT ![s] = Responded(sess[s], reply, FALSE)] /\ UNCHANGED <<pool, draining>>
    BY <1>5, Zenon
  <2> HIDE DEF reply
  <2> QED BY <1>1, <1>4, <1>5, <2>1, AnswerOK, Zenon
<1>6. CASE Break(s, Responded(sess[s], error, FALSE))
  <2> HIDE DEF error
  <2> QED BY <1>1, <1>4, <1>6, AnswerOK, Zenon
<1> QED BY <1>5, <1>6, Zenon DEF on_reply

-----------------------------------------------------------------------------
(* The pool *)

\* Taking the last socket of the pool leaves one less.
LEMMA PopType ==
  ASSUME NEW p \in Seq(Sockets), p # <<>>
  PROVE  /\ Len(p) \in Nat /\ p[Len(p)] \in Sockets
         /\ AfterPop(p) \in Seq(Sockets) /\ Len(AfterPop(p)) = Len(p) - 1
<1>1. Len(p) \in Nat /\ Len(p) # 0 /\ p[Len(p)] \in Sockets
  OBVIOUS
<1>2. Len(p) - 1 \in Nat /\ Len(p) - 1 < Len(p)
  BY <1>1
<1>3. SubSeq(p, 1, Len(p) - 1) \in Seq(Sockets)
  BY <1>1, <1>2
<1>4. Len(SubSeq(p, 1, Len(p) - 1)) = Len(p) - 1
  <2>1. ASSUME NEW n \in Nat, n < Len(p) PROVE Len(SubSeq(p, 1, n)) = n
    BY <2>1
  <2> QED BY <1>2, <2>1
<1> QED BY <1>1, <1>3, <1>4 DEF AfterPop

\* The session s is ready for its next handler, with a socket that it has.
LEMMA ReadyType ==
  ASSUME IInv, NEW s \in Sessions, sess[s].pc \in {"pop", "connect"}, NEW sock \in Sockets
  PROVE  LET q == [sess[s] EXCEPT !.pc = "emplace", !.next = sock]
         IN q \in Session /\ SessionOK(q) /\ q.conn = sess[s].conn /\ q.next = sock /\ q.pc = "emplace"
<1> DEFINE ready == [sess[s] EXCEPT !.pc = "emplace"]
           q == [ready EXCEPT !.next = sock]
<1>1. sess[s] \in Session /\ SessionOK(sess[s])
  BY DEF IInv
<1>2. sess[s].status = 0 /\ (~sess[s].skewed => sess[s].owed = 0)
  BY <1>1 DEF SessionOK
<1>3. ready \in Session /\ ready.pc = "emplace" /\ ready.conn = sess[s].conn /\ ready.status = 0 /\ ready.owed = sess[s].owed
  BY <1>1, <1>2 DEF Session
<1>4. ready.skewed = sess[s].skewed
  BY <1>1 DEF Session
<1> HIDE DEF ready
<1>5. /\ q \in Session /\ q.pc = "emplace" /\ q.conn = sess[s].conn /\ q.status = 0 /\ q.owed = sess[s].owed
      /\ q.next = sock
  BY <1>3 DEF Session
<1>6. q.skewed = sess[s].skewed
  BY <1>3, <1>4 DEF Session
<1> HIDE DEF q
<1>7. SessionOK(q)
  BY <1>2, <1>5, <1>6 DEF SessionOK
<1> QED BY <1>5, <1>7, Zenon DEF q, ready

\* get_sock takes a socket from the pool, or finds it empty.
LEMMA GetSockOK ==
  ASSUME IInv, NEW s \in Sessions, get_sock(s)
  PROVE  IInv'
<1> DEFINE sock == pool[Len(pool)]
           q == [sess[s] EXCEPT !.pc = "emplace", !.next = sock]
           opening == [sess[s] EXCEPT !.pc = "connect"]
<1>1. sess \in [Sessions -> Session] /\ sess[s] \in Session /\ SessionOK(sess[s]) /\ sess[s].pc = "pop" /\ pool \in Seq(Sockets)
  BY DEF IInv, get_sock
<1>2. CASE pool = <<>>
  <2>1. sess' = [sess EXCEPT ![s] = opening] /\ UNCHANGED <<pool, draining>>
    BY <1>2, Zenon DEF get_sock
  <2>2. opening \in Session /\ opening.pc = "connect" /\ opening.next = sess[s].next /\ opening.status = sess[s].status /\ opening.owed = sess[s].owed
    BY <1>1 DEF Session
  <2>3. opening.skewed = sess[s].skewed
    BY <1>1 DEF Session
  <2> HIDE DEF opening
  <2>4. SessionOK(opening)
    BY <1>1, <2>2, <2>3 DEF SessionOK
  <2> QED BY <1>2, <2>1, <2>2, <2>4, EmptyPoolStep
<1>3. CASE pool # <<>>
  <2>1. sess' = [sess EXCEPT ![s].pc = "emplace", ![s].next = sock] /\ pool' = AfterPop(pool) /\ UNCHANGED draining
    BY <1>3, Zenon DEF get_sock
  <2>2. sock \in Sockets /\ pool' \in Seq(Sockets) /\ Len(pool) \in Nat /\ Len(pool') = Len(pool) - 1
    BY <1>1, <1>3, <2>1, PopType
  <2> HIDE DEF sock
  <2>3. sess' = [sess EXCEPT ![s] = q]
    <3>1. [sess EXCEPT ![s].pc = "emplace", ![s].next = sock]
          = [sess EXCEPT ![s] = [sess[s] EXCEPT !.pc = "emplace", !.next = sock]]
      BY <1>1
    <3> QED BY <2>1, <3>1, Zenon
  <2>4. q \in Session /\ SessionOK(q) /\ q.conn = sess[s].conn /\ q.next = sock /\ q.pc = "emplace"
    BY <1>1, <2>2, ReadyType, Zenon
  <2> HIDE DEF q
  <2>5. \A t \in Sessions : sess'[t] = IF t = s THEN q ELSE sess[t]
    BY <1>1, <2>3
  <2>6. "next" \in Places /\ \A k \in Places : Claims(q, k) => Claims(sess[s], k) \/ k = "next"
    BY <2>4 DEF Claims, Places
  <2>7. \A t \in Sessions : \A k \in Places : Claims(sess'[t], k) => Claims(sess[t], k) \/ (t = s /\ k = "next")
    BY <2>5, <2>6
  <2>8. Cardinality(Claimed(sess')) <= Cardinality(Claimed(sess)) + 1
    BY <2>6, <2>7, ClaimsOneMore
  <2>9. Cardinality(Claimed(sess')) \in Nat /\ Cardinality(Claimed(sess)) \in Nat /\ Bound \in Int
    BY PlacesBound, HttpAssumption DEF Bound
  <2>10. /\ draining \in Seq(Sockets) /\ Len(draining) <= MaxDraining /\ Len(draining) \in Nat
         /\ Len(pool) + Len(draining) + Cardinality(Claimed(sess)) <= Bound
    BY DEF IInv
  <2>11. Len(pool') + Len(draining') + Cardinality(Claimed(sess')) <= Bound
    BY <2>1, <2>2, <2>8, <2>9, <2>10
  <2> QED BY <2>1, <2>2, <2>3, <2>4, <2>10, <2>11, SessionStep
<1> QED BY <1>2, <1>3

\* connect opens the socket that was counted when the pool was found empty, or ends
\* the server.
LEMMA ConnectOK ==
  ASSUME IInv, NEW s \in Sessions, connect(s)
  PROVE  IInv'
<1> DEFINE q == [sess[s] EXCEPT !.pc = "emplace", !.next = "open"]
<1>1. sess \in [Sessions -> Session] /\ sess[s] \in Session /\ sess[s].pc = "connect"
  BY DEF IInv, connect
<1>2. CASE sess' = [sess EXCEPT ![s].pc = "emplace", ![s].next = "open"] /\ UNCHANGED <<pool, draining, up>>
  <2>1. sess' = [sess EXCEPT ![s] = q]
    <3>1. ASSUME NEW sock
          PROVE  [sess EXCEPT ![s].pc = "emplace", ![s].next = sock]
                 = [sess EXCEPT ![s] = [sess[s] EXCEPT !.pc = "emplace", !.next = sock]]
      BY <1>1
    <3> QED BY <1>2, <3>1, Zenon
  <2>2. "open" \in Sockets
    BY DEF Sockets
  <2>3. q \in Session /\ SessionOK(q) /\ q.conn = sess[s].conn
    BY <1>1, <2>2, ReadyType, Zenon
  <2> HIDE DEF q
  <2>4. \A p \in Places : Claims(q, p) => Claims(sess[s], p)
    BY <1>1, <2>3 DEF Claims, Places
  <2> QED BY <1>2, <2>1, <2>3, <2>4, QuietStep
<1>3. CASE sess' = [t \in Sessions |-> Ended] /\ pool' = <<>> /\ draining' = <<>>
  <2>1. sess' \in [Sessions -> Session] /\ \A t \in Sessions : SessionOK(sess'[t])
    BY <1>3, EndedOK
  <2>2. pool' \in Seq(Sockets) /\ draining' \in Seq(Sockets) /\ Len(pool') = 0 /\ Len(draining') = 0
    BY <1>3
  <2>3. /\ Cardinality(Claimed(sess')) \in Nat /\ Cardinality(Sessions) \in Nat
        /\ Cardinality(Claimed(sess')) <= 2 * Cardinality(Sessions)
    BY PlacesBound
  <2>4. Len(pool') + Len(draining') + Cardinality(Claimed(sess')) <= Bound /\ Len(draining') <= MaxDraining
    BY <2>2, <2>3, HttpAssumption DEF Bound
  <2> QED BY <2>1, <2>2, <2>4 DEF IInv
<1> QED BY <1>2, <1>3, Zenon DEF connect

\* A socket that is released is in the pool, or drains.
LEMMA ReleaseType ==
  ASSUME IInv, NEW s \in Sessions, Release(s)
  PROVE  /\ pool' \in Seq(Sockets) /\ draining' \in Seq(Sockets) /\ Len(draining') <= MaxDraining
         /\ Len(pool) \in Nat /\ Len(draining) \in Nat
         /\ Len(pool') + Len(draining')
            = Len(pool) + Len(draining) + (IF sess[s].conn = "none" THEN 0 ELSE 1)
<1> DEFINE sock == sess[s].conn
<1>1. /\ pool \in Seq(Sockets) /\ draining \in Seq(Sockets) /\ Len(draining) <= MaxDraining
      /\ sock \in Sockets \union {"none"}
  BY DEF IInv, Session
<1>2. Len(pool) \in Nat /\ Len(draining) \in Nat /\ MaxDraining \in Nat
  BY <1>1, HttpAssumption
<1>3. \/ sock # "none" /\ pool' = Append(pool, sock) /\ UNCHANGED draining
      \/ /\ sock # "none" /\ Len(draining) < MaxDraining
         /\ draining' = Append(draining, sock)
         /\ UNCHANGED pool
      \/ sock = "none" /\ UNCHANGED <<pool, draining>>
  BY Zenon DEF Release
<1> HIDE DEF sock
<1>4. ASSUME NEW p \in Seq(Sockets), sock # "none"
      PROVE  Append(p, sock) \in Seq(Sockets) /\ Len(Append(p, sock)) = Len(p) + 1
  BY <1>1, <1>4
<1>5. CASE sock # "none" /\ pool' = Append(pool, sock) /\ UNCHANGED draining
  <2>1. pool' \in Seq(Sockets) /\ Len(pool') = Len(pool) + 1
    BY <1>1, <1>4, <1>5
  <2> QED BY <1>1, <1>2, <1>5, <2>1 DEF sock
<1>6. CASE sock # "none" /\ Len(draining) < MaxDraining /\ draining' = Append(draining, sock) /\ UNCHANGED pool
  <2>1. draining' \in Seq(Sockets) /\ Len(draining') = Len(draining) + 1
    BY <1>1, <1>4, <1>6
  <2> QED BY <1>1, <1>2, <1>6, <2>1 DEF sock
<1>7. CASE sock = "none" /\ UNCHANGED <<pool, draining>>
  BY <1>1, <1>2, <1>7 DEF sock
<1> QED BY <1>3, <1>5, <1>6, <1>7

\* The session ends, and its socket is released.
LEMMA EndOK ==
  ASSUME IInv, NEW s \in Sessions, end(s)
  PROVE  IInv'
<1>1. Release(s) /\ sess' = [sess EXCEPT ![s] = Ended] /\ sess \in [Sessions -> Session]
  BY DEF end, IInv
<1>2. \A t \in Sessions : sess'[t] = IF t = s THEN Ended ELSE sess[t]
  BY <1>1
<1>3. \A t \in Sessions : \A p \in Places : Claims(sess'[t], p) => Claims(sess[t], p)
  BY <1>2, EndedOK
<1>4. Cardinality(Claimed(sess')) <= Cardinality(Claimed(sess))
  BY <1>3, ClaimsLess
<1>5. sess[s].conn # "none" => Cardinality(Claimed(sess')) + 1 <= Cardinality(Claimed(sess))
  <2>1. SUFFICES ASSUME sess[s].conn # "none" PROVE Cardinality(Claimed(sess')) + 1 <= Cardinality(Claimed(sess))
    OBVIOUS
  <2>2. "conn" \in Places /\ Claims(sess[s], "conn")
    BY <1>1, <2>1 DEF Places, Claims, Session
  <2>3. ~Claims(sess'[s], "conn")
    BY <1>2, <2>2, EndedOK
  <2> QED BY <1>3, <2>2, <2>3, ClaimsOneLess
<1>6. Cardinality(Claimed(sess')) \in Nat /\ Cardinality(Claimed(sess)) \in Nat /\ Bound \in Int
  BY PlacesBound, HttpAssumption DEF Bound
<1>7. Len(pool) + Len(draining) + Cardinality(Claimed(sess)) <= Bound
  BY DEF IInv
<1>8. /\ pool' \in Seq(Sockets) /\ draining' \in Seq(Sockets) /\ Len(draining') <= MaxDraining
      /\ Len(pool) \in Nat /\ Len(draining) \in Nat
      /\ Len(pool') + Len(draining') = Len(pool) + Len(draining) + (IF sess[s].conn = "none" THEN 0 ELSE 1)
  BY <1>1, ReleaseType
<1>9. Len(pool') + Len(draining') + Cardinality(Claimed(sess')) <= Bound
  BY <1>4, <1>5, <1>6, <1>7, <1>8, SMTT(30)
<1> QED BY <1>1, <1>8, <1>9, EndedOK, SessionStep

\* The previous handler gives its socket back when the next one is made.
LEMMA EmplaceOK ==
  ASSUME IInv, NEW s \in Sessions, emplace(s)
  PROVE  IInv'
<1> DEFINE sock == sess[s].next
           headed == [sess[s] EXCEPT !.pc = "header"]
           joined == [headed EXCEPT !.conn = sock]
           bare == [joined EXCEPT !.next = "none"]
           q == [bare EXCEPT !.op = "static"]
           without == [sess EXCEPT ![s] = Ended]
<1>1. /\ sess \in [Sessions -> Session] /\ sess[s] \in Session /\ SessionOK(sess[s]) /\ sess[s].pc = "emplace"
      /\ Release(s)
  BY DEF IInv, emplace
<1>2. /\ sock \in Sockets /\ sess[s].status = 0 /\ (~sess[s].skewed => sess[s].owed = 0)
      /\ sess[s].conn \in Sockets \union {"none"}
  BY <1>1 DEF SessionOK, Session
<1>3. sess' = [sess EXCEPT ![s] = q]
  <2>1. ASSUME NEW x
        PROVE  [sess EXCEPT ![s].pc = "header", ![s].conn = x, ![s].next = "none", ![s].op = "static"]
               = [sess EXCEPT ![s] = [sess[s] EXCEPT !.pc = "header", !.conn = x, !.next = "none", !.op = "static"]]
    BY <1>1
  <2> QED BY <2>1, Zenon DEF emplace
<1>4. /\ q \in Session /\ q.pc = "header" /\ q.conn = sock /\ q.next = "none" /\ q.status = 0
      /\ q.owed = sess[s].owed /\ q.skewed = sess[s].skewed
  <2> HIDE DEF sock
  <2>1. headed \in Session /\ headed.pc = "header" /\ headed.status = 0 /\ headed.owed = sess[s].owed
    BY <1>1, <1>2 DEF Session
  <2>2. headed.skewed = sess[s].skewed
    BY <1>1 DEF Session
  <2> HIDE DEF headed
  <2>3. joined \in Session /\ joined.pc = "header" /\ joined.conn = sock /\ joined.status = 0 /\ joined.owed = sess[s].owed
    BY <1>2, <2>1 DEF Session
  <2>4. joined.skewed = sess[s].skewed
    BY <2>1, <2>2 DEF Session
  <2> HIDE DEF joined
  <2>5. bare \in Session /\ bare.pc = "header" /\ bare.conn = sock /\ bare.next = "none" /\ bare.status = 0 /\ bare.owed = sess[s].owed
    BY <2>3 DEF Session
  <2>6. bare.skewed = sess[s].skewed
    BY <2>3, <2>4 DEF Session
  <2> HIDE DEF bare
  <2>7. "static" \in DOMAIN Early
    BY DEF Early
  <2>8. q \in Session /\ q.pc = "header" /\ q.conn = sock /\ q.next = "none" /\ q.status = 0 /\ q.owed = sess[s].owed
    BY <2>5, <2>7 DEF Session
  <2>9. q.skewed = sess[s].skewed
    BY <2>5, <2>6 DEF Session
  <2> QED BY <2>8, <2>9
<1> HIDE DEF sock, q
<1>5. SessionOK(q)
  BY <1>2, <1>4 DEF SessionOK
<1>6. \A t \in Sessions : sess'[t] = IF t = s THEN q ELSE sess[t]
  BY <1>1, <1>3
<1>7. /\ "conn" \in Places /\ "next" \in Places /\ Claims(sess[s], "next") /\ ~Claims(q, "next")
      /\ \A k \in Places : Claims(q, k) => k = "conn"
      /\ sess[s].conn # "none" => Claims(sess[s], "conn")
  BY <1>2, <1>4 DEF Claims, Places, Sockets, sock
<1>8. Cardinality(Claimed(sess')) \in Nat /\ Cardinality(Claimed(sess)) \in Nat /\ Bound \in Int
  BY PlacesBound, HttpAssumption DEF Bound
<1>9. Cardinality(Claimed(sess')) + (IF sess[s].conn = "none" THEN 0 ELSE 1) <= Cardinality(Claimed(sess))
  <2>1. CASE sess[s].conn # "none"
    <3>1. \A t \in Sessions : \A k \in Places : Claims(sess'[t], k) => Claims(sess[t], k)
      BY <1>6, <1>7, <2>1
    <3>2. ~Claims(sess'[s], "next")
      BY <1>6, <1>7
    <3>3. Cardinality(Claimed(sess')) + 1 <= Cardinality(Claimed(sess))
      BY <1>7, <3>1, <3>2, ClaimsOneLess
    <3> QED BY <2>1, <3>3
  <2>2. CASE sess[s].conn = "none"
    <3>1. \A t \in Sessions : without[t] = IF t = s THEN Ended ELSE sess[t]
      BY <1>1
    <3> HIDE DEF without
    <3>2. ~Claims(without[s], "next") /\ \A t \in Sessions : \A k \in Places : Claims(without[t], k) => Claims(sess[t], k)
      BY <1>7, <3>1, EndedOK
    <3>3. Cardinality(Claimed(without)) + 1 <= Cardinality(Claimed(sess))
      BY <1>7, <3>2, ClaimsOneLess
    <3>4. \A t \in Sessions : \A k \in Places : Claims(sess'[t], k) => Claims(without[t], k) \/ (t = s /\ k = "conn")
      BY <1>6, <1>7, <3>1
    <3>5. Cardinality(Claimed(sess')) <= Cardinality(Claimed(without)) + 1
      BY <1>7, <3>4, ClaimsOneMore
    <3>6. Cardinality(Claimed(without)) \in Nat
      BY PlacesBound
    <3> QED BY <1>8, <2>2, <3>3, <3>5, <3>6
  <2> QED BY <2>1, <2>2
<1>10. Len(pool) + Len(draining) + Cardinality(Claimed(sess)) <= Bound
  BY DEF IInv
<1>11. /\ pool' \in Seq(Sockets) /\ draining' \in Seq(Sockets) /\ Len(draining') <= MaxDraining
       /\ Len(pool) \in Nat /\ Len(draining) \in Nat
       /\ Len(pool') + Len(draining') = Len(pool) + Len(draining) + (IF sess[s].conn = "none" THEN 0 ELSE 1)
  BY <1>1, ReleaseType
<1>12. Len(pool') + Len(draining') + Cardinality(Claimed(sess')) <= Bound
  BY <1>8, <1>9, <1>10, <1>11, SMTT(30)
<1> QED BY <1>3, <1>4, <1>5, <1>11, <1>12, SessionStep

\* A connection without a handler has done its work.
LEMMA DrainOK ==
  ASSUME IInv, drain
  PROVE  IInv'
<1>1. /\ pool \in Seq(Sockets) /\ draining \in Seq(Sockets) /\ Len(draining) <= MaxDraining /\ draining # <<>>
      /\ draining' = Tail(draining) /\ sess' = sess
      /\ pool' = pool \/ pool' = Append(pool, Head(draining))
  BY DEF IInv, drain
<1>2. /\ Head(draining) \in Sockets /\ Tail(draining) \in Seq(Sockets) /\ Len(Tail(draining)) = Len(draining) - 1
      /\ Len(draining) \in Nat /\ Len(pool) \in Nat
  BY <1>1
<1>3. pool' \in Seq(Sockets) /\ Len(pool') \in Nat /\ Len(pool') <= Len(pool) + 1
  BY <1>1, <1>2, SMTT(30)
<1>4. Cardinality(Claimed(sess)) \in Nat /\ Bound \in Int /\ MaxDraining \in Nat
  BY PlacesBound, HttpAssumption DEF Bound
<1>5. Len(pool) + Len(draining) + Cardinality(Claimed(sess)) <= Bound
  BY DEF IInv
<1>6. Len(pool') + Len(draining') + Cardinality(Claimed(sess)) <= Bound /\ Len(draining') <= MaxDraining
  BY <1>1, <1>2, <1>3, <1>4, <1>5
<1>7. sess \in [Sessions -> Session] /\ \A s \in Sessions : SessionOK(sess[s])
  BY DEF IInv
<1> QED BY <1>1, <1>2, <1>3, <1>6, <1>7 DEF IInv

\* When redis ends its sockets turn stale, where they are.
LEMMA RedisDownOK ==
  ASSUME IInv, redis_down
  PROVE  IInv'
<1> DEFINE turned(sock) == IF sock = "none" THEN "none" ELSE "stale"
           cut(r) == [r EXCEPT !.conn = turned(r.conn)]
           q(r) == [cut(r) EXCEPT !.next = turned(r.next)]
<1>0. /\ pool \in Seq(Sockets) /\ draining \in Seq(Sockets) /\ Len(draining) <= MaxDraining
      /\ sess \in [Sessions -> Session] /\ \A s \in Sessions : SessionOK(sess[s])
      /\ Len(pool) + Len(draining) + Cardinality(Claimed(sess)) <= Bound
  BY DEF IInv
<1>1. ASSUME NEW p \in Seq(Sockets)
      PROVE  [i \in DOMAIN p |-> "stale"] \in Seq(Sockets) /\ Len([i \in DOMAIN p |-> "stale"]) = Len(p)
  BY SMTT(30) DEF Sockets
<1>2. pool' \in Seq(Sockets) /\ Len(pool') = Len(pool) /\ draining' \in Seq(Sockets) /\ Len(draining') = Len(draining)
  BY <1>0, <1>1 DEF redis_down
<1>3. sess' = [s \in Sessions |-> q(sess[s])]
  BY Zenon DEF redis_down
<1>4. ASSUME NEW r \in Session, SessionOK(r)
      PROVE  q(r) \in Session /\ SessionOK(q(r)) /\ \A p \in Places : Claims(q(r), p) => Claims(r, p)
  <2>1. turned(r.conn) \in Sockets \union {"none"} /\ turned(r.next) \in Sockets \union {"none"}
    BY DEF Sockets
  <2>2. /\ turned(r.conn) \in Sockets => r.conn \in Sockets
        /\ turned(r.next) \in Sockets <=> r.next \in Sockets
        /\ turned(r.next) = "none" <=> r.next = "none"
    BY DEF Sockets, Session
  <2> HIDE DEF turned
  <2> DEFINE mid == cut(r)
             q2 == [mid EXCEPT !.next = turned(r.next)]
  <2>3. /\ mid \in Session /\ mid.conn = turned(r.conn) /\ mid.pc = r.pc /\ mid.status = r.status /\ mid.owed = r.owed
        /\ mid.op = r.op
    BY <2>1 DEF Session
  <2>4. mid.skewed = r.skewed
    BY DEF Session
  <2> HIDE DEF mid
  <2>5. /\ q2 \in Session /\ q2.conn = turned(r.conn) /\ q2.next = turned(r.next) /\ q2.pc = r.pc /\ q2.status = r.status
        /\ q2.owed = r.owed /\ q2.op = r.op
    BY <2>1, <2>3 DEF Session
  <2>6. q2.skewed = r.skewed
    BY <2>3, <2>4 DEF Session
  <2> HIDE DEF q2
  <2>7. SessionOK(q2)
    BY <1>4, <2>2, <2>5, <2>6 DEF SessionOK
  <2>8. \A p \in Places : Claims(q2, p) => Claims(r, p)
    BY <2>2, <2>5 DEF Claims, Places
  <2> QED BY <2>5, <2>7, <2>8, Zenon DEF q2, mid
<1> HIDE DEF q
<1>5. sess' \in [Sessions -> Session] /\ \A s \in Sessions : SessionOK(sess'[s])
  BY <1>0, <1>3, <1>4
<1>6. \A s \in Sessions : \A p \in Places : Claims(sess'[s], p) => Claims(sess[s], p)
  BY <1>0, <1>3, <1>4
<1>7. Cardinality(Claimed(sess')) <= Cardinality(Claimed(sess))
  BY <1>6, ClaimsLess
<1>8. /\ Cardinality(Claimed(sess')) \in Nat /\ Cardinality(Claimed(sess)) \in Nat /\ Bound \in Int
      /\ Len(pool) \in Nat /\ Len(draining) \in Nat
  BY <1>0, PlacesBound, HttpAssumption DEF Bound
<1>9. Len(pool') + Len(draining') + Cardinality(Claimed(sess')) <= Bound /\ Len(draining') <= MaxDraining
  BY <1>0, <1>2, <1>7, <1>8
<1> QED BY <1>2, <1>5, <1>9 DEF IInv

-----------------------------------------------------------------------------
(* The theorems *)

\* No session has a socket at the start.
LEMMA InitEstablishes == Init => IInv
<1> SUFFICES ASSUME Init PROVE IInv
  OBVIOUS
<1>1. sess \in [Sessions -> Session] /\ \A s \in Sessions : SessionOK(sess[s])
  BY EndedOK DEF Init
<1>2. pool \in Seq(Sockets) /\ draining \in Seq(Sockets) /\ Len(pool) = 0 /\ Len(draining) = 0
  BY DEF Init
<1>3. /\ Cardinality(Claimed(sess)) \in Nat /\ Cardinality(Sessions) \in Nat
      /\ Cardinality(Claimed(sess)) <= 2 * Cardinality(Sessions)
  BY PlacesBound
<1>4. Len(pool) + Len(draining) + Cardinality(Claimed(sess)) <= Bound /\ Len(draining) <= MaxDraining
  BY <1>2, <1>3, HttpAssumption DEF Bound
<1> QED BY <1>1, <1>2, <1>4 DEF IInv

\* Every step preserves the invariant.
LEMMA StepOK == IInv /\ [Next]_vars => IInv'
<1> SUFFICES ASSUME IInv, [Next]_vars PROVE IInv'
  OBVIOUS
<1>1. CASE UNCHANGED vars \/ redis_up
  <2>1. UNCHANGED <<pool, draining, sess>>
    BY <1>1 DEF vars, redis_up
  <2>2. Claimed(sess') = Claimed(sess)
    BY <2>1
  <2> QED BY <2>1, <2>2 DEF IInv
<1>2. CASE drain \/ redis_down
  BY <1>2, DrainOK, RedisDownOK
<1>3. ASSUME NEW s \in Sessions, get_sock(s) \/ connect(s) \/ emplace(s) \/ on_verified(s) \/ execute(s) \/ on_reply(s)
      PROVE  IInv'
  BY <1>3, GetSockOK, ConnectOK, EmplaceOK, OnVerifiedOK, ExecuteOK, OnReplyOK
<1>4. ASSUME NEW s \in Sessions, accept(s) \/ on_read_header(s) \/ on_garbage(s) \/ on_read(s) \/ on_write(s) \/ end(s)
      PROVE  IInv'
  BY <1>4, AcceptOK, OnReadHeaderOK, OnGarbageOK, OnReadOK, OnWriteOK, EndOK
<1> QED BY <1>1, <1>2, <1>3, <1>4 DEF Next, Work

\* The invariant holds throughout.
THEOREM Invariance == Spec => []IInv
<1> QED BY InitEstablishes, StepOK, PTL DEF Spec

\* However many sessions find the pool empty together, by the check of
\* Pool::get_sock that is not locked, they open no more sockets to redis than two
\* for each session, besides those that drain.
THEOREM SocketsAreBounded == Spec => []SocketsBounded
<1>1. IInv => SocketsBounded
  <2> SUFFICES ASSUME IInv PROVE SocketsBounded
    OBVIOUS
  <2>1. Held(Sockets) \in SUBSET Claimed(sess)
    BY DEF Held, Claimed, Claims, Places
  <2>2. IsFiniteSet(Claimed(sess)) /\ Cardinality(Claimed(sess)) \in Nat /\ Cardinality(Sessions) \in Nat /\ MaxDraining \in Nat
    BY PlacesBound, HttpAssumption
  <2>3. Cardinality(Held(Sockets)) \in Nat /\ Cardinality(Held(Sockets)) <= Cardinality(Claimed(sess))
    BY <2>1, <2>2, FS_Subset, FS_CardinalityType
  <2>4. Len(pool) \in Nat /\ Len(draining) \in Nat /\ Len(pool) + Len(draining) + Cardinality(Claimed(sess)) <= Bound
    BY DEF IInv
  <2> QED BY <2>2, <2>3, <2>4 DEF SocketsBounded, Total, Bound
<1> QED BY <1>1, Invariance, PTL

\* A session answers each request once and in order, whatever request it is: every
\* path of on_read_header, on_read and the completions ends in one send_response.
THEOREM ResponsesInOrder == Spec => []OneResponseEach
<1>1. IInv => OneResponseEach
  BY DEF IInv, SessionOK, OneResponseEach
<1> QED BY <1>1, Invariance, PTL

\* The steps of one session leave the others alone, unless they end the server.
LEMMA OthersKeep ==
  ASSUME IInv, NEW s \in Sessions, NEW t \in Sessions, t # s,
         \/ accept(t) \/ Work(t) \/ on_read_header(t) \/ on_garbage(t) \/ on_read(t) \/ on_write(t) \/ end(t)
  PROVE  sess'[s].status \in {sess[s].status, 0}
<1>1. sess \in [Sessions -> Session]
  BY DEF IInv
<1>2. ASSUME NEW q, sess' = [sess EXCEPT ![t] = q] PROVE sess'[s].status = sess[s].status
  <2>1. sess'[s] = sess[s]
    BY <1>1, <1>2
  <2> QED BY <2>1
<1>3. CASE accept(t) \/ on_read_header(t) \/ on_garbage(t) \/ on_write(t) \/ end(t)
  BY <1>2, <1>3, Zenon DEF accept, on_read_header, on_garbage, on_write, end
<1>4. CASE on_verified(t) \/ execute(t) \/ on_reply(t)
  BY <1>2, <1>4, ZenonT(30) DEF on_verified, execute, on_reply, Break
<1>5. CASE on_read(t) \/ get_sock(t) \/ emplace(t) \/ connect(t)
  <2>1. ASSUME NEW a, NEW b, sess' = [sess EXCEPT ![t].pc = a, ![t].next = b] \/ sess' = [sess EXCEPT ![t].pc = a, ![t].cookie = b]
        PROVE  sess'[s] = sess[s]
    BY <1>1, <2>1
  <2>2. ASSUME NEW a, sess' = [sess EXCEPT ![t].pc = "header", ![t].conn = a, ![t].next = "none", ![t].op = "static"]
        PROVE  sess'[s] = sess[s]
    BY <1>1, <2>2
  <2>3. CASE on_read(t)
    BY <1>2, <2>1, <2>3, ZenonT(30) DEF on_read
  <2>4. CASE get_sock(t)
    BY <1>2, <2>1, <2>4, Zenon DEF get_sock
  <2>5. CASE emplace(t)
    BY <2>2, <2>5, Zenon DEF emplace
  <2>6. CASE connect(t)
    <3>1. CASE sess' = [q \in Sessions |-> Ended]
      BY <3>1 DEF Ended
    <3>2. CASE sess' = [sess EXCEPT ![t].pc = "emplace", ![t].next = "open"]
      BY <2>1, <3>2, Zenon
    <3> QED BY <2>6, <3>1, <3>2, Zenon DEF connect
  <2> QED BY <1>5, <2>3, <2>4, <2>5, <2>6
<1> QED BY <1>3, <1>4, <1>5 DEF Work

\* What the status tells of a command: a broken connection is no success for what
\* changes something, nor is a refused login or cover.
LEMMA StatusTells ==
  /\ \A op \in {"unlink", "perm", "move", "upload", "login", "cover"} : Status[op].error \div 100 # 2
  /\ \A op \in {"login", "cover"} : Status[op].absent \div 100 # 2
BY DEF Status

\* The completion of a command answers with success only what redis has done.
LEMMA ReplyTells ==
  ASSUME IInv, NEW s \in Sessions, on_reply(s), sess'[s].status = 2
  PROVE  /\ sess[s].op \in {"unlink", "perm", "move", "upload"} => sess[s].done # "none"
         /\ sess[s].op \in {"login", "cover"} => sess[s].done = "ok"
<1> DEFINE reply == Status[sess[s].op][sess[s].done]
           error == Status[sess[s].op].error
           failed == Responded(sess[s], error, FALSE)
<1>1. sess \in [Sessions -> Session] /\ sess[s] \in Session /\ sess[s].done \in {"none", "ok", "absent"}
  BY DEF IInv, Session
<1>2. CASE sess[s].done # "none" /\ sess' = [sess EXCEPT ![s] = Responded(@, reply, FALSE)]
  <2>1. sess'[s] = Responded(sess[s], reply, FALSE)
    BY <1>1, <1>2, SMTT(30)
  <2>2. reply \div 100 = 2
    BY <2>1 DEF Responded
  <2>3. sess[s].op \in {"login", "cover"} => sess[s].done # "absent"
    BY <2>2, StatusTells
  <2> QED BY <1>1, <1>2, <2>3
<1>3. CASE Break(s, failed)
  <2>1. sess'[s] = [failed EXCEPT !.conn = "none"]
    BY <1>1, <1>3 DEF Break
  <2>2. error \div 100 = 2
    BY <2>1 DEF Responded
  <2> QED BY <2>2, StatusTells
<1> QED BY <1>2, <1>3, Zenon DEF on_reply

\* A request to change something is answered with success only if redis has executed
\* its command, whatever requests there are and whenever a connection breaks.
THEOREM SuccessesTrue == Spec => Acknowledged
<1> DEFINE Told(s) == sess[s].pc = "command" /\ sess'[s].status = 2 =>
             /\ sess[s].op \in {"unlink", "perm", "move", "upload"} => sess[s].done # "none"
             /\ sess[s].op \in {"login", "cover"} => sess[s].done = "ok"
<1>1. ASSUME IInv, Next, NEW s \in Sessions PROVE Told(s)
  <2> SUFFICES ASSUME sess[s].pc = "command", sess'[s].status = 2
               PROVE  /\ sess[s].op \in {"unlink", "perm", "move", "upload"} => sess[s].done # "none"
                      /\ sess[s].op \in {"login", "cover"} => sess[s].done = "ok"
    OBVIOUS
  <2>1. sess \in [Sessions -> Session] /\ sess[s] \in Session /\ sess[s].status = 0
    BY <1>1 DEF IInv, SessionOK
  <2>2. CASE drain \/ redis_up
    BY <2>1, <2>2 DEF drain, redis_up
  <2>3. CASE redis_down
    <3>1. PICK a, b : sess'[s] = [sess[s] EXCEPT !.conn = a, !.next = b]
      BY <2>3, Zenon DEF redis_down
    <3> DEFINE q == [sess[s] EXCEPT !.conn = a, !.next = b]
    <3>2. q.status = sess[s].status
      BY <2>1 DEF Session
    <3> HIDE DEF q
    <3>3. sess'[s].status = sess[s].status
      <4>1. sess'[s] = q
        BY <3>1 DEF q
      <4> QED BY <3>2, <4>1
    <3> QED BY <2>1, <3>3
  <2>4. ASSUME NEW t \in Sessions, t # s,
               \/ accept(t) \/ Work(t) \/ on_read_header(t) \/ on_garbage(t) \/ on_read(t) \/ on_write(t) \/ end(t)
        PROVE  FALSE
    BY <1>1, <2>1, <2>4, OthersKeep
  <2>5. CASE on_reply(s)
    BY <1>1, <2>5, ReplyTells
  <2>6. CASE execute(s)
    <3>1. ASSUME NEW done PROVE [sess EXCEPT ![s].done = done][s].status = sess[s].status
      BY <2>1 DEF Session
    <3>2. \E done : sess' = [sess EXCEPT ![s].done = done]
      BY <2>6, Zenon DEF execute
    <3>3. sess'[s].status = sess[s].status
      BY <3>1, <3>2, Zenon
    <3> QED BY <2>1, <3>3
  <2>7. ~ (\/ accept(s) \/ get_sock(s) \/ connect(s) \/ emplace(s) \/ on_verified(s)
           \/ on_read_header(s) \/ on_garbage(s) \/ on_read(s) \/ on_write(s) \/ end(s))
    BY DEF accept, get_sock, connect, emplace, on_verified, on_read_header, on_garbage, on_read, on_write, end
  <2> QED BY <1>1, <2>2, <2>3, <2>4, <2>5, <2>6, <2>7, SMTT(30) DEF Next, Work
<1>2. IInv /\ [Next]_vars => [\A s \in Sessions : Told(s)]_vars
  BY <1>1
<1> QED BY <1>2, Invariance, PTL DEF Spec, Acknowledged

-----------------------------------------------------------------------------
(* Counting the stale sockets *)

\* The places with a stale socket, when the sessions are f.
StaleAt(f) == {h \in Sessions \X Places : f[h[1]][h[2]] = "stale"}

\* There are finitely many.
LEMMA StaleFinite ==
  ASSUME NEW f
  PROVE  IsFiniteSet(StaleAt(f)) /\ Cardinality(StaleAt(f)) \in Nat
<1>1. StaleAt(f) \in SUBSET Claimed(f)
  BY DEF StaleAt, Claimed, Claims, Sockets
<1>2. IsFiniteSet(StaleAt(f))
  BY <1>1, PlacesBound, FS_Subset
<1> QED BY <1>2, FS_CardinalityType

\* Sessions with stale sockets only where there were some before.
LEMMA StaleLess ==
  ASSUME NEW f, NEW g, \A s \in Sessions : \A p \in Places : g[s][p] = "stale" => f[s][p] = "stale"
  PROVE  Cardinality(StaleAt(g)) <= Cardinality(StaleAt(f))
<1>1. StaleAt(g) \in SUBSET StaleAt(f)
  BY DEF StaleAt
<1> QED BY <1>1, StaleFinite, FS_Subset

\* One of them is gone.
LEMMA StaleOneLess ==
  ASSUME NEW f, NEW g, NEW s \in Sessions, NEW p \in Places, f[s][p] = "stale", g[s][p] # "stale",
         \A t \in Sessions : \A k \in Places : g[t][k] = "stale" => f[t][k] = "stale"
  PROVE  Cardinality(StaleAt(g)) + 1 <= Cardinality(StaleAt(f))
<1>1. StaleAt(g) \in SUBSET (StaleAt(f) \ {<<s, p>>}) /\ <<s, p>> \in StaleAt(f)
  BY DEF StaleAt
<1>2. /\ IsFiniteSet(StaleAt(f) \ {<<s, p>>})
      /\ Cardinality(StaleAt(f) \ {<<s, p>>}) = Cardinality(StaleAt(f)) - 1
  BY <1>1, StaleFinite, FS_RemoveElement
<1> QED BY <1>1, <1>2, StaleFinite, FS_Subset

\* There may be one in one more place.
LEMMA StaleOneMore ==
  ASSUME NEW f, NEW g, NEW s \in Sessions, NEW p \in Places,
         \A t \in Sessions : \A k \in Places : g[t][k] = "stale" => f[t][k] = "stale" \/ (t = s /\ k = p)
  PROVE  Cardinality(StaleAt(g)) <= Cardinality(StaleAt(f)) + 1
<1>1. PICK c, h : c = StaleAt(f) /\ h = <<s, p>>
  OBVIOUS
<1>2. StaleAt(g) \in SUBSET (c \union {h})
  BY <1>1 DEF StaleAt
<1>3. IsFiniteSet(c) /\ Cardinality(c) \in Nat
  BY <1>1, StaleFinite
<1>4. IsFiniteSet(c \union {h}) /\ Cardinality(c \union {h}) = IF h \in c THEN Cardinality(c) ELSE Cardinality(c) + 1
  BY <1>3, FS_AddElement, ZenonT(30)
<1>5. Cardinality(StaleAt(g)) <= Cardinality(c \union {h})
  BY <1>2, <1>4, FS_Subset
<1>6. Cardinality(StaleAt(g)) \in Nat
  BY StaleFinite
<1> QED BY <1>1, <1>3, <1>4, <1>5, <1>6

\* What a socket adds to the stale ones.
Cost(sock) == IF sock = "stale" THEN 1 ELSE 0

\* There are finitely many stale sockets in a queue.
LEMMA StaleInFinite ==
  ASSUME NEW p \in Seq(Sockets)
  PROVE  IsFiniteSet(StaleIn(p)) /\ Cardinality(StaleIn(p)) \in Nat
<1>1. Len(p) \in Int /\ DOMAIN p = 1 .. Len(p)
  OBVIOUS
<1>2. StaleIn(p) \in SUBSET (1 .. Len(p))
  BY <1>1 DEF StaleIn
<1>3. IsFiniteSet(1 .. Len(p))
  BY <1>1, FS_Interval
<1>4. IsFiniteSet(StaleIn(p))
  BY <1>2, <1>3, FS_Subset
<1> QED BY <1>4, FS_CardinalityType

\* A socket put at the end of a queue is counted there.
LEMMA StaleAppend ==
  ASSUME NEW p \in Seq(Sockets), NEW sock \in Sockets
  PROVE  Cardinality(StaleIn(Append(p, sock))) = Cardinality(StaleIn(p)) + Cost(sock)
<1>1. /\ Len(p) \in Nat /\ DOMAIN p = 1 .. Len(p) /\ DOMAIN Append(p, sock) = 1 .. Len(p) + 1
      /\ \A i \in 1 .. Len(p) : Append(p, sock)[i] = p[i]
      /\ Append(p, sock)[Len(p) + 1] = sock
  OBVIOUS
<1>2. IsFiniteSet(StaleIn(p)) /\ Cardinality(StaleIn(p)) \in Nat
  BY StaleInFinite
<1>3. PICK n \in Nat : n = Len(p) + 1
  BY <1>1
<1>4. n \notin StaleIn(p)
  BY <1>1, <1>3 DEF StaleIn
<1>5. CASE sock = "stale"
  <2>1. StaleIn(Append(p, sock)) = StaleIn(p) \union {n}
    BY <1>1, <1>3, <1>5 DEF StaleIn
  <2>2. Cardinality(StaleIn(p) \union {n}) = Cardinality(StaleIn(p)) + 1
    BY <1>2, <1>4, FS_AddElement
  <2> QED BY <1>5, <2>1, <2>2 DEF Cost
<1>6. CASE sock # "stale"
  <2>1. StaleIn(Append(p, sock)) = StaleIn(p)
    BY <1>1, <1>3, <1>6 DEF StaleIn
  <2> QED BY <1>2, <1>6, <2>1 DEF Cost
<1> QED BY <1>5, <1>6

\* The last socket of the pool is no longer counted there when it is taken.
LEMMA StalePop ==
  ASSUME NEW p \in Seq(Sockets), p # <<>>
  PROVE  Cardinality(StaleIn(AfterPop(p))) + Cost(p[Len(p)]) = Cardinality(StaleIn(p))
<1>1. Len(p) \in Nat /\ Len(p) # 0 /\ DOMAIN p = 1 .. Len(p) /\ p[Len(p)] \in Sockets
  OBVIOUS
<1>0. PICK n : n = Len(p)
  OBVIOUS
<1>2. n = Len(p) /\ n \in Nat /\ n - 1 \in Nat
  BY <1>0, <1>1
<1>3. /\ DOMAIN AfterPop(p) = 1 .. n - 1
      /\ \A i \in 1 .. n - 1 : AfterPop(p)[i] = p[i]
  <2>1. ASSUME NEW m \in Nat, m < Len(p)
        PROVE  DOMAIN SubSeq(p, 1, m) = 1 .. m /\ \A i \in 1 .. m : SubSeq(p, 1, m)[i] = p[i]
    BY <2>1
  <2> QED BY <1>2, <2>1 DEF AfterPop
<1>4. StaleIn(AfterPop(p)) = StaleIn(p) \ {n}
  BY <1>1, <1>2, <1>3 DEF StaleIn
<1>5. n \in StaleIn(p) <=> p[Len(p)] = "stale"
  BY <1>1, <1>2 DEF StaleIn
<1>6. IsFiniteSet(StaleIn(p)) /\ Cardinality(StaleIn(p)) \in Nat
  BY StaleInFinite
<1>7. Cardinality(StaleIn(p) \ {n}) = IF n \in StaleIn(p) THEN Cardinality(StaleIn(p)) - 1 ELSE Cardinality(StaleIn(p))
  BY <1>6, FS_RemoveElement
<1> QED BY <1>4, <1>5, <1>6, <1>7 DEF Cost

\* Nor is the first one of those that drain.
LEMMA StaleTail ==
  ASSUME NEW p \in Seq(Sockets), p # <<>>
  PROVE  Cardinality(StaleIn(Tail(p))) + Cost(Head(p)) <= Cardinality(StaleIn(p))
<1>1. /\ Len(p) \in Nat /\ Len(p) # 0 /\ DOMAIN p = 1 .. Len(p) /\ Head(p) = p[1]
      /\ Tail(p) \in Seq(Sockets) /\ DOMAIN Tail(p) = 1 .. Len(p) - 1
      /\ \A i \in 1 .. Len(p) - 1 : Tail(p)[i] = p[i + 1]
  OBVIOUS
<1>2. PICK S, T : S = StaleIn(Tail(p)) /\ T = StaleIn(p) \ {1}
  OBVIOUS
<1>3. IsFiniteSet(StaleIn(p)) /\ Cardinality(StaleIn(p)) \in Nat /\ Cardinality(StaleIn(Tail(p))) \in Nat
  BY <1>1, StaleInFinite
<1>4. IsFiniteSet(T) /\ Cardinality(T) = IF 1 \in StaleIn(p) THEN Cardinality(StaleIn(p)) - 1 ELSE Cardinality(StaleIn(p))
  BY <1>2, <1>3, FS_RemoveElement
<1>5. \A i \in S : i \in Nat /\ i + 1 \in T
  BY <1>1, <1>2 DEF StaleIn
<1>6. [i \in S |-> i + 1] \in Injection(S, T)
  BY <1>5 DEF Injection, IsInjective
<1>7. Cardinality(S) <= Cardinality(T)
  BY <1>4, <1>6, FS_Injection
<1>8. 1 \in StaleIn(p) <=> Head(p) = "stale"
  BY <1>1 DEF StaleIn
<1> QED BY <1>2, <1>3, <1>4, <1>7, <1>8 DEF Cost

\* A step that leaves the sockets of the queues where they are, and puts no stale
\* one in a new place.
LEMMA NoneStaler ==
  ASSUME IInv, UNCHANGED <<pool, draining>>,
         \A s \in Sessions : \A p \in Places : sess'[s][p] = "stale" => sess[s][p] = "stale"
  PROVE  Stale' <= Stale
<1>1. Held({"stale"}) = StaleAt(sess) /\ Held({"stale"})' = StaleAt(sess')
  BY DEF Held, StaleAt, Places
<1>2. Cardinality(StaleAt(sess')) <= Cardinality(StaleAt(sess))
  BY StaleLess
<1>3. Cardinality(StaleAt(sess)) \in Nat /\ Cardinality(StaleAt(sess')) \in Nat
  BY StaleFinite, SMTT(30)
<1>4. Cardinality(StaleIn(pool)) \in Nat /\ Cardinality(StaleIn(draining)) \in Nat
  BY StaleInFinite DEF IInv
<1>5. StaleIn(pool)' = StaleIn(pool) /\ StaleIn(draining)' = StaleIn(draining)
  BY DEF StaleIn
<1> QED BY <1>1, <1>2, <1>3, <1>4, <1>5 DEF Stale

\* A session that becomes q, which keeps its sockets or loses them.
LEMMA KeepsStale ==
  ASSUME IInv, NEW s \in Sessions, NEW q, sess' = [sess EXCEPT ![s] = q], UNCHANGED <<pool, draining>>,
         q.conn = sess[s].conn \/ q.conn = "none", q.next = sess[s].next \/ q.next # "stale"
  PROVE  Stale' <= Stale
<1>1. \A t \in Sessions : sess'[t] = IF t = s THEN q ELSE sess[t]
  BY DEF IInv
<1>2. \A p \in Places : q[p] = "stale" => sess[s][p] = "stale"
  BY DEF Places
<1>3. \A t \in Sessions : \A p \in Places : sess'[t][p] = "stale" => sess[t][p] = "stale"
  BY <1>1, <1>2
<1> QED BY <1>3, NoneStaler

\* A connection that breaks takes a stale socket with it.
LEMMA BreakStale ==
  ASSUME IInv, NEW s \in Sessions, NEW status, NEW unread, Break(s, Responded(sess[s], status, unread))
  PROVE  Stale' < Stale /\ Stale' <= Stale
<1>0. PICK r : r = Responded(sess[s], status, unread)
  OBVIOUS
<1>1. PICK q : q = [r EXCEPT !.conn = "none"]
  OBVIOUS
<1>2. /\ sess[s].conn = "stale" /\ sess' = [sess EXCEPT ![s] = q]
      /\ pool' = pool /\ draining' = draining
  BY <1>0, <1>1, Zenon DEF Break
<1>3. q.conn = "none" /\ q.next = sess[s].next
  BY <1>0, <1>1 DEF Responded
<1>4. \A t \in Sessions : sess'[t] = IF t = s THEN q ELSE sess[t]
  BY <1>2 DEF IInv
<1>5. \A p \in Places : q[p] = "stale" => sess[s][p] = "stale"
  BY <1>3 DEF Places
<1>6. \A t \in Sessions : \A p \in Places : sess'[t][p] = "stale" => sess[t][p] = "stale"
  BY <1>4, <1>5
<1>7. "conn" \in Places /\ sess[s]["conn"] = "stale" /\ sess'[s]["conn"] # "stale"
  BY <1>2, <1>3, <1>4, SMTT(30) DEF Places
<1>8. Cardinality(StaleAt(sess')) + 1 <= Cardinality(StaleAt(sess))
  BY <1>6, <1>7, StaleOneLess
<1>9. Held({"stale"}) = StaleAt(sess) /\ Held({"stale"})' = StaleAt(sess')
  BY DEF Held, StaleAt, Places
<1>10. Cardinality(StaleAt(sess)) \in Nat /\ Cardinality(StaleAt(sess')) \in Nat
  BY StaleFinite
<1>11. Cardinality(StaleIn(pool)) \in Nat /\ Cardinality(StaleIn(draining)) \in Nat
  BY StaleInFinite DEF IInv
<1>12. StaleIn(pool)' = StaleIn(pool) /\ StaleIn(draining)' = StaleIn(draining)
  BY <1>2 DEF StaleIn
<1> QED BY <1>8, <1>9, <1>10, <1>11, <1>12 DEF Stale

\* A socket that is released is counted in the pool, or among those that drain.
LEMMA ReleaseStale ==
  ASSUME IInv, NEW s \in Sessions, Release(s),
         Cardinality(StaleAt(sess')) + Cost(sess[s].conn) <= Cardinality(StaleAt(sess))
  PROVE  Stale' <= Stale
<1>1. PICK sock : sock = sess[s].conn
  OBVIOUS
<1>2. pool \in Seq(Sockets) /\ draining \in Seq(Sockets) /\ sock \in Sockets \union {"none"}
  BY <1>1 DEF IInv, Session
<1>3. \/ sock # "none" /\ pool' = Append(pool, sock) /\ draining' = draining
      \/ sock # "none" /\ draining' = Append(draining, sock) /\ pool' = pool
      \/ sock = "none" /\ pool' = pool /\ draining' = draining
  BY <1>1, Zenon DEF Release
<1>4. sock # "none" =>
        /\ Cardinality(StaleIn(Append(pool, sock))) = Cardinality(StaleIn(pool)) + Cost(sock)
        /\ Cardinality(StaleIn(Append(draining, sock))) = Cardinality(StaleIn(draining)) + Cost(sock)
  BY <1>2, StaleAppend
<1>5. Cost(sock) \in Nat /\ Cardinality(StaleIn(pool)) \in Nat /\ Cardinality(StaleIn(draining)) \in Nat
  BY <1>2, StaleInFinite DEF Cost
<1>6. \/ /\ Cardinality(StaleIn(pool')) = Cardinality(StaleIn(pool)) + Cost(sock)
         /\ Cardinality(StaleIn(draining')) = Cardinality(StaleIn(draining))
      \/ /\ Cardinality(StaleIn(pool')) = Cardinality(StaleIn(pool))
         /\ Cardinality(StaleIn(draining')) = Cardinality(StaleIn(draining)) + Cost(sock)
      \/ /\ Cardinality(StaleIn(pool')) = Cardinality(StaleIn(pool))
         /\ Cardinality(StaleIn(draining')) = Cardinality(StaleIn(draining))
  BY <1>3, <1>4, Zenon
<1>8. Cardinality(StaleAt(sess)) \in Nat /\ Cardinality(StaleAt(sess')) \in Nat
  BY StaleFinite
<1>9. Held({"stale"}) = StaleAt(sess) /\ Held({"stale"})' = StaleAt(sess')
  BY DEF Held, StaleAt, Places
<1>10. StaleIn(pool)' = StaleIn(pool') /\ StaleIn(draining)' = StaleIn(draining')
  BY DEF StaleIn
<1> QED BY <1>1, <1>5, <1>6, <1>8, <1>9, <1>10 DEF Stale

\* end: the session's socket is released, and it holds no other.
LEMMA EndStale ==
  ASSUME IInv, NEW s \in Sessions, end(s)
  PROVE  Stale' <= Stale
<1>1. /\ Release(s) /\ sess' = [sess EXCEPT ![s] = Ended] /\ sess \in [Sessions -> Session]
  BY DEF end, IInv
<1>2. \A t \in Sessions : sess'[t] = IF t = s THEN Ended ELSE sess[t]
  BY <1>1
<1>3. "conn" \in Places /\ \A p \in Places : Ended[p] # "stale"
  BY DEF Ended, Places
<1>4. \A t \in Sessions : \A p \in Places : sess'[t][p] = "stale" => sess[t][p] = "stale"
  BY <1>2, <1>3
<1>5. CASE sess[s].conn = "stale"
  <2>1. sess[s]["conn"] = "stale" /\ sess'[s]["conn"] # "stale"
    BY <1>2, <1>3, <1>5
  <2>2. Cardinality(StaleAt(sess')) + 1 <= Cardinality(StaleAt(sess))
    BY <1>3, <1>4, <2>1, StaleOneLess
  <2> QED BY <1>1, <1>5, <2>2, ReleaseStale DEF Cost
<1>6. CASE sess[s].conn # "stale"
  <2>1. Cardinality(StaleAt(sess')) <= Cardinality(StaleAt(sess)) /\ Cardinality(StaleAt(sess')) \in Nat
    BY <1>4, StaleLess, StaleFinite
  <2>2. Cardinality(StaleAt(sess')) + Cost(sess[s].conn) <= Cardinality(StaleAt(sess))
    BY <1>6, <2>1 DEF Cost
  <2> QED BY <1>1, <2>2, ReleaseStale
<1> QED BY <1>5, <1>6

\* emplace: the socket of the old handler is released, and that of the next one
\* changes its place.
LEMMA EmplaceStale ==
  ASSUME IInv, NEW s \in Sessions, emplace(s)
  PROVE  Stale' <= Stale
<1>0. PICK old, new : old = sess[s].conn /\ new = sess[s].next
  OBVIOUS
<1>1. PICK q : q = [sess[s] EXCEPT !.pc = "header", !.conn = new, !.next = "none", !.op = "static"]
  OBVIOUS
<1>2. Release(s) /\ sess \in [Sessions -> Session] /\ sess[s] \in Session
  BY DEF emplace, IInv
<1>3. sess' = [sess EXCEPT ![s] = q]
  <2>1. ASSUME NEW x
        PROVE  [sess EXCEPT ![s].pc = "header", ![s].conn = x, ![s].next = "none", ![s].op = "static"]
               = [sess EXCEPT ![s] = [sess[s] EXCEPT !.pc = "header", !.conn = x, !.next = "none", !.op = "static"]]
    BY <1>2
  <2> QED BY <1>0, <1>1, <2>1, Zenon DEF emplace
<1>4. q.conn = new /\ q.next = "none"
  BY <1>1, <1>2, SMTT(30) DEF Session
<1>5. \A t \in Sessions : sess'[t] = IF t = s THEN q ELSE sess[t]
  BY <1>2, <1>3
<1>6. /\ "conn" \in Places /\ "next" \in Places /\ \A k \in Places : k \in {"conn", "next"}
      /\ sess[s]["conn"] = old /\ sess[s]["next"] = new
      /\ sess'[s]["conn"] = new /\ sess'[s]["next"] = "none"
      /\ \A t \in Sessions : t # s => sess'[t] = sess[t]
  BY <1>0, <1>4, <1>5 DEF Places
<1>7. Cardinality(StaleAt(sess)) \in Nat /\ Cardinality(StaleAt(sess')) \in Nat
  BY StaleFinite
<1>8. CASE old = "stale" /\ new = "stale"
  <2>1. \A t \in Sessions : \A k \in Places : sess'[t][k] = "stale" => sess[t][k] = "stale"
    BY <1>6, <1>8
  <2>2. Cardinality(StaleAt(sess')) + 1 <= Cardinality(StaleAt(sess))
    BY <1>6, <1>8, <2>1, StaleOneLess
  <2> QED BY <1>0, <1>2, <1>8, <2>2, ReleaseStale DEF Cost
<1>9. CASE old = "stale" /\ new # "stale"
  <2>1. \A t \in Sessions : \A k \in Places : sess'[t][k] = "stale" => sess[t][k] = "stale"
    BY <1>6, <1>9
  <2>2. Cardinality(StaleAt(sess')) + 1 <= Cardinality(StaleAt(sess))
    BY <1>6, <1>9, <2>1, StaleOneLess
  <2> QED BY <1>0, <1>2, <1>9, <2>2, ReleaseStale DEF Cost
<1>10. CASE old # "stale" /\ new # "stale"
  <2>1. \A t \in Sessions : \A k \in Places : sess'[t][k] = "stale" => sess[t][k] = "stale"
    BY <1>6, <1>10
  <2>2. Cardinality(StaleAt(sess')) <= Cardinality(StaleAt(sess))
    BY <2>1, StaleLess
  <2>3. Cardinality(StaleAt(sess')) + Cost(sess[s].conn) <= Cardinality(StaleAt(sess))
    BY <1>0, <1>7, <1>10, <2>2 DEF Cost
  <2> QED BY <1>2, <2>3, ReleaseStale
<1>11. CASE old # "stale" /\ new = "stale"
  <2>1. PICK without : without = [sess EXCEPT ![s] = Ended]
    OBVIOUS
  <2>2. \A t \in Sessions : without[t] = IF t = s THEN Ended ELSE sess[t]
    BY <1>2, <2>1
  <2>3. Ended["conn"] # "stale" /\ Ended["next"] # "stale"
    BY DEF Ended
  <2>4. \A t \in Sessions : \A k \in Places : without[t][k] = "stale" => sess[t][k] = "stale"
    BY <1>6, <2>2, <2>3
  <2>5. Cardinality(StaleAt(without)) + 1 <= Cardinality(StaleAt(sess))
    BY <1>6, <1>11, <2>2, <2>3, <2>4, StaleOneLess
  <2>6. \A t \in Sessions : \A k \in Places : sess'[t][k] = "stale" => without[t][k] = "stale" \/ (t = s /\ k = "conn")
    BY <1>6, <2>2
  <2>7. Cardinality(StaleAt(sess')) <= Cardinality(StaleAt(without)) + 1
    BY <1>6, <2>6, StaleOneMore
  <2>8. Cardinality(StaleAt(without)) \in Nat
    BY StaleFinite
  <2>9. Cardinality(StaleAt(sess')) + Cost(sess[s].conn) <= Cardinality(StaleAt(sess))
    BY <1>0, <1>7, <1>11, <2>5, <2>7, <2>8 DEF Cost
  <2> QED BY <1>2, <2>9, ReleaseStale
<1> QED BY <1>8, <1>9, <1>10, <1>11

\* get_sock: the socket is counted with the session instead of in the pool.
LEMMA GetSockStale ==
  ASSUME IInv, NEW s \in Sessions, get_sock(s)
  PROVE  Stale' <= Stale
<1>1. /\ sess \in [Sessions -> Session] /\ sess[s] \in Session /\ pool \in Seq(Sockets) /\ draining \in Seq(Sockets)
      /\ draining' = draining
  BY DEF IInv, get_sock
<1>2. CASE pool = <<>>
  <2>1. PICK q : q = [sess[s] EXCEPT !.pc = "connect"]
    OBVIOUS
  <2>2. sess' = [sess EXCEPT ![s] = q] /\ UNCHANGED <<pool, draining>>
    BY <1>2, <2>1, Zenon DEF get_sock
  <2>3. q.conn = sess[s].conn /\ q.next = sess[s].next
    BY <1>1, <2>1 DEF Session
  <2> QED BY <2>2, <2>3, KeepsStale
<1>3. CASE pool # <<>>
  <2>1. PICK sock : sock = pool[Len(pool)]
    OBVIOUS
  <2>2. PICK q : q = [sess[s] EXCEPT !.pc = "emplace", !.next = sock]
    OBVIOUS
  <2>3. sess' = [sess EXCEPT ![s] = q] /\ pool' = AfterPop(pool)
    <3>1. ASSUME NEW x
          PROVE  [sess EXCEPT ![s].pc = "emplace", ![s].next = x]
                 = [sess EXCEPT ![s] = [sess[s] EXCEPT !.pc = "emplace", !.next = x]]
      BY <1>1
    <3> QED BY <1>3, <2>1, <2>2, <3>1, Zenon DEF get_sock
  <2>4. q.conn = sess[s].conn /\ q.next = sock
    BY <1>1, <2>2 DEF Session
  <2>5. \A t \in Sessions : sess'[t] = IF t = s THEN q ELSE sess[t]
    BY <1>1, <2>3
  <2>6. "next" \in Places /\ \A k \in Places : q[k] = "stale" => sess[s][k] = "stale" \/ (k = "next" /\ sock = "stale")
    BY <2>4 DEF Places
  <2>7. Cardinality(StaleAt(sess)) \in Nat /\ Cardinality(StaleAt(sess')) \in Nat
    BY StaleFinite
  <2>8. ASSUME sock = "stale" PROVE Cardinality(StaleAt(sess')) <= Cardinality(StaleAt(sess)) + Cost(sock)
    <3>1. \A t \in Sessions : \A k \in Places : sess'[t][k] = "stale" => sess[t][k] = "stale" \/ (t = s /\ k = "next")
      BY <2>5, <2>6
    <3>2. Cardinality(StaleAt(sess')) <= Cardinality(StaleAt(sess)) + 1
      BY <2>6, <3>1, StaleOneMore
    <3> QED BY <2>8, <3>2 DEF Cost
  <2>9. ASSUME sock # "stale" PROVE Cardinality(StaleAt(sess')) <= Cardinality(StaleAt(sess)) + Cost(sock)
    <3>1. \A t \in Sessions : \A k \in Places : sess'[t][k] = "stale" => sess[t][k] = "stale"
      BY <2>5, <2>6, <2>9
    <3>2. Cardinality(StaleAt(sess')) <= Cardinality(StaleAt(sess))
      BY <3>1, StaleLess
    <3> QED BY <2>7, <2>9, <3>2 DEF Cost
  <2>10. Cardinality(StaleAt(sess')) <= Cardinality(StaleAt(sess)) + Cost(sock)
    BY <2>8, <2>9
  <2>11. Cardinality(StaleIn(AfterPop(pool))) + Cost(sock) = Cardinality(StaleIn(pool))
    BY <1>1, <1>3, <2>1, StalePop
  <2>12. AfterPop(pool) \in Seq(Sockets)
    BY <1>1, <1>3, PopType
  <2>13. /\ Cardinality(StaleIn(AfterPop(pool))) \in Nat /\ Cardinality(StaleIn(pool)) \in Nat
         /\ Cardinality(StaleIn(draining)) \in Nat /\ Cost(sock) \in Nat
    BY <1>1, <2>12, StaleInFinite DEF Cost
  <2>14. Held({"stale"}) = StaleAt(sess) /\ Held({"stale"})' = StaleAt(sess')
    BY DEF Held, StaleAt, Places
  <2>15. StaleIn(pool)' = StaleIn(AfterPop(pool)) /\ StaleIn(draining)' = StaleIn(draining)
    BY <1>1, <2>3 DEF StaleIn
  <2> QED BY <2>7, <2>10, <2>11, <2>13, <2>14, <2>15 DEF Stale
<1> QED BY <1>2, <1>3

\* connect: the new socket is open, or the server ends with all of them.
LEMMA ConnectStale ==
  ASSUME IInv, NEW s \in Sessions, connect(s)
  PROVE  Stale' <= Stale
<1>1. sess \in [Sessions -> Session] /\ sess[s] \in Session /\ pool \in Seq(Sockets) /\ draining \in Seq(Sockets)
  BY DEF IInv
<1>2. CASE sess' = [sess EXCEPT ![s].pc = "emplace", ![s].next = "open"] /\ UNCHANGED <<pool, draining, up>>
  <2>1. PICK sock : sock = "open"
    OBVIOUS
  <2>2. PICK q : q = [sess[s] EXCEPT !.pc = "emplace", !.next = sock]
    OBVIOUS
  <2>3. sess' = [sess EXCEPT ![s] = q]
    <3>1. [sess EXCEPT ![s].pc = "emplace", ![s].next = sock]
          = [sess EXCEPT ![s] = [sess[s] EXCEPT !.pc = "emplace", !.next = sock]]
      BY <1>1
    <3> QED BY <1>2, <2>1, <2>2, <3>1, Zenon
  <2>4. q.conn = sess[s].conn /\ q.next = sock
    BY <1>1, <2>2 DEF Session
  <2> QED BY <1>2, <2>1, <2>3, <2>4, KeepsStale
<1>3. CASE sess' = [t \in Sessions |-> Ended] /\ pool' = <<>> /\ draining' = <<>>
  <2>1. \A p \in Places : Ended[p] # "stale"
    BY DEF Ended, Places
  <2>2. \A t \in Sessions : \A p \in Places : sess'[t][p] = "stale" => sess[t][p] = "stale"
    BY <1>3, <2>1
  <2>3. Cardinality(StaleAt(sess')) <= Cardinality(StaleAt(sess))
    BY <2>2, StaleLess
  <2>4. Cardinality(StaleAt(sess)) \in Nat /\ Cardinality(StaleAt(sess')) \in Nat
    BY StaleFinite
  <2>5. Cardinality(StaleIn(pool)) \in Nat /\ Cardinality(StaleIn(draining)) \in Nat
    BY <1>1, StaleInFinite
  <2>6. StaleIn(pool)' = {} /\ StaleIn(draining)' = {}
    BY <1>3 DEF StaleIn
  <2>7. Cardinality({}) = 0
    BY FS_EmptySet
  <2>8. Held({"stale"}) = StaleAt(sess) /\ Held({"stale"})' = StaleAt(sess')
    BY DEF Held, StaleAt, Places
  <2> QED BY <2>3, <2>4, <2>5, <2>6, <2>7, <2>8 DEF Stale
<1> QED BY <1>2, <1>3, Zenon DEF connect

\* drain: an open socket goes to the pool, and a stale one is closed.
LEMMA DrainStale ==
  ASSUME IInv, drain
  PROVE  Stale' <= Stale
<1>1. PICK sock : sock = Head(draining)
  OBVIOUS
<1>2. /\ pool \in Seq(Sockets) /\ draining \in Seq(Sockets) /\ draining # <<>>
      /\ draining' = Tail(draining) /\ sess' = sess
      /\ pool' = IF sock = "stale" THEN pool ELSE Append(pool, sock)
  BY <1>1 DEF IInv, drain
<1>3. sock \in Sockets /\ Tail(draining) \in Seq(Sockets)
  BY <1>1, <1>2
<1>4. Cardinality(StaleIn(Tail(draining))) + Cost(sock) <= Cardinality(StaleIn(draining))
  BY <1>1, <1>2, StaleTail
<1>5. Cardinality(StaleIn(Append(pool, sock))) = Cardinality(StaleIn(pool)) + Cost(sock)
  BY <1>2, <1>3, StaleAppend
<1>6. /\ Cardinality(StaleIn(pool)) \in Nat /\ Cardinality(StaleIn(draining)) \in Nat
      /\ Cardinality(StaleIn(Tail(draining))) \in Nat /\ Cost(sock) \in Nat
  BY <1>2, <1>3, StaleInFinite DEF Cost
<1>7. StaleIn(pool)' = StaleIn(pool') /\ StaleIn(draining)' = StaleIn(Tail(draining))
  BY <1>2 DEF StaleIn
<1>8. Held({"stale"})' = Held({"stale"})
  BY <1>2 DEF Held
<1>9. Cardinality(StaleAt(sess)) \in Nat /\ Held({"stale"}) = StaleAt(sess)
  BY StaleFinite DEF Held, StaleAt, Places
<1>10. Cardinality(StaleIn(pool')) = Cardinality(StaleIn(pool))
  <2>1. CASE sock = "stale"
    BY <1>2, <2>1
  <2>2. CASE sock # "stale"
    <3>1. pool' = Append(pool, sock)
      BY <1>2, <2>2
    <3> QED BY <1>5, <1>6, <2>2, <3>1 DEF Cost
  <2> QED BY <2>1, <2>2
<1> QED BY <1>4, <1>6, <1>7, <1>8, <1>9, <1>10 DEF Stale

\* The other steps of a session leave its sockets where they are, unless its
\* connection breaks.
LEMMA QuietStale ==
  ASSUME IInv, NEW s \in Sessions,
         \/ accept(s) \/ on_write(s) \/ on_read_header(s) \/ on_garbage(s) \/ on_read(s)
         \/ on_verified(s) \/ execute(s) \/ on_reply(s)
  PROVE  Stale' <= Stale
<1>1. sess \in [Sessions -> Session] /\ sess[s] \in Session
  BY DEF IInv
<1>2. ASSUME NEW status, NEW unread,
             sess' = [sess EXCEPT ![s] = Responded(sess[s], status, unread)], UNCHANGED <<pool, draining>>
      PROVE  Stale' <= Stale
  <2>1. PICK q : q = Responded(sess[s], status, unread)
    OBVIOUS
  <2>2. q.conn = sess[s].conn /\ q.next = sess[s].next
    BY <1>2, <2>1 DEF Responded
  <2> QED BY <1>2, <2>1, <2>2, KeepsStale
<1>3. ASSUME NEW r \in Session, r.conn = sess[s].conn, r.next = sess[s].next,
             sess' = [sess EXCEPT ![s] = do_read(r)], UNCHANGED <<pool, draining>>
      PROVE  Stale' <= Stale
  <2>1. PICK q : q = do_read(r)
    OBVIOUS
  <2>2. q.conn = sess[s].conn /\ q.next = sess[s].next
    BY <1>3, <2>1 DEF do_read, Session
  <2> QED BY <1>3, <2>1, <2>2, KeepsStale
<1>4. CASE accept(s)
  <2>1. sess' = [sess EXCEPT ![s] = do_read(sess[s])] /\ UNCHANGED <<pool, draining>>
    BY <1>4, Zenon DEF accept
  <2> QED BY <1>1, <1>3, <2>1
<1>5. CASE on_write(s)
  <2>1. PICK r : r = [sess[s] EXCEPT !.status = 0]
    OBVIOUS
  <2>2. r \in Session /\ r.conn = sess[s].conn /\ r.next = sess[s].next
    BY <1>1, <2>1 DEF Session
  <2>3. sess' = [sess EXCEPT ![s] = do_read(r)] /\ UNCHANGED <<pool, draining>>
    BY <1>5, <2>1, Zenon DEF on_write
  <2> QED BY <1>3, <2>2, <2>3
<1>6. CASE on_read_header(s)
  <2>1. PICK op \in Ops, cookie \in BOOLEAN :
          LET r == [sess[s] EXCEPT !.op = op, !.cookie = cookie /\ op # "login", !.owed = @ + 1]
          IN sess' = [sess EXCEPT ![s] =
               IF op = "invalid" THEN Rejected(r)
               ELSE [r EXCEPT !.pc = IF r.cookie THEN "verify" ELSE "body"]]
    BY <1>6, Zenon DEF on_read_header
  <2>2. PICK known, owed : known = (cookie /\ op # "login") /\ owed = sess[s].owed + 1
    OBVIOUS
  <2>3. PICK r : r = [sess[s] EXCEPT !.op = op, !.cookie = known, !.owed = owed]
    OBVIOUS
  <2>4. PICK q : q = [r EXCEPT !.pc = IF r.cookie THEN "verify" ELSE "body"]
    OBVIOUS
  <2>5. sess' = [sess EXCEPT ![s] = IF op = "invalid" THEN Rejected(r) ELSE q]
    BY <2>1, <2>2, <2>3, <2>4, Zenon
  <2>6. r.conn = sess[s].conn /\ r.next = sess[s].next
    BY <1>1, <2>3 DEF Session
  <2>7. q.conn = sess[s].conn /\ q.next = sess[s].next
    BY <1>1, <2>3, <2>4 DEF Session
  <2>8. UNCHANGED <<pool, draining>>
    BY <1>6 DEF on_read_header
  <2>9. CASE op = "invalid"
    <3>1. PICK p : p = Responded(r, 400, TRUE)
      OBVIOUS
    <3>2. sess' = [sess EXCEPT ![s] = p]
      BY <2>5, <2>9, <3>1, Zenon DEF Rejected
    <3>3. p.conn = sess[s].conn /\ p.next = sess[s].next
      BY <2>6, <3>1 DEF Responded
    <3> QED BY <2>8, <3>2, <3>3, KeepsStale
  <2>10. CASE op # "invalid"
    <3>1. sess' = [sess EXCEPT ![s] = q]
      BY <2>5, <2>10
    <3> QED BY <2>7, <2>8, <3>1, KeepsStale
  <2> QED BY <2>9, <2>10
<1>7. CASE on_garbage(s)
  <2>1. PICK r : r = [sess[s] EXCEPT !.owed = 1]
    OBVIOUS
  <2>2. PICK unread \in BOOLEAN : sess' = [sess EXCEPT ![s] = Responded(r, 400, unread)]
    BY <1>7, <2>1, ZenonT(30) DEF on_garbage
  <2>3. r.conn = sess[s].conn /\ r.next = sess[s].next
    BY <1>1, <2>1 DEF Session
  <2>4. UNCHANGED <<pool, draining>>
    BY <1>7 DEF on_garbage
  <2>5. PICK q : q = Responded(r, 400, unread)
    OBVIOUS
  <2>6. q.conn = sess[s].conn /\ q.next = sess[s].next
    BY <2>3, <2>5 DEF Responded
  <2> QED BY <2>2, <2>4, <2>5, <2>6, KeepsStale, ZenonT(30)
<1>8. ASSUME Break(s, Responded(sess[s], 500, HasBody(sess[s].op)))
             \/ Break(s, Responded(sess[s], Status[sess[s].op].error, FALSE))
      PROVE  Stale' <= Stale
  BY <1>8, BreakStale, ZenonT(30)
<1>9. CASE on_read(s)
  <2>1. UNCHANGED <<pool, draining>>
    BY <1>9 DEF on_read
  <2>2. \/ sess' = [sess EXCEPT ![s] = Responded(sess[s], 400, TRUE)]
        \/ \E status \in Early[sess[s].op] : sess' = [sess EXCEPT ![s] = Responded(sess[s], status, FALSE)]
        \/ sess' = [sess EXCEPT ![s].pc = "command", ![s].cookie = FALSE]
    BY <1>9, Zenon DEF on_read
  <2>3. CASE sess' = [sess EXCEPT ![s].pc = "command", ![s].cookie = FALSE]
    <3>1. PICK known : known = FALSE
      OBVIOUS
    <3>2. PICK q : q = [sess[s] EXCEPT !.pc = "command", !.cookie = known]
      OBVIOUS
    <3>3. [sess EXCEPT ![s].pc = "command", ![s].cookie = known] = [sess EXCEPT ![s] = q]
      BY <1>1, <3>2
    <3>4. sess' = [sess EXCEPT ![s] = q]
      BY <2>3, <3>1, <3>3, Zenon
    <3>5. q.conn = sess[s].conn /\ q.next = sess[s].next
      BY <1>1, <3>2 DEF Session
    <3> QED BY <2>1, <3>4, <3>5, KeepsStale
  <2> QED BY <1>2, <2>1, <2>2, <2>3, ZenonT(30)
<1>10. CASE execute(s)
  <2>1. PICK done : sess' = [sess EXCEPT ![s] = [sess[s] EXCEPT !.done = done]]
    BY <1>10, Zenon DEF execute
  <2>2. PICK q : q = [sess[s] EXCEPT !.done = done]
    OBVIOUS
  <2>3. q.conn = sess[s].conn /\ q.next = sess[s].next
    BY <1>1, <2>2 DEF Session
  <2>4. UNCHANGED <<pool, draining>>
    BY <1>10 DEF execute
  <2> QED BY <2>1, <2>2, <2>3, <2>4, KeepsStale
<1>11. CASE on_verified(s)
  <2>1. CASE sess' = [sess EXCEPT ![s].pc = "body"] /\ UNCHANGED <<pool, draining, up>>
    <3>1. PICK q : q = [sess[s] EXCEPT !.pc = "body"]
      OBVIOUS
    <3>2. sess' = [sess EXCEPT ![s] = q] /\ UNCHANGED <<pool, draining>>
      BY <2>1, <3>1, Zenon
    <3>3. q.conn = sess[s].conn /\ q.next = sess[s].next
      BY <1>1, <3>1 DEF Session
    <3> QED BY <3>2, <3>3, KeepsStale
  <2>2. CASE sess' = [sess EXCEPT ![s] = Responded(@, 500, TRUE)] /\ UNCHANGED <<pool, draining, up>>
    <3>1. sess' = [sess EXCEPT ![s] = Responded(sess[s], 500, TRUE)] /\ UNCHANGED <<pool, draining>>
      BY <2>2, Zenon
    <3> QED BY <1>2, <3>1, ZenonT(30)
  <2> QED BY <1>8, <1>11, <2>1, <2>2, Zenon DEF on_verified
<1>12. CASE on_reply(s)
  <2>1. CASE /\ sess' = [sess EXCEPT ![s] = Responded(@, Status[sess[s].op][sess[s].done], FALSE)]
             /\ UNCHANGED <<pool, draining, up>>
    <3>1. PICK status : status = Status[sess[s].op][sess[s].done]
      OBVIOUS
    <3>2. sess' = [sess EXCEPT ![s] = Responded(sess[s], status, FALSE)] /\ UNCHANGED <<pool, draining>>
      BY <2>1, <3>1, Zenon
    <3> QED BY <1>2, <3>2, Zenon
  <2> QED BY <1>8, <1>12, <2>1, Zenon DEF on_reply
<1> QED BY <1>4, <1>5, <1>6, <1>7, <1>9, <1>10, <1>11, <1>12, SMTT(30)

\* No reply of redis is answered with a server error.
LEMMA RepliesAreNoErrors ==
  \A op \in DOMAIN Status : \A done \in {"ok", "absent"} : Status[op][done] \div 100 # 5
BY DEF Status

\* A request of session s that its connection fails takes a stale socket with it.
LEMMA FailsStale ==
  ASSUME IInv, Next, NEW s \in Sessions, Fails(s)
  PROVE  Stale' < Stale
<1>1. /\ sess \in [Sessions -> Session] /\ sess[s] \in Session /\ sess[s].status = 0
      /\ sess[s].pc \in {"verify", "command"} /\ sess'[s].status = 5 /\ sess[s].op # "upload"
      /\ sess[s].pc = "command" => sess[s].op \in DOMAIN Status
      /\ sess[s].done \in {"none", "ok", "absent"}
  BY DEF IInv, SessionOK, Fails, Session
<1>2. ASSUME drain \/ redis_up PROVE FALSE
  BY <1>1, <1>2 DEF drain, redis_up
<1>3. ASSUME redis_down PROVE FALSE
  <2>1. PICK a, b : sess'[s] = [sess[s] EXCEPT !.conn = a, !.next = b]
    BY <1>3, Zenon DEF redis_down
  <2>2. PICK q : q = [sess[s] EXCEPT !.conn = a, !.next = b]
    OBVIOUS
  <2>3. q.status = sess[s].status
    BY <1>1, <2>2 DEF Session
  <2>4. sess'[s] = q
    BY <2>1, <2>2, SMTT(30)
  <2> QED BY <1>1, <2>3, <2>4
<1>4. ASSUME NEW t \in Sessions, t # s,
             \/ accept(t) \/ Work(t) \/ on_read_header(t) \/ on_garbage(t) \/ on_read(t) \/ on_write(t) \/ end(t)
      PROVE  FALSE
  BY <1>1, <1>4, OthersKeep, SMTT(30)
<1>5. ~ (\/ accept(s) \/ get_sock(s) \/ connect(s) \/ emplace(s)
         \/ on_read_header(s) \/ on_garbage(s) \/ on_read(s) \/ on_write(s) \/ end(s))
  BY <1>1 DEF accept, get_sock, connect, emplace, on_read_header, on_garbage, on_read, on_write, end
<1>6. ASSUME execute(s) PROVE FALSE
  <2>1. ASSUME NEW done PROVE [sess EXCEPT ![s].done = done][s].status = sess[s].status
    BY <1>1 DEF Session
  <2>2. \E done : sess' = [sess EXCEPT ![s].done = done]
    BY <1>6, Zenon DEF execute
  <2>3. sess'[s].status = sess[s].status
    BY <2>1, <2>2, Zenon
  <2> QED BY <1>1, <2>3
<1>7. CASE on_verified(s)
  <2>1. ASSUME sess' = [sess EXCEPT ![s].pc = "body"] PROVE FALSE
    <3>1. [sess EXCEPT ![s].pc = "body"][s].status = sess[s].status
      BY <1>1 DEF Session
    <3> QED BY <1>1, <2>1, <3>1
  <2>2. Break(s, Responded(sess[s], 500, HasBody(sess[s].op)))
    BY <1>1, <1>7, <2>1, Zenon DEF on_verified
  <2> QED BY <2>2, BreakStale
<1>8. CASE on_reply(s)
  <2>1. ASSUME sess[s].done # "none",
               sess' = [sess EXCEPT ![s] = Responded(@, Status[sess[s].op][sess[s].done], FALSE)]
        PROVE  FALSE
    <3>1. PICK status : status = Status[sess[s].op][sess[s].done]
      OBVIOUS
    <3>2. sess'[s] = Responded(sess[s], status, FALSE)
      BY <1>1, <2>1, <3>1, SMTT(30)
    <3>3. sess'[s].status = status \div 100
      BY <3>2, SMTT(30) DEF Responded
    <3>4. sess[s].op \in DOMAIN Status /\ sess[s].done \in {"ok", "absent"}
      BY <1>1, <1>8, <2>1 DEF on_reply
    <3> QED BY <1>1, <3>1, <3>3, <3>4, RepliesAreNoErrors
  <2>2. Break(s, Responded(sess[s], Status[sess[s].op].error, FALSE))
    BY <1>8, <2>1, Zenon DEF on_reply
  <2> QED BY <2>2, BreakStale
<1> QED BY <1>2, <1>3, <1>4, <1>5, <1>6, <1>7, <1>8, SMTT(30) DEF Next, Work

\* Every request that redis fails is paid for with a socket that was open when redis
\* ended, and none becomes stale while redis is up, for any number of sessions and
\* whatever sockets the pool holds.
THEOREM FailuresArePaid == Spec => FailuresPaid
<1> DEFINE Paid == /\ up /\ up' => Stale' <= Stale
                   /\ (\E s \in Sessions : Fails(s)) => Stale' < Stale
<1>1. ASSUME IInv, Next PROVE Paid
  <2>1. ASSUME NEW s \in Sessions, Fails(s) PROVE Stale' < Stale
    BY <1>1, <2>1, FailsStale
  <2>2. ASSUME up, up' PROVE Stale' <= Stale
    <3>1. CASE drain
      BY <1>1, <3>1, DrainStale
    <3>2. ~ redis_down /\ ~ redis_up
      BY <2>2 DEF redis_down, redis_up
    <3>3. ASSUME NEW s \in Sessions, get_sock(s) \/ connect(s) \/ emplace(s) \/ end(s)
          PROVE  Stale' <= Stale
      BY <1>1, <3>3, GetSockStale, ConnectStale, EmplaceStale, EndStale, SMTT(30)
    <3>4. ASSUME NEW s \in Sessions,
                 \/ accept(s) \/ on_write(s) \/ on_read_header(s) \/ on_garbage(s) \/ on_read(s)
                 \/ on_verified(s) \/ execute(s) \/ on_reply(s)
          PROVE  Stale' <= Stale
      BY <1>1, <3>4, QuietStale
    <3> QED BY <1>1, <3>1, <3>2, <3>3, <3>4 DEF Next, Work
  <2> QED BY <2>1, <2>2
<1>2. IInv /\ [Next]_vars => [Paid]_vars
  BY <1>1
<1> QED BY <1>2, Invariance, PTL DEF Spec, FailuresPaid

================================================================================
