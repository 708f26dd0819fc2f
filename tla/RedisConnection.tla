---------------------------- MODULE RedisConnection ----------------------------
(***************************************************************************)
(* A redis connection (redis::Connection, src/src/server/net/Redis.cc):    *)
(* pipelined commands, callbacks matched to replies by position,           *)
(* transactions, and the ways it can break.                                *)
(*                                                                         *)
(* The handlers of a connection run on its strand, and the server has one  *)
(* thread unless configured otherwise: a handler runs to its end, except   *)
(* that a callback it calls may issue commands.  A callback is therefore   *)
(* a step of its own.  The model goes on where an assertion fails, as the  *)
(* release build does.                                                     *)
(***************************************************************************)
EXTENDS Integers, Sequences, Functions

CONSTANTS
  Cmds,       \* the commands issued
  Faults,     \* whether the link to redis can fail or carry garbage
  TxErrors,   \* whether redis can refuse to queue a command of a transaction
  Null

ASSUME ConnectionAssumption ==
  /\ Null \notin Cmds \union Seq(Cmds)
  /\ Faults \in BOOLEAN /\ TxErrors \in BOOLEAN

VARIABLES
  callbacks,  \* m_callbacks
  queued,     \* m_queued_callbacks
  buffer,     \* the replies on_read has got and not used: m_reader
  pc,         \* where on_read is: "idle" when it does not run
  reads,      \* outstanding async_read_some
  writes,     \* the commands of the outstanding async_write
  open,       \* whether m_socket is open
  calls,      \* the callbacks called (history)
  multi,      \* whether the client is between MULTI and EXEC
  link,       \* external: whether redis is at the other end
  wire,       \* external: the commands on their way to redis
  replies,    \* external: the replies on their way back
  txn         \* external: the commands redis has queued, or Null

client == <<callbacks, queued, buffer, pc, reads, open, calls>>

redis == <<link, wire, replies, txn>>

vars == <<client, writes, multi, redis>>

\* The callbacks of the commands cs are called with an error instead of a reply.
Failed(cs) == [i \in 1 .. Len(cs) |-> [cmd |-> cs[i], of |-> Null]]

-----------------------------------------------------------------------------
(* Writing *)

Issued(c) ==
  \/ c \in Range(callbacks) \union Range(queued)
  \/ \E i \in DOMAIN calls : calls[i].cmd = c

\* A bug: a read is started for every command.
FirstOfManyAlways(n) == TRUE

\* A read is started for the first callback; on_read goes on while there are more.
FirstOfMany(n) == n = 1

\* The callback is queued before the command is sent.
do_write(c, kind) ==
  /\ callbacks' = Append(callbacks, c)
  /\ reads' = IF FirstOfMany(Len(callbacks')) THEN reads + 1 ELSE reads
  /\ writes' = Append(writes, [cmd |-> c, kind |-> kind])

\* A command is issued by the session, or by a callback that on_read has called
\* without an error.  A session that was told of the failure answers the request
\* with an error and lets the connection go.
command(c, kind) ==
  /\ ~ Issued(c)
  /\ open \/ \A i \in DOMAIN calls : calls[i].of # Null
  /\ pc \in {"idle", "called"}
  /\ multi = (kind = "EXEC") \/ kind = "plain"
  /\ multi' = CASE kind = "MULTI" -> TRUE [] kind = "EXEC" -> FALSE [] OTHER -> multi
  /\ do_write(c, kind)
  /\ UNCHANGED <<queued, buffer, pc, open, calls, redis>>

\* A bug: the callbacks of queued commands are forgotten.
DroppedCallbacksQueue == callbacks

\* The callbacks disconnect calls, in its order.
DroppedCallbacks == queued \o callbacks

\* A bug: disconnect leaves the socket open.
OpenStill == open

\* m_socket.close().
OpenClosed == FALSE

\* disconnect, after the callbacks in dropped have been called with an error.
Disconnect(dropped) ==
  /\ calls' = calls \o Failed(dropped)
  /\ callbacks' = <<>> /\ queued' = <<>> /\ buffer' = <<>>
  /\ pc' = "idle"
  /\ open' = OpenClosed

\* The completion of an async_write that failed.  Those that succeed do nothing.
on_write_error ==
  /\ pc = "idle"
  /\ writes # <<>>
  /\ ~ open \/ ~ link
  /\ writes' = Tail(writes)
  /\ Disconnect(DroppedCallbacks)
  /\ UNCHANGED <<reads, multi, redis>>

-----------------------------------------------------------------------------
(* Reading *)

\* on_read begins with the first n replies that have arrived.
on_read(n) ==
  /\ pc = "idle"
  /\ reads > 0 /\ open
  /\ n <= Len(replies)
  /\ buffer' = SubSeq(replies, 1, n)
  /\ replies' = SubSeq(replies, n + 1, Len(replies))
  /\ reads' = reads - 1
  /\ pc' = "loop"
  /\ UNCHANGED <<callbacks, queued, open, calls, writes, multi, link, wire, txn>>

\* on_read with an error: the peer is gone, or the socket was closed.
on_read_error ==
  /\ pc = "idle"
  /\ reads > 0
  /\ ~ open \/ (~ link /\ replies = <<>>)
  /\ reads' = reads - 1
  /\ Disconnect(DroppedCallbacks)
  /\ UNCHANGED <<writes, multi, redis>>

\* A redis reply in the loop of on_read, for the callback at the front.
Reading(status) ==
  /\ pc = "loop"
  /\ buffer # <<>> /\ callbacks # <<>>
  /\ Head(buffer).status \in status
  /\ buffer' = Tail(buffer)

\* QUEUED: the callback waits for EXEC.
on_queued ==
  /\ Reading({"QUEUED"})
  /\ queued' = Append(queued, Head(callbacks))
  /\ callbacks' = Tail(callbacks)
  /\ UNCHANGED <<pc, reads, open, calls, writes, multi, redis>>

\* A bug: the replies of a transaction go to its callbacks in reverse order.
ExecReversed(reply) ==
  LET n == Len(queued) IN [i \in 1 .. n |-> [cmd |-> queued[i], of |-> reply.items[n + 1 - i]]]

\* The replies of an executed transaction, one by one, to the queued callbacks.
ExecReplies(reply) == [i \in 1 .. Len(queued) |-> [cmd |-> queued[i], of |-> reply.items[i]]]

\* What on_exec_transaction calls: the queued callbacks if the reply tells
\* their fate, and that of EXEC.
on_exec_transaction ==
  /\ queued # <<>>
  /\ Reading({"data", "OK", "nil", "array"})
  /\ LET reply == Head(buffer)
         first == CASE reply.status \in {"nil", "OK"} -> Failed(queued)
                    [] reply.status = "array" /\ Len(reply.items) = Len(queued) -> ExecReplies(reply)
                    [] OTHER -> <<>>
     IN calls' = calls \o first \o <<[cmd |-> Head(callbacks), of |-> reply.of]>>
  /\ queued' = <<>>
  /\ pc' = "called"
  /\ UNCHANGED <<callbacks, reads, open, writes, multi, redis>>

\* Any other reply: the callback at the front is called with it.
on_reply ==
  /\ queued = <<>>
  /\ Reading({"data", "OK", "nil", "array"})
  /\ calls' = Append(calls, [cmd |-> Head(callbacks), of |-> Head(buffer).of])
  /\ pc' = "called"
  /\ UNCHANGED <<callbacks, queued, reads, open, writes, multi, redis>>

\* The callback has returned, and is removed.
pop_front ==
  /\ pc = "called"
  /\ callbacks' = Tail(callbacks)
  /\ pc' = "loop"
  /\ UNCHANGED <<queued, buffer, reads, open, calls, writes, multi, redis>>

\* Whether on_read starts another read.
KeepReading == IF callbacks # <<>> THEN reads + 1 ELSE reads

\* The loop has used all replies.
on_read_end ==
  /\ pc = "loop" /\ buffer = <<>>
  /\ reads' = KeepReading
  /\ pc' = "idle"
  /\ UNCHANGED <<callbacks, queued, buffer, open, calls, writes, multi, redis>>

\* Redis has sent more replies than requested.
on_read_extra ==
  /\ Faults
  /\ pc = "loop" /\ buffer = <<>> /\ callbacks = <<>>
  /\ Disconnect(DroppedCallbacks)
  /\ UNCHANGED <<reads, writes, multi, redis>>

\* The replies cannot be parsed: the callbacks at the front fail before those
\* that disconnect drops.
on_parse_error ==
  /\ Faults
  /\ pc = "loop" /\ buffer # <<>>
  /\ Disconnect(callbacks \o queued)
  /\ UNCHANGED <<reads, writes, multi, redis>>

-----------------------------------------------------------------------------
(* Redis and the network (external) *)

\* A command reaches redis.
transmit ==
  /\ open /\ link /\ writes # <<>>
  /\ wire' = Append(wire, Head(writes))
  /\ writes' = Tail(writes)
  /\ UNCHANGED <<client, multi, link, replies, txn>>

\* Redis answers command c.
Reply(status, c, items) ==
  replies' = Append(replies, [status |-> status, of |-> c, items |-> items])

\* Redis executes commands in order; between MULTI and EXEC it queues them.
serve ==
  /\ link /\ wire # <<>>
  /\ wire' = Tail(wire)
  /\ LET c == Head(wire).cmd
         kind == Head(wire).kind
     IN \/ /\ kind = "MULTI"
           /\ Reply("OK", c, <<>>) /\ txn' = <<>>
        \/ /\ kind = "EXEC"
           /\ Reply("array", c, txn) \/ Reply("nil", c, <<>>)
           /\ txn' = Null
        \/ /\ kind = "plain" /\ txn = Null
           /\ Reply("data", c, <<>>) /\ UNCHANGED txn
        \/ /\ kind = "plain" /\ txn # Null
           /\ Reply("QUEUED", c, <<>>) /\ txn' = Append(txn, c)
        \/ /\ kind = "plain" /\ txn # Null /\ TxErrors
           /\ Reply("data", c, <<>>) /\ UNCHANGED txn
  /\ UNCHANGED <<client, writes, multi, link>>

\* Redis goes away; the replies on their way may be lost with it.
break ==
  /\ Faults /\ link
  /\ link' = FALSE
  /\ wire' = <<>>
  /\ replies' \in {replies, <<>>}
  /\ UNCHANGED <<client, writes, multi, txn>>

Init ==
  /\ callbacks = <<>> /\ queued = <<>> /\ buffer = <<>> /\ pc = "idle"
  /\ reads = 0 /\ writes = <<>> /\ open = TRUE /\ calls = <<>> /\ multi = FALSE
  /\ link = TRUE /\ wire = <<>> /\ replies = <<>> /\ txn = Null

OnRead ==
  \/ \E n \in 1 .. Len(replies) : on_read(n)
  \/ on_read_error \/ on_queued \/ on_exec_transaction \/ on_reply
  \/ pop_front \/ on_read_end \/ on_read_extra \/ on_parse_error

Next ==
  \/ \E c \in Cmds, kind \in {"plain", "MULTI", "EXEC"} : command(c, kind)
  \/ on_write_error \/ OnRead
  \/ transmit \/ serve \/ break

\* The io_context runs every handler that is ready; redis serves what it gets.
Fairness == WF_vars(OnRead) /\ WF_vars(on_write_error) /\ WF_vars(transmit) /\ WF_vars(serve)

Spec == Init /\ [][Next]_vars /\ Fairness

-----------------------------------------------------------------------------
(* Properties *)

\* At most one read is outstanding, as two would share m_read_buf.  Whenever no
\* handler runs and commands wait there is one, which also keeps the connection
\* alive; when none wait there is none, unless a failed write has closed the
\* socket under it.
OneRead ==
  /\ reads <= 1
  /\ pc = "idle" => IF callbacks # <<>> THEN reads = 1 ELSE reads = 0 \/ ~ open

\* When a connection has nothing left to do, so that it may be destroyed and its
\* open socket go back to the pool, no reply is left in the socket that the next
\* connection would take for its own.
CleanReuse ==
  pc = "idle" /\ reads = 0 /\ callbacks = <<>> /\ writes = <<>> /\ open => wire = <<>> /\ replies = <<>>

\* The connection as a channel for commands.
Channel == INSTANCE CommandChannel WITH
  waiting <- queued \o (IF pc = "called" THEN Tail(callbacks) ELSE callbacks),
  finished <- calls

\* Connection::command keeps its promise: each callback is called once, with the
\* reply to its own command and in the order of issue, through pipelining,
\* transactions and disconnections.
ChannelSpec == Channel!Spec

\* Every command issued has its callback called, whatever happens to redis,
\* unless it is queued in a transaction that the client does not end.
EveryCommandAnswered ==
  \A c \in Cmds :
    Issued(c) ~> \/ \E i \in DOMAIN calls : calls[i].cmd = c
                 \/ multi /\ c \in Range(queued)

-----------------------------------------------------------------------------
(* What an assertion says and a failed write breaks *)

\* assert(!m_callbacks.empty()) at the start of on_read: the handler of a read
\* that is ready finds a callback waiting.
OnReadAssertion ==
  pc = "idle" /\ reads > 0 /\ (replies # <<>> \/ ~ open \/ ~ link) => callbacks # <<>>
=============================================================================
