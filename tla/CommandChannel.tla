---------------------------- MODULE CommandChannel ----------------------------
(***************************************************************************)
(* What redis::Connection promises to the code that issues commands        *)
(* (Connection::command, src/src/server/net/Redis.hh): the callback of     *)
(* every command is called once, the callbacks of successful commands in   *)
(* the order of issue, each with the reply to its own command; when the    *)
(* connection fails, every command still waiting is told so.               *)
(***************************************************************************)
EXTENDS Integers, Sequences, Functions

CONSTANTS Cmds, Null

VARIABLES
  waiting,    \* the commands whose callback is to be called, in order of issue
  finished    \* the calls: the command, and that whose reply it got, or Null

vars == <<waiting, finished>>

Issued == Range(waiting) \union {finished[i].cmd : i \in DOMAIN finished}

Issue(c) ==
  /\ c \notin Issued
  /\ waiting' = Append(waiting, c)
  /\ UNCHANGED finished

\* The first n waiting commands are called back, some of them with an error (the
\* commands of an aborted transaction).
Answer(n) ==
  /\ n <= Len(waiting)
  /\ waiting' = SubSeq(waiting, n + 1, Len(waiting))
  /\ Len(finished') = Len(finished) + n
  /\ SubSeq(finished', 1, Len(finished)) = finished
  /\ \A i \in 1 .. n : finished'[Len(finished) + i] \in [cmd : {waiting[i]}, of : {waiting[i], Null}]

\* All the waiting commands are called back with an error, in any order.
Fail ==
  /\ waiting' = <<>>
  /\ Len(finished') = Len(finished) + Len(waiting)
  /\ SubSeq(finished', 1, Len(finished)) = finished
  /\ Range(SubSeq(finished', Len(finished) + 1, Len(finished'))) = [cmd : Range(waiting), of : {Null}]

Init == waiting = <<>> /\ finished = <<>>

Next == (\E c \in Cmds : Issue(c)) \/ (\E n \in 1 .. Len(waiting) : Answer(n)) \/ Fail

Spec == Init /\ [][Next]_vars
=============================================================================
