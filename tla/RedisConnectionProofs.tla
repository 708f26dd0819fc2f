------------------------- MODULE RedisConnectionProofs -------------------------
(***************************************************************************)
(* Proofs about RedisConnection, for any commands, with or without faults. *)
(*                                                                         *)
(* OneRead needs to know that a connection whose socket was closed under   *)
(* its read has told somebody, who then issues no more commands; and that  *)
(* the callback that is being called is still in m_callbacks, so that the  *)
(* commands it issues start no read.  CleanReuse needs to know that every  *)
(* reply that is on its way, and every command that will get one, has its  *)
(* callback in m_callbacks.                                                *)
(*                                                                         *)
(* That commands are answered in order, as CommandChannel promises, needs  *)
(* to know more of the way between the two ends: the replies that arrive,  *)
(* followed by the commands that redis has still to read, are those of the *)
(* callbacks, one by one, and each reply moves the transaction that the    *)
(* client has collected to the one that redis is in.                       *)
(***************************************************************************)
EXTENDS RedisConnection, SequenceTheorems, TLAPS

IsSeq(s) == s \in Seq({s[i] : i \in DOMAIN s})

\* A callback was called with an error.
SomeFailed(cs) == \E i \in DOMAIN cs : cs[i].of = Null

\* The callbacks that wait for a reply of their own: not that which is being called.
Unanswered == Len(callbacks) - (IF pc = "called" THEN 1 ELSE 0)

\* The sequences of the model.
SeqTypes ==
  /\ callbacks \in Seq(Cmds) /\ queued \in Seq(Cmds)
  /\ IsSeq(calls) /\ IsSeq(buffer) /\ IsSeq(writes) /\ IsSeq(wire) /\ IsSeq(replies)

\* The read and the callbacks.
ReadInv ==
  /\ reads \in 0 .. 1 /\ pc \in {"idle", "loop", "called"} /\ open \in BOOLEAN
  /\ ~ open => pc = "idle" /\ queued = <<>>
  /\ pc = "called" => callbacks # <<>>
  /\ pc # "idle" => reads = 0
  /\ pc = "idle" => IF callbacks # <<>> THEN reads = 1 ELSE reads = 0 \/ (~ open /\ SomeFailed(calls))

\* The replies that are on their way.
InFlight == Len(writes) + Len(wire) + Len(replies) + Len(buffer)

\* The inductive invariant.
IInv == SeqTypes /\ ReadInv /\ (open => InFlight <= Unanswered)

(* For CommandChannel: the way of the commands and replies of an open connection *)

\* The callbacks that wait for a reply, in order.
Expected == IF pc = "called" THEN Tail(callbacks) ELSE callbacks

\* The replies the loop of on_read has still to see, and the commands redis has.
Arriving == buffer \o replies
Sent == wire \o writes

\* What a reply says of the transaction: q are the commands queued before, q1 those
\* queued after it, Null when there is no transaction.
TxStep(q, r, q1) ==
  \/ r.status = "data" /\ q = Null /\ q1 = Null
  \/ r.status = "OK" /\ q = Null /\ q1 = <<>>
  \/ r.status = "QUEUED" /\ q # Null /\ q1 = Append(q, r.of)
  \/ r.status = "nil" /\ q # Null /\ q1 = Null
  \/ r.status = "array" /\ q # Null /\ r.items = q /\ q1 = Null

\* What a command makes of it: b and b1 are 1 within a transaction.
KindStep(b, kind, b1) ==
  \/ kind = "plain" /\ b1 = b
  \/ kind = "MULTI" /\ b = 0 /\ b1 = 1
  \/ kind = "EXEC" /\ b = 1 /\ b1 = 0

\* The replies R are those to the first commands of U, with the transactions of
\* redis, q being what the client has queued.
Matched(U, R, q, t, up) ==
  /\ Len(R) <= Len(U)
  /\ \A i \in 1 .. Len(R) : R[i].of = U[i]
  /\ \E f : /\ q = IF f[0] = Null THEN <<>> ELSE f[0]
            /\ \A i \in 1 .. Len(R) : TxStep(f[i - 1], R[i], f[i])
            /\ up => f[Len(R)] = t

\* The commands W are the other commands of U, with MULTI and EXEC in turn, and t
\* is what redis has queued, and m whether the client is between them.
Ordered(U, R, W, t, m) ==
  /\ Len(U) = Len(R) + Len(W)
  /\ \A i \in 1 .. Len(W) : W[i].cmd = U[Len(R) + i]
  /\ t \in Seq(Cmds) \union {Null}
  /\ \E g : /\ g[0] = IF t = Null THEN 0 ELSE 1
            /\ \A i \in 1 .. Len(W) : KindStep(g[i - 1], W[i].kind, g[i])
            /\ g[Len(W)] = IF m THEN 1 ELSE 0

\* The inductive invariant of the refinement.
CInv ==
  /\ IInv
  /\ pc = "idle" => buffer = <<>>
  /\ open => Matched(Expected, Arriving, queued, txn, link)
  /\ open /\ link => Ordered(Expected, Arriving, Sent, txn, multi)

-----------------------------------------------------------------------------
(* Sequences of anything *)

\* A sequence over some set is a sequence of its elements.
LEMMA SeqIsSeq == ASSUME NEW S, NEW s \in Seq(S) PROVE IsSeq(s) /\ Len(s) \in Nat
BY DEF IsSeq

\* Adding an item to a sequence.
LEMMA AppendIsSeq ==
  ASSUME NEW s, IsSeq(s), NEW x
  PROVE  IsSeq(Append(s, x)) /\ Len(Append(s, x)) = Len(s) + 1 /\ Len(s) \in Nat
<1> DEFINE T == {s[i] : i \in DOMAIN s} \union {x}
<1>1. s \in Seq({s[i] : i \in DOMAIN s})
  BY DEF IsSeq
<1>2. s \in Seq(T) /\ x \in T
  BY <1>1
<1> HIDE DEF T
<1>3. Append(s, x) \in Seq(T) /\ Len(Append(s, x)) = Len(s) + 1
  BY <1>2
<1> QED BY <1>2, <1>3, SeqIsSeq

\* Removing the first item of a sequence.
LEMMA TailIsSeq ==
  ASSUME NEW s, IsSeq(s), s # <<>>
  PROVE  IsSeq(Tail(s)) /\ Len(Tail(s)) = Len(s) - 1 /\ Len(s) \in Nat /\ Len(s) >= 1
<1> DEFINE T == {s[i] : i \in DOMAIN s}
<1>1. s \in Seq(T)
  BY DEF IsSeq
<1> HIDE DEF T
<1>2. Tail(s) \in Seq(T) /\ Len(Tail(s)) = Len(s) - 1 /\ Len(s) \in Nat /\ Len(s) >= 1
  BY <1>1
<1> QED BY <1>2, SeqIsSeq

\* Splitting a sequence.
LEMMA SplitIsSeq ==
  ASSUME NEW s, IsSeq(s), NEW n \in Nat, n <= Len(s)
  PROVE  /\ IsSeq(SubSeq(s, 1, n)) /\ Len(SubSeq(s, 1, n)) = n
         /\ IsSeq(SubSeq(s, n + 1, Len(s))) /\ Len(SubSeq(s, n + 1, Len(s))) = Len(s) - n
         /\ Len(s) \in Nat
<1> DEFINE T == {s[i] : i \in DOMAIN s}
<1>1. s \in Seq(T)
  BY DEF IsSeq
<1> HIDE DEF T
<1>2. SubSeq(s, 1, n) \in Seq(T) /\ SubSeq(s, n + 1, Len(s)) \in Seq(T) /\ Len(s) \in Nat
  BY <1>1
<1>3. Len(SubSeq(s, 1, n)) = n
  BY <1>1
<1>4. Len(SubSeq(s, n + 1, Len(s))) = Len(s) - n
  BY <1>1
<1> QED BY <1>2, <1>3, <1>4, SeqIsSeq

\* Joining two sequences.
LEMMA CatIsSeq ==
  ASSUME NEW s, NEW t, IsSeq(s), IsSeq(t)
  PROVE  /\ IsSeq(s \o t)
         /\ SomeFailed(s) \/ SomeFailed(t) => SomeFailed(s \o t)
<1> DEFINE T == {s[i] : i \in DOMAIN s} \union {t[i] : i \in DOMAIN t}
<1>1. s \in Seq({s[i] : i \in DOMAIN s}) /\ t \in Seq({t[i] : i \in DOMAIN t})
  BY DEF IsSeq
<1>2. s \in Seq(T) /\ t \in Seq(T)
  BY <1>1
<1> HIDE DEF T
<1>3. s \o t \in Seq(T) /\ Len(s) \in Nat /\ Len(t) \in Nat /\ Len(s \o t) = Len(s) + Len(t)
  BY <1>2
<1>4. ASSUME NEW i \in DOMAIN s PROVE i \in DOMAIN (s \o t) /\ (s \o t)[i] = s[i]
  BY <1>2, <1>4
<1>5. ASSUME NEW i \in DOMAIN t PROVE Len(s) + i \in DOMAIN (s \o t) /\ (s \o t)[Len(s) + i] = t[i]
  BY <1>2, <1>5
<1>6. SomeFailed(s) => SomeFailed(s \o t)
  BY <1>4 DEF SomeFailed
<1>7. SomeFailed(t) => SomeFailed(s \o t)
  BY <1>5 DEF SomeFailed
<1> QED BY <1>3, <1>6, <1>7, SeqIsSeq

\* A function on 1 .. n is a sequence.
LEMMA FunctionIsSeq ==
  ASSUME NEW n \in Nat, NEW f, f = [i \in 1 .. n |-> f[i]]
  PROVE  IsSeq(f)
<1> DEFINE T == {f[i] : i \in DOMAIN f}
<1>1. f \in [1 .. n -> T]
  OBVIOUS
<1> HIDE DEF T
<1>2. f \in Seq(T)
  BY <1>1
<1> QED BY <1>2, SeqIsSeq

\* The shortest sequences.
LEMMA ShortIsSeq == IsSeq(<<>>) /\ Len(<<>>) = 0 /\ \A x : IsSeq(<<x>>)
<1>1. <<>> \in Seq({}) /\ Len(<<>>) = 0
  OBVIOUS
<1>2. ASSUME NEW x PROVE IsSeq(<<x>>)
  <2>1. <<x>> \in Seq({x})
    OBVIOUS
  <2> QED BY <2>1, SeqIsSeq
<1> QED BY <1>1, <1>2, SeqIsSeq

\* Only empty sequences have length 0.
LEMMA EmptyIsSeq == ASSUME NEW s, IsSeq(s) PROVE Len(s) \in Nat /\ (Len(s) = 0 <=> s = <<>>)
<1> DEFINE T == {s[i] : i \in DOMAIN s}
<1>1. s \in Seq(T)
  BY DEF IsSeq
<1> HIDE DEF T
<1> QED BY <1>1

-----------------------------------------------------------------------------
(* Moving items between two sequences *)

\* Two sequences and an item are over one set.
LEMMA OneSet ==
  ASSUME NEW s, NEW t, NEW x, IsSeq(s), IsSeq(t)
  PROVE  \E T : s \in Seq(T) /\ t \in Seq(T) /\ x \in T
<1> DEFINE T == {s[i] : i \in DOMAIN s} \union {t[i] : i \in DOMAIN t} \union {x}
<1>1. s \in Seq({s[i] : i \in DOMAIN s}) /\ t \in Seq({t[i] : i \in DOMAIN t})
  BY DEF IsSeq
<1>2. s \in Seq(T) /\ t \in Seq(T) /\ x \in T
  BY <1>1
<1> QED BY <1>2

\* The items of two sequences that are joined.
LEMMA CatItems ==
  ASSUME NEW s, NEW t, IsSeq(s), IsSeq(t)
  PROVE  /\ IsSeq(s \o t) /\ Len(s) \in Nat /\ Len(t) \in Nat /\ Len(s \o t) = Len(s) + Len(t)
         /\ \A i \in 1 .. (Len(s) + Len(t)) : (s \o t)[i] = IF i <= Len(s) THEN s[i] ELSE t[i - Len(s)]
<1>1. PICK T : s \in Seq(T) /\ t \in Seq(T)
  BY OneSet
<1>2. s \o t \in Seq(T)
  BY <1>1
<1>3. IsSeq(s \o t)
  BY <1>2, SeqIsSeq
<1> QED BY <1>1, <1>3, ConcatProperties

\* The items of a sequence with one more.
LEMMA AppendItems ==
  ASSUME NEW s, NEW x, IsSeq(s)
  PROVE  /\ IsSeq(Append(s, x)) /\ Len(s) \in Nat /\ Len(Append(s, x)) = Len(s) + 1
         /\ \A i \in 1 .. Len(s) : Append(s, x)[i] = s[i]
         /\ Append(s, x)[Len(s) + 1] = x
<1>1. PICK T : s \in Seq(T) /\ x \in T
  BY OneSet
<1> QED BY <1>1, AppendProperties, AppendIsSeq

\* The items of a sequence with one less.
LEMMA TailItems ==
  ASSUME NEW s, IsSeq(s), s # <<>>
  PROVE  /\ IsSeq(Tail(s)) /\ Len(s) \in Nat /\ Len(s) >= 1 /\ Len(Tail(s)) = Len(s) - 1
         /\ \A i \in 1 .. (Len(s) - 1) : Tail(s)[i] = s[i + 1]
         /\ Head(s) = s[1]
<1>1. PICK T : s \in Seq(T)
  BY OneSet
<1>2. Head(s) = s[1]
  BY <1>1
<1> QED BY <1>1, <1>2, HeadTailProperties, TailIsSeq

\* An item added to the second of two sequences.
LEMMA CatAppend ==
  ASSUME NEW s, NEW t, NEW x, IsSeq(s), IsSeq(t)
  PROVE  s \o Append(t, x) = Append(s \o t, x)
<1>1. PICK T : s \in Seq(T) /\ t \in Seq(T) /\ x \in T
  BY OneSet
<1>2. Append(t, x) = t \o <<x>> /\ Append(s \o t, x) = (s \o t) \o <<x>>
  BY <1>1, AppendIsConcat, ConcatProperties
<1>3. <<x>> \in Seq(T)
  BY <1>1
<1> QED BY <1>1, <1>2, <1>3, ConcatAssociative

\* An item moved from the second to the first.
LEMMA CatMove ==
  ASSUME NEW s, NEW t, IsSeq(s), IsSeq(t), t # <<>>
  PROVE  Append(s, Head(t)) \o Tail(t) = s \o t
<1>1. PICK T : s \in Seq(T) /\ t \in Seq(T)
  BY OneSet
<1>2. Head(t) \in T /\ Tail(t) \in Seq(T) /\ <<Head(t)>> \in Seq(T) /\ t = <<Head(t)>> \o Tail(t)
  <2>1. Head(t) \in T /\ Tail(t) \in Seq(T)
    BY <1>1, HeadTailProperties
  <2>2. <<Head(t)>> \in Seq(T)
    BY <2>1
  <2>3. /\ Len(t) = Len(<<Head(t)>> \o Tail(t)) /\ <<Head(t)>> \o Tail(t) \in Seq(T)
        /\ \A i \in 1 .. Len(t) : t[i] = (<<Head(t)>> \o Tail(t))[i]
    BY <1>1, <2>1, <2>2, HeadTailProperties, ConcatProperties
  <2> QED BY <1>1, <2>1, <2>2, <2>3, SeqEqual
<1>3. Append(s, Head(t)) = s \o <<Head(t)>>
  BY <1>1, <1>2, AppendIsConcat
<1>4. (s \o <<Head(t)>>) \o Tail(t) = s \o (<<Head(t)>> \o Tail(t))
  <2>1. Tail(t) \in Seq(T) /\ <<Head(t)>> \in Seq(T)
    BY <1>2
  <2> QED BY <1>1, <2>1, ConcatAssociative
<1> QED BY <1>2, <1>3, <1>4, Zenon

\* The first item of the first of two sequences removed.
LEMMA CatTail ==
  ASSUME NEW s, NEW t, IsSeq(s), IsSeq(t), s # <<>>
  PROVE  Tail(s \o t) = Tail(s) \o t /\ Head(s \o t) = Head(s) /\ s \o t # <<>>
<1>1. PICK T : s \in Seq(T) /\ t \in Seq(T)
  BY OneSet
<1>2. s \o t \in Seq(T) /\ Len(s \o t) = Len(s) + Len(t) /\ Len(s) \in Nat \ {0} /\ Len(t) \in Nat
  BY <1>1, ConcatProperties
<1>3. s \o t # <<>>
  BY <1>2
<1>4. Head(s \o t) = Head(s)
  BY <1>1, <1>2, ConcatProperties
<1>5. Tail(s) \in Seq(T) /\ Tail(s \o t) \in Seq(T) /\ Tail(s) \o t \in Seq(T)
  BY <1>1, <1>2, <1>3, HeadTailProperties, ConcatProperties
<1>6. Len(Tail(s \o t)) = Len(Tail(s) \o t)
  BY <1>1, <1>2, <1>3, <1>5, HeadTailProperties, ConcatProperties
<1>7. ASSUME NEW i \in 1 .. Len(Tail(s \o t)) PROVE Tail(s \o t)[i] = (Tail(s) \o t)[i]
  <2>1. Len(Tail(s)) = Len(s) - 1 /\ Len(Tail(s \o t)) = Len(s) + Len(t) - 1
    BY <1>1, <1>2, <1>3, HeadTailProperties
  <2>2. Tail(s \o t)[i] = (s \o t)[i + 1]
    BY <1>2, <1>3, HeadTailProperties
  <2>3. (s \o t)[i + 1] = IF i + 1 <= Len(s) THEN s[i + 1] ELSE t[i + 1 - Len(s)]
    BY <1>1, <1>2, <2>1, ConcatProperties
  <2>4. (Tail(s) \o t)[i] = IF i <= Len(s) - 1 THEN Tail(s)[i] ELSE t[i - (Len(s) - 1)]
    BY <1>1, <1>2, <1>5, <2>1, ConcatProperties
  <2>5. i <= Len(s) - 1 => Tail(s)[i] = s[i + 1]
    BY <1>1, <1>2, <2>1, HeadTailProperties
  <2> QED BY <1>2, <2>1, <2>2, <2>3, <2>4, <2>5
<1>8. Tail(s \o t) = Tail(s) \o t
  BY <1>5, <1>6, <1>7, SeqEqual
<1> QED BY <1>3, <1>4, <1>8

\* A sequence cut in two is its parts joined.
LEMMA CatSplit ==
  ASSUME NEW s, IsSeq(s), NEW n \in Nat, n <= Len(s)
  PROVE  SubSeq(s, 1, n) \o SubSeq(s, n + 1, Len(s)) = s
<1>1. PICK T : s \in Seq(T)
  BY OneSet
<1>2. SubSeq(s, 1, n) \o SubSeq(s, n + 1, Len(s)) = SubSeq(s, 1, Len(s))
  <2>1. Len(s) \in Nat /\ 1 \in 1 .. (Len(s) + 1) /\ n \in (1 - 1) .. Len(s) /\ Len(s) \in n .. Len(s)
    BY <1>1
  <2> QED BY <1>1, <2>1, ConcatAdjacentSubSeq, Zenon
<1> QED BY <1>1, <1>2, SubSeqFull

\* Joining with nothing.
LEMMA CatNothing ==
  ASSUME NEW s, IsSeq(s) PROVE s \o <<>> = s /\ <<>> \o s = s
<1>1. PICK T : s \in Seq(T)
  BY OneSet
<1> QED BY <1>1, ConcatEmptySeq

\* The parts of two sequences that are joined.
LEMMA CatParts ==
  ASSUME NEW s, NEW t, IsSeq(s), IsSeq(t)
  PROVE  /\ SubSeq(s \o t, 1, Len(s)) = s
         /\ SubSeq(s \o t, Len(s) + 1, Len(s \o t)) = t
<1>1. PICK T : s \in Seq(T) /\ t \in Seq(T)
  BY OneSet
<1>2. PICK u : u = s \o t
  OBVIOUS
<1>3. /\ u \in Seq(T) /\ Len(s) \in Nat /\ Len(t) \in Nat /\ Len(u) = Len(s) + Len(t)
      /\ \A i \in 1 .. (Len(s) + Len(t)) : u[i] = IF i <= Len(s) THEN s[i] ELSE t[i - Len(s)]
  BY <1>1, <1>2, ConcatProperties
<1>4. /\ SubSeq(u, 1, Len(s)) \in Seq(T) /\ Len(SubSeq(u, 1, Len(s))) = Len(s)
      /\ \A i \in 1 .. Len(s) : SubSeq(u, 1, Len(s))[i] = u[i]
  BY <1>3
<1>5. SubSeq(u, 1, Len(s)) = s
  BY <1>1, <1>3, <1>4, SeqEqual
<1>6. /\ SubSeq(u, Len(s) + 1, Len(u)) \in Seq(T) /\ Len(SubSeq(u, Len(s) + 1, Len(u))) = Len(t)
      /\ \A i \in 1 .. Len(t) : SubSeq(u, Len(s) + 1, Len(u))[i] = u[Len(s) + i]
  BY <1>3
<1>7. ASSUME NEW i \in 1 .. Len(t) PROVE SubSeq(u, Len(s) + 1, Len(u))[i] = t[i]
  <2>1. /\ Len(s) + i \in 1 .. (Len(s) + Len(t)) /\ ~ (Len(s) + i <= Len(s))
        /\ (Len(s) + i) - Len(s) = i
    BY <1>3
  <2>2. u[Len(s) + i] = t[i]
    BY <1>3, <2>1
  <2> QED BY <1>6, <2>2
<1>8. SubSeq(u, Len(s) + 1, Len(u)) = t
  BY <1>1, <1>6, <1>7, SeqEqual
<1> QED BY <1>2, <1>5, <1>8

\* What is left when the first sequence and the first of the second are removed.
LEMMA CatDrop ==
  ASSUME NEW s, NEW t, IsSeq(s), IsSeq(t), t # <<>>
  PROVE  SubSeq(s \o t, Len(s) + 1 + 1, Len(s \o t)) = Tail(t)
<1>1. PICK a, b : a = Append(s, Head(t)) /\ b = Tail(t)
  OBVIOUS
<1>2. IsSeq(a) /\ Len(a) = Len(s) + 1 /\ IsSeq(b)
  BY <1>1, AppendItems, TailItems
<1>3. a \o b = s \o t
  BY <1>1, CatMove
<1>4. SubSeq(a \o b, Len(a) + 1, Len(a \o b)) = b
  BY <1>2, CatParts
<1> QED BY <1>1, <1>2, <1>3, <1>4

\* Three sequences are joined in any order.
LEMMA CatThree ==
  ASSUME NEW s, NEW t, NEW u, IsSeq(s), IsSeq(t), IsSeq(u)
  PROVE  (s \o t) \o u = s \o (t \o u)
<1> DEFINE T == {s[i] : i \in DOMAIN s} \union {t[i] : i \in DOMAIN t} \union {u[i] : i \in DOMAIN u}
<1>1. /\ s \in Seq({s[i] : i \in DOMAIN s}) /\ t \in Seq({t[i] : i \in DOMAIN t})
      /\ u \in Seq({u[i] : i \in DOMAIN u})
  BY DEF IsSeq
<1>2. s \in Seq(T) /\ t \in Seq(T) /\ u \in Seq(T)
  BY <1>1
<1> HIDE DEF T
<1> QED BY <1>2, ConcatAssociative

-----------------------------------------------------------------------------
(* Replies and commands *)

\* A command is issued: it is expected last, and sent last.
LEMMA IssueMatched ==
  ASSUME NEW U, NEW R, NEW q, NEW t, NEW up, NEW c, IsSeq(U), IsSeq(R), Matched(U, R, q, t, up)
  PROVE  Matched(Append(U, c), R, q, t, up)
<1>1. /\ Len(U) \in Nat /\ Len(Append(U, c)) = Len(U) + 1
      /\ \A i \in 1 .. Len(U) : Append(U, c)[i] = U[i]
  BY AppendItems
<1>2. Len(R) \in Nat
  BY EmptyIsSeq
<1>3. Len(R) <= Len(U) /\ \A i \in 1 .. Len(R) : R[i].of = U[i]
  BY DEF Matched
<1>4. Len(R) <= Len(Append(U, c)) /\ \A i \in 1 .. Len(R) : R[i].of = Append(U, c)[i]
  BY <1>1, <1>2, <1>3
<1> QED BY <1>4, Zenon DEF Matched

\* A command that is issued also follows those that redis has still to read.
LEMMA IssueOrdered ==
  ASSUME NEW U, NEW R, NEW W, NEW t, NEW m, NEW c, NEW kind, NEW m1,
         IsSeq(U), IsSeq(R), IsSeq(W), Ordered(U, R, W, t, m),
         KindStep(IF m THEN 1 ELSE 0, kind, IF m1 THEN 1 ELSE 0)
  PROVE  Ordered(Append(U, c), R, Append(W, [cmd |-> c, kind |-> kind]), t, m1)
<1> DEFINE x == [cmd |-> c, kind |-> kind]
           V == Append(W, x)
<1>1. /\ Len(U) \in Nat /\ Len(Append(U, c)) = Len(U) + 1
      /\ \A i \in 1 .. Len(U) : Append(U, c)[i] = U[i]
      /\ Append(U, c)[Len(U) + 1] = c
  BY AppendItems
<1>2. /\ Len(W) \in Nat /\ Len(V) = Len(W) + 1
      /\ \A i \in 1 .. Len(W) : V[i] = W[i]
      /\ V[Len(W) + 1] = x
  BY AppendItems
<1>3. x.cmd = c /\ x.kind = kind
  OBVIOUS
<1>4. Len(R) \in Nat
  BY EmptyIsSeq
<1>5. Len(U) = Len(R) + Len(W) /\ \A i \in 1 .. Len(W) : W[i].cmd = U[Len(R) + i]
  BY DEF Ordered
<1> HIDE DEF V, x
<1>6. Len(Append(U, c)) = Len(R) + Len(V)
  BY <1>1, <1>2, <1>4, <1>5
<1>7. ASSUME NEW i \in 1 .. Len(V) PROVE V[i].cmd = Append(U, c)[Len(R) + i]
  <2>1. CASE i \in 1 .. Len(W)
    BY <1>1, <1>2, <1>4, <1>5, <2>1
  <2>2. CASE i = Len(W) + 1
    BY <1>1, <1>2, <1>3, <1>4, <1>5, <2>2
  <2>3. i \in 1 .. Len(W) \/ i = Len(W) + 1
    BY <1>2
  <2> QED BY <2>1, <2>2, <2>3, Zenon
<1>8. PICK g : /\ g[0] = IF t = Null THEN 0 ELSE 1
               /\ \A i \in 1 .. Len(W) : KindStep(g[i - 1], W[i].kind, g[i])
               /\ g[Len(W)] = IF m THEN 1 ELSE 0
  BY DEF Ordered
<1>9. PICK h : h = [i \in 0 .. Len(V) |-> IF i = Len(V) THEN IF m1 THEN 1 ELSE 0 ELSE g[i]]
  OBVIOUS
<1>10. h[0] = g[0] /\ h[Len(V)] = (IF m1 THEN 1 ELSE 0) /\ \A i \in 0 .. Len(W) : h[i] = g[i]
  BY <1>2, <1>9
<1>11. ASSUME NEW i \in 1 .. Len(V) PROVE KindStep(h[i - 1], V[i].kind, h[i])
  <2>1. CASE i \in 1 .. Len(W)
    <3>1. h[i - 1] = g[i - 1] /\ h[i] = g[i] /\ V[i] = W[i]
      BY <1>2, <1>10, <2>1
    <3> QED BY <1>8, <2>1, <3>1
  <2>2. CASE i = Len(W) + 1
    <3>1. h[i - 1] = g[Len(W)] /\ h[i] = (IF m1 THEN 1 ELSE 0) /\ V[i].kind = kind
      BY <1>2, <1>3, <1>10, <2>2
    <3> QED BY <1>8, <3>1
  <2> QED BY <1>2, <2>1, <2>2
<1>12. t \in Seq(Cmds) \union {Null}
  BY DEF Ordered
<1>13. h[0] = IF t = Null THEN 0 ELSE 1
  BY <1>8, <1>10
<1>14. Ordered(Append(U, c), R, V, t, m1)
  BY <1>6, <1>7, <1>10, <1>11, <1>12, <1>13 DEF Ordered
<1> QED BY <1>14 DEF V, x

\* on_read sees the first reply: it is that of the first command expected, and if
\* commands are queued it queues one more or tells of their transaction.
LEMMA ReadMatched ==
  ASSUME NEW U \in Seq(Cmds), NEW R, NEW q \in Seq(Cmds), NEW t, NEW up,
         IsSeq(R), R # <<>>, Matched(U, R, q, t, up)
  PROVE  /\ U # <<>> /\ Head(R).of = Head(U)
         /\ Head(R).status = "QUEUED" => Matched(Tail(U), Tail(R), Append(q, Head(U)), t, up)
         /\ Head(R).status # "QUEUED" => Matched(Tail(U), Tail(R), <<>>, t, up)
         /\ Head(R).status # "QUEUED" /\ q # <<>> =>
              \/ Head(R).status = "nil"
              \/ Head(R).status = "array" /\ Head(R).items = q
<1>1. /\ IsSeq(Tail(R)) /\ Len(R) \in Nat /\ Len(R) >= 1 /\ Len(Tail(R)) = Len(R) - 1
      /\ \A i \in 1 .. (Len(R) - 1) : Tail(R)[i] = R[i + 1]
      /\ Head(R) = R[1]
  BY TailItems
<1>2. Len(R) <= Len(U) /\ \A i \in 1 .. Len(R) : R[i].of = U[i]
  BY DEF Matched
<1>3. U # <<>> /\ Head(U) = U[1] /\ Head(U) \in Cmds /\ Len(Tail(U)) = Len(U) - 1 /\ Len(U) \in Nat
  BY <1>1, <1>2
<1>4. \A i \in 1 .. (Len(U) - 1) : Tail(U)[i] = U[i + 1]
  BY <1>3
<1>5. Head(R).of = Head(U)
  BY <1>1, <1>2, <1>3
<1>6. PICK f : /\ q = IF f[0] = Null THEN <<>> ELSE f[0]
               /\ \A i \in 1 .. Len(R) : TxStep(f[i - 1], R[i], f[i])
               /\ up => f[Len(R)] = t
  BY DEF Matched
<1>7. TxStep(f[0], Head(R), f[1])
  BY <1>1, <1>6
<1>8. PICK h : h = [i \in 0 .. Len(Tail(R)) |-> f[i + 1]]
  OBVIOUS
<1>9. h[0] = f[1] /\ h[Len(Tail(R))] = f[Len(R)]
  BY <1>1, <1>8
<1>10. ASSUME NEW i \in 1 .. Len(Tail(R)) PROVE TxStep(h[i - 1], Tail(R)[i], h[i])
  <2>1. /\ i + 1 \in 1 .. Len(R) /\ (i + 1) - 1 = i /\ (i - 1) + 1 = i
        /\ i - 1 \in 0 .. Len(Tail(R)) /\ i \in 0 .. Len(Tail(R))
    BY <1>1
  <2>2. h[i - 1] = f[i] /\ h[i] = f[i + 1] /\ Tail(R)[i] = R[i + 1]
    BY <1>1, <1>8, <2>1
  <2>3. TxStep(f[(i + 1) - 1], R[i + 1], f[i + 1])
    BY <1>6, <2>1
  <2> QED BY <2>1, <2>2, <2>3
<1>11. /\ Len(Tail(R)) <= Len(Tail(U))
       /\ \A i \in 1 .. Len(Tail(R)) : Tail(R)[i].of = Tail(U)[i]
  BY <1>1, <1>2, <1>3, <1>4
<1>12. ASSUME NEW q1, q1 = IF f[1] = Null THEN <<>> ELSE f[1]
       PROVE  Matched(Tail(U), Tail(R), q1, t, up)
  BY <1>6, <1>9, <1>10, <1>11, <1>12, Zenon DEF Matched
<1>13. Head(R).status = "QUEUED" => Append(q, Head(U)) = IF f[1] = Null THEN <<>> ELSE f[1]
  <2> SUFFICES ASSUME Head(R).status = "QUEUED" PROVE f[1] = Append(q, Head(U)) /\ f[1] # Null
    OBVIOUS
  <2>1. f[0] = q /\ f[1] = Append(f[0], Head(R).of)
    BY <1>6, <1>7 DEF TxStep
  <2>2. Append(q, Head(U)) \in Seq(Cmds)
    BY <1>3
  <2> QED BY <1>5, <2>1, <2>2, ConnectionAssumption
<1>14. Head(R).status # "QUEUED" => <<>> = IF f[1] = Null THEN <<>> ELSE f[1]
  BY <1>7 DEF TxStep
<1>15. Head(R).status # "QUEUED" /\ q # <<>> =>
         \/ Head(R).status = "nil"
         \/ Head(R).status = "array" /\ Head(R).items = q
  BY <1>6, <1>7 DEF TxStep
<1> QED BY <1>3, <1>5, <1>12, <1>13, <1>14, <1>15

\* The commands that redis has still to read stay those after the replies when the
\* first reply is taken.
LEMMA ReadOrdered ==
  ASSUME NEW U \in Seq(Cmds), NEW R, NEW W, NEW t, NEW m, IsSeq(R), IsSeq(W), R # <<>>,
         Ordered(U, R, W, t, m)
  PROVE  Ordered(Tail(U), Tail(R), W, t, m)
<1>1. Len(R) \in Nat /\ Len(R) >= 1 /\ Len(Tail(R)) = Len(R) - 1
  BY TailItems
<1>2. Len(W) \in Nat
  BY EmptyIsSeq
<1>3. Len(U) = Len(R) + Len(W) /\ \A i \in 1 .. Len(W) : W[i].cmd = U[Len(R) + i]
  BY DEF Ordered
<1>4. /\ Len(Tail(U)) = Len(U) - 1 /\ Len(U) \in Nat
      /\ \A i \in 1 .. (Len(U) - 1) : Tail(U)[i] = U[i + 1]
  BY <1>1, <1>2, <1>3
<1>5. ASSUME NEW i \in 1 .. Len(W) PROVE W[i].cmd = Tail(U)[Len(Tail(R)) + i]
  <2>1. Len(Tail(R)) + i \in 1 .. (Len(U) - 1) /\ (Len(Tail(R)) + i) + 1 = Len(R) + i
    BY <1>1, <1>2, <1>3
  <2> QED BY <1>3, <1>4, <2>1
<1>6. Len(Tail(U)) = Len(Tail(R)) + Len(W)
  BY <1>1, <1>2, <1>3, <1>4
<1> QED BY <1>5, <1>6, Zenon DEF Ordered

\* Redis serves the first command sent: its reply is the last one, and its
\* transaction goes on as the reply says.
LEMMA ServeOrdered ==
  ASSUME NEW U \in Seq(Cmds), NEW R, NEW W, NEW q, NEW t, NEW m, NEW r, NEW t1,
         IsSeq(R), IsSeq(W), W # <<>>,
         Matched(U, R, q, t, TRUE), Ordered(U, R, W, t, m),
         r.of = Head(W).cmd, TxStep(t, r, t1), t1 \in Seq(Cmds) \union {Null},
         KindStep(IF t = Null THEN 0 ELSE 1, Head(W).kind, IF t1 = Null THEN 0 ELSE 1)
  PROVE  Matched(U, Append(R, r), q, t1, TRUE) /\ Ordered(U, Append(R, r), Tail(W), t1, m)
<1>1. PICK S, V : S = Append(R, r) /\ V = Tail(W)
  OBVIOUS
<1>2. /\ Len(R) \in Nat /\ Len(S) = Len(R) + 1 /\ S[Len(R) + 1] = r
      /\ \A i \in 1 .. Len(R) : S[i] = R[i]
  BY <1>1, AppendItems
<1>3. /\ Len(W) \in Nat /\ Len(W) >= 1 /\ Len(V) = Len(W) - 1 /\ Head(W) = W[1]
      /\ \A i \in 1 .. (Len(W) - 1) : V[i] = W[i + 1]
  BY <1>1, TailItems
<1>4. /\ Len(U) = Len(R) + Len(W) /\ \A i \in 1 .. Len(W) : W[i].cmd = U[Len(R) + i]
      /\ \A i \in 1 .. Len(R) : R[i].of = U[i]
  BY DEF Ordered, Matched
<1>5. r.of = U[Len(R) + 1]
  BY <1>3, <1>4
<1>6. Len(S) <= Len(U) /\ Len(U) = Len(S) + Len(V)
  BY <1>2, <1>3, <1>4
<1>7. ASSUME NEW i \in 1 .. Len(S) PROVE S[i].of = U[i]
  <2>1. i \in 1 .. Len(R) \/ i = Len(R) + 1
    BY <1>2
  <2> QED BY <1>2, <1>4, <1>5, <2>1
<1>8. ASSUME NEW i \in 1 .. Len(V) PROVE V[i].cmd = U[Len(S) + i]
  <2>1. i \in 1 .. (Len(W) - 1) /\ i + 1 \in 1 .. Len(W) /\ Len(R) + (i + 1) = Len(S) + i
    BY <1>2, <1>3
  <2>2. V[i] = W[i + 1] /\ W[i + 1].cmd = U[Len(R) + (i + 1)]
    BY <1>3, <1>4, <2>1
  <2> QED BY <2>1, <2>2
<1>9. PICK f : /\ q = IF f[0] = Null THEN <<>> ELSE f[0]
               /\ \A i \in 1 .. Len(R) : TxStep(f[i - 1], R[i], f[i])
               /\ f[Len(R)] = t
  BY DEF Matched
<1>10. PICK h : h = [i \in 0 .. Len(S) |-> IF i = Len(S) THEN t1 ELSE f[i]]
  OBVIOUS
<1>11. h[0] = f[0] /\ h[Len(S)] = t1 /\ \A i \in 0 .. Len(R) : h[i] = f[i]
  BY <1>2, <1>10
<1>12. ASSUME NEW i \in 1 .. Len(S) PROVE TxStep(h[i - 1], S[i], h[i])
  <2>1. CASE i \in 1 .. Len(R)
    <3>1. h[i - 1] = f[i - 1] /\ h[i] = f[i] /\ S[i] = R[i]
      BY <1>2, <1>11, <2>1
    <3> QED BY <1>9, <2>1, <3>1
  <2>2. CASE i = Len(R) + 1
    <3>1. h[i - 1] = t /\ h[i] = t1 /\ S[i] = r
      BY <1>2, <1>9, <1>11, <2>2
    <3> QED BY <3>1
  <2>3. i \in 1 .. Len(R) \/ i = Len(R) + 1
    BY <1>2
  <2> QED BY <2>1, <2>2, <2>3, Zenon
<1>13. Matched(U, S, q, t1, TRUE)
  BY <1>6, <1>7, <1>9, <1>11, <1>12, Zenon DEF Matched
<1>14. PICK g : /\ g[0] = IF t = Null THEN 0 ELSE 1
                /\ \A i \in 1 .. Len(W) : KindStep(g[i - 1], W[i].kind, g[i])
                /\ g[Len(W)] = IF m THEN 1 ELSE 0
  BY DEF Ordered
<1>15. KindStep(g[0], Head(W).kind, g[1])
  BY <1>3, <1>14
<1>16. g[1] = IF t1 = Null THEN 0 ELSE 1
  BY <1>14, <1>15 DEF KindStep
<1>17. PICK k : k = [i \in 0 .. Len(V) |-> g[i + 1]]
  OBVIOUS
<1>18. k[0] = g[1] /\ k[Len(V)] = g[Len(W)]
  BY <1>3, <1>17
<1>19. ASSUME NEW i \in 1 .. Len(V) PROVE KindStep(k[i - 1], V[i].kind, k[i])
  <2>1. /\ i + 1 \in 1 .. Len(W) /\ (i + 1) - 1 = i /\ (i - 1) + 1 = i
        /\ i - 1 \in 0 .. Len(V) /\ i \in 0 .. Len(V) /\ i \in 1 .. (Len(W) - 1)
    BY <1>3
  <2>2. k[i - 1] = g[i] /\ k[i] = g[i + 1] /\ V[i] = W[i + 1]
    BY <1>3, <1>17, <2>1
  <2>3. KindStep(g[(i + 1) - 1], W[i + 1].kind, g[i + 1])
    BY <1>14, <2>1
  <2> QED BY <2>1, <2>2, <2>3
<1>20. /\ k[0] = IF t1 = Null THEN 0 ELSE 1
       /\ k[Len(V)] = IF m THEN 1 ELSE 0
  BY <1>14, <1>16, <1>18
<1>21. Ordered(U, S, V, t1, m)
  BY <1>6, <1>8, <1>19, <1>20, Zenon DEF Ordered
<1> QED BY <1>1, <1>13, <1>21

\* The command redis serves next: MULTI comes outside, EXEC within a transaction.
LEMMA NextServed ==
  ASSUME NEW U \in Seq(Cmds), NEW R, NEW W, NEW t, NEW m, IsSeq(R), IsSeq(W), W # <<>>,
         Ordered(U, R, W, t, m)
  PROVE  /\ Head(W).cmd \in Cmds /\ t \in Seq(Cmds) \union {Null}
         /\ Head(W).kind = "MULTI" => t = Null
         /\ Head(W).kind = "EXEC" => t # Null
<1>1. Len(W) \in Nat /\ Len(W) >= 1 /\ Head(W) = W[1] /\ Len(R) \in Nat
  BY TailItems, EmptyIsSeq
<1>2. Len(U) = Len(R) + Len(W) /\ W[1].cmd = U[Len(R) + 1]
  BY <1>1 DEF Ordered
<1>3. Head(W).cmd \in Cmds
  BY <1>1, <1>2
<1>4. PICK g : /\ g[0] = IF t = Null THEN 0 ELSE 1
               /\ \A i \in 1 .. Len(W) : KindStep(g[i - 1], W[i].kind, g[i])
  BY DEF Ordered
<1>5. KindStep(g[0], Head(W).kind, g[1])
  BY <1>1, <1>4
<1> QED BY <1>3, <1>4, <1>5 DEF KindStep, Ordered

\* Replies are lost: those that came before are still matched.
LEMMA LostMatched ==
  ASSUME NEW U, NEW R, NEW S, NEW q, NEW t, NEW up, IsSeq(U), IsSeq(R), IsSeq(S),
         Matched(U, R \o S, q, t, up)
  PROVE  Matched(U, R, q, t, FALSE)
<1>1. /\ Len(R) \in Nat /\ Len(S) \in Nat /\ Len(R \o S) = Len(R) + Len(S)
      /\ \A i \in 1 .. (Len(R) + Len(S)) : (R \o S)[i] = IF i <= Len(R) THEN R[i] ELSE S[i - Len(R)]
  BY CatItems
<1>2. 1 .. Len(R) \subseteq 1 .. Len(R \o S) /\ \A i \in 1 .. Len(R) : (R \o S)[i] = R[i]
  BY <1>1
<1>3. Len(U) \in Nat
  BY EmptyIsSeq
<1>4. Len(R) <= Len(U) /\ \A i \in 1 .. Len(R) : R[i].of = U[i]
  <2>1. Len(R \o S) <= Len(U) /\ \A i \in 1 .. Len(R \o S) : (R \o S)[i].of = U[i]
    BY Zenon DEF Matched
  <2>2. Len(R) <= Len(U)
    BY <1>1, <1>3, <2>1
  <2>3. \A i \in 1 .. Len(R) : R[i].of = U[i]
    BY <1>2, <2>1, Zenon
  <2> QED BY <2>2, <2>3
<1>5. PICK f : /\ q = IF f[0] = Null THEN <<>> ELSE f[0]
               /\ \A i \in 1 .. Len(R \o S) : TxStep(f[i - 1], (R \o S)[i], f[i])
  BY DEF Matched
<1>6. \A i \in 1 .. Len(R) : TxStep(f[i - 1], R[i], f[i])
  BY <1>2, <1>5, SMTT(30)
<1> QED BY <1>4, <1>5, <1>6, Zenon DEF Matched

-----------------------------------------------------------------------------
(* The steps *)

\* disconnect, with every callback among those it drops: the read that may be
\* outstanding finds a closed socket, and somebody has been told.
LEMMA DisconnectInv ==
  ASSUME IInv, NEW dropped \in Seq(Cmds), Disconnect(dropped),
         callbacks # <<>> => dropped # <<>>,
         reads' \in 0 .. 1, reads' = 1 => reads = 1 /\ pc = "idle",
         IsSeq(writes'), IsSeq(wire'), IsSeq(replies')
  PROVE  IInv'
<1> USE DEF IInv
<1>1. Len(dropped) \in Nat /\ IsSeq(Failed(dropped))
  <2> DEFINE f == Failed(dropped)
  <2>1. Len(dropped) \in Nat
    OBVIOUS
  <2>2. f = [i \in 1 .. Len(dropped) |-> f[i]]
    BY DEF Failed
  <2> HIDE DEF f
  <2>3. IsSeq(f)
    BY <2>1, <2>2, FunctionIsSeq
  <2> QED BY <2>1, <2>3 DEF f
<1>2. dropped # <<>> => SomeFailed(Failed(dropped))
  <2> SUFFICES ASSUME dropped # <<>> PROVE SomeFailed(Failed(dropped))
    OBVIOUS
  <2>1. 1 \in 1 .. Len(dropped)
    OBVIOUS
  <2> QED BY <2>1 DEF SomeFailed, Failed
<1>3. IsSeq(calls)
  BY DEF SeqTypes
<1>4. /\ IsSeq(calls')
      /\ SomeFailed(calls) \/ SomeFailed(Failed(dropped)) => SomeFailed(calls')
  BY <1>1, <1>3, CatIsSeq DEF Disconnect
<1>5. SeqTypes'
  BY <1>4, ShortIsSeq DEF SeqTypes, Disconnect
<1>6. reads' = 1 => SomeFailed(calls')
  BY <1>2, <1>4 DEF ReadInv
<1>7. ReadInv'
  <2>1. pc' = "idle" /\ callbacks' = <<>> /\ queued' = <<>> /\ open' = FALSE
    BY DEF Disconnect, OpenClosed
  <2>2. reads' = 0 \/ reads' = 1
    OBVIOUS
  <2>3. reads' = 0 \/ SomeFailed(calls)'
    BY <1>6, <2>2 DEF SomeFailed
  <2> QED BY <2>1, <2>3 DEF ReadInv
<1> QED BY <1>5, <1>7 DEF Disconnect, OpenClosed

\* Every step keeps the invariant.
LEMMA Step == IInv /\ [Next]_vars => IInv'
<1> SUFFICES ASSUME IInv, [Next]_vars PROVE IInv'
  OBVIOUS
<1> USE DEF IInv
<1>s. /\ callbacks \in Seq(Cmds) /\ queued \in Seq(Cmds) /\ Len(callbacks) \in Nat
      /\ IsSeq(calls) /\ IsSeq(buffer) /\ IsSeq(writes) /\ IsSeq(wire) /\ IsSeq(replies)
      /\ Len(buffer) \in Nat /\ Len(writes) \in Nat /\ Len(wire) \in Nat /\ Len(replies) \in Nat
  BY EmptyIsSeq DEF SeqTypes
<1>1. ASSUME NEW c \in Cmds, NEW kind, command(c, kind) PROVE IInv'
  <2> USE <1>1 DEF command, do_write, FirstOfMany
  <2>1. IsSeq(writes') /\ Len(writes') = Len(writes) + 1
    BY <1>s, AppendIsSeq
  <2>2. callbacks' \in Seq(Cmds) /\ Len(callbacks') = Len(callbacks) + 1 /\ callbacks' # <<>>
    BY <1>s
  <2>3. SeqTypes'
    BY <2>1, <2>2 DEF SeqTypes, redis
  <2>4. SomeFailed(calls) => open
    BY DEF SomeFailed
  <2>5. callbacks = <<>> <=> Len(callbacks') = 1
    BY <2>2, <1>s
  <2>6. reads' = IF callbacks = <<>> THEN reads + 1 ELSE reads
    BY <2>5
  <2>7. ReadInv'
    BY <2>2, <2>4, <2>6 DEF ReadInv
  <2>8. open' => (InFlight <= Unanswered)'
    BY <1>s, <2>1, <2>2 DEF InFlight, Unanswered, redis
  <2> QED BY <2>3, <2>7, <2>8
<1>2. CASE on_write_error
  <2>1. IsSeq(writes')
    BY <1>2, <1>s, TailIsSeq DEF on_write_error
  <2>2. DroppedCallbacks \in Seq(Cmds) /\ (callbacks # <<>> => DroppedCallbacks # <<>>)
    BY <1>s DEF DroppedCallbacks
  <2> QED BY <1>2, <1>s, <2>1, <2>2, DisconnectInv DEF on_write_error, redis, ReadInv
<1>3. ASSUME NEW n \in 1 .. Len(replies), on_read(n) PROVE IInv'
  <2>1. /\ pc = "idle" /\ pc' = "loop" /\ open /\ reads > 0 /\ reads' = reads - 1
        /\ UNCHANGED <<callbacks, queued, open, calls, writes, wire>>
    BY <1>3 DEF on_read
  <2>2. /\ IsSeq(buffer') /\ Len(buffer') = n
        /\ IsSeq(replies') /\ Len(replies') = Len(replies) - n
    BY <1>3, <1>s, SplitIsSeq DEF on_read
  <2>3. SeqTypes'
    BY <1>s, <2>1, <2>2 DEF SeqTypes
  <2>4. ReadInv'
    BY <2>1 DEF ReadInv
  <2>5. InFlight' = InFlight - Len(buffer)
    BY <1>s, <2>1, <2>2 DEF InFlight
  <2>6. (InFlight <= Unanswered)'
    BY <1>s, <2>1, <2>5 DEF InFlight, Unanswered
  <2> QED BY <2>3, <2>4, <2>6
<1>4. CASE on_read_error
  <2>1. DroppedCallbacks \in Seq(Cmds) /\ (callbacks # <<>> => DroppedCallbacks # <<>>)
    BY <1>s DEF DroppedCallbacks
  <2>2. /\ Disconnect(DroppedCallbacks) /\ reads' \in 0 .. 1 /\ (reads' = 1 => reads = 1 /\ pc = "idle")
        /\ UNCHANGED <<writes, wire, replies>>
    BY <1>4 DEF on_read_error, redis, ReadInv
  <2> QED BY <1>s, <2>1, <2>2, DisconnectInv
<1>5. CASE on_queued
  <2> USE <1>5 DEF on_queued, Reading
  <2>1. IsSeq(buffer') /\ Len(buffer') = Len(buffer) - 1
    BY <1>s, TailIsSeq
  <2>2. callbacks' \in Seq(Cmds) /\ Len(callbacks') = Len(callbacks) - 1 /\ queued' \in Seq(Cmds)
    BY <1>s
  <2>3. SeqTypes'
    BY <2>1, <2>2 DEF SeqTypes, redis
  <2>4. ReadInv'
    BY DEF ReadInv
  <2>5. open' => (InFlight <= Unanswered)'
    BY <1>s, <2>1, <2>2, SMTT(30) DEF InFlight, Unanswered, redis
  <2> QED BY <2>3, <2>4, <2>5
<1>6. CASE on_exec_transaction
  <2> USE <1>6 DEF on_exec_transaction, Reading
  <2>1. IsSeq(buffer') /\ Len(buffer') = Len(buffer) - 1
    BY <1>s, TailIsSeq, SMTT(30)
  <2>2. Len(queued) \in Nat
    BY <1>s, SMTT(30)
  <2>3. ASSUME NEW f, f = [i \in 1 .. Len(queued) |-> f[i]] PROVE IsSeq(f)
    BY <2>2, <2>3, FunctionIsSeq
  <2>4. IsSeq(Failed(queued)) /\ IsSeq(ExecReplies(Head(buffer))) /\ IsSeq(<<>>)
    <3> DEFINE f == Failed(queued)
               g == ExecReplies(Head(buffer))
    <3>1. f = [i \in 1 .. Len(queued) |-> f[i]] /\ g = [i \in 1 .. Len(queued) |-> g[i]]
      BY DEF Failed, ExecReplies
    <3> HIDE DEF f, g
    <3>2. IsSeq(f) /\ IsSeq(g)
      BY <3>1, <2>3, SMTT(30)
    <3> QED BY <3>2, ShortIsSeq DEF f, g
  <2>5. IsSeq(calls')
    <3>1. PICK first : /\ IsSeq(first)
                       /\ calls' = calls \o first \o <<[cmd |-> Head(callbacks), of |-> Head(buffer).of]>>
      BY <2>4, ZenonT(30)
    <3> DEFINE end == [cmd |-> Head(callbacks), of |-> Head(buffer).of]
    <3>2. calls' = (calls \o first) \o <<end>>
      BY <3>1
    <3> HIDE DEF end
    <3>3. IsSeq(<<end>>)
      BY ShortIsSeq, SMTT(30)
    <3>4. IsSeq(calls \o first)
      BY <1>s, <3>1, CatIsSeq, SMTT(30)
    <3> QED BY <3>2, <3>3, <3>4, CatIsSeq, ZenonT(30)
  <2>6. SeqTypes'
    <3>1. queued' \in Seq(Cmds) /\ UNCHANGED <<callbacks, writes, wire, replies>>
      BY SMTT(30) DEF redis
    <3> QED BY <1>s, <2>1, <2>5, <3>1, SMTT(30) DEF SeqTypes
  <2>7. ReadInv'
    BY SMTT(30) DEF ReadInv
  <2>8. open' => (InFlight <= Unanswered)'
    BY <1>s, <2>1 DEF InFlight, Unanswered, redis
  <2> QED BY <2>6, <2>7, <2>8, SMTT(30)
<1>7. CASE on_reply
  <2> USE <1>7 DEF on_reply, Reading
  <2>1. IsSeq(buffer') /\ Len(buffer') = Len(buffer) - 1
    BY <1>s, TailIsSeq
  <2>2. IsSeq(calls')
    BY <1>s, AppendIsSeq
  <2>3. SeqTypes'
    BY <2>1, <2>2 DEF SeqTypes, redis
  <2>4. ReadInv'
    BY DEF ReadInv
  <2>5. open' => (InFlight <= Unanswered)'
    BY <1>s, <2>1 DEF InFlight, Unanswered, redis
  <2> QED BY <2>3, <2>4, <2>5
<1>8. CASE pop_front
  <2> USE <1>8 DEF pop_front
  <2>1. callbacks # <<>>
    BY DEF ReadInv
  <2>2. callbacks' \in Seq(Cmds) /\ Len(callbacks') = Len(callbacks) - 1
    BY <1>s, <2>1
  <2>3. SeqTypes'
    BY <2>2 DEF SeqTypes, redis
  <2>4. ReadInv'
    BY DEF ReadInv
  <2>5. open' => (InFlight <= Unanswered)'
    BY <1>s, <2>2 DEF InFlight, Unanswered, redis
  <2> QED BY <2>3, <2>4, <2>5
<1>9. CASE on_read_end
  <2> USE <1>9 DEF on_read_end, KeepReading
  <2>1. SeqTypes'
    BY DEF SeqTypes, redis
  <2>2. ReadInv'
    BY DEF ReadInv
  <2>3. open' => (InFlight <= Unanswered)'
    BY <1>s DEF InFlight, Unanswered, redis
  <2> QED BY <2>1, <2>2, <2>3
<1>10. CASE on_read_extra
  <2>1. DroppedCallbacks \in Seq(Cmds) /\ (callbacks # <<>> => DroppedCallbacks # <<>>)
    BY <1>s DEF DroppedCallbacks
  <2>2. /\ Disconnect(DroppedCallbacks) /\ reads' \in 0 .. 1 /\ (reads' = 1 => reads = 1 /\ pc = "idle")
        /\ UNCHANGED <<writes, wire, replies>>
    BY <1>10 DEF on_read_extra, redis, ReadInv
  <2> QED BY <1>s, <2>1, <2>2, DisconnectInv
<1>11. CASE on_parse_error
  <2>1. callbacks \o queued \in Seq(Cmds) /\ (callbacks # <<>> => callbacks \o queued # <<>>)
    BY <1>s
  <2>2. /\ Disconnect(callbacks \o queued) /\ reads' \in 0 .. 1 /\ (reads' = 1 => reads = 1 /\ pc = "idle")
        /\ UNCHANGED <<writes, wire, replies>>
    BY <1>11 DEF on_parse_error, redis, ReadInv
  <2> QED BY <1>s, <2>1, <2>2, DisconnectInv
<1>12. CASE transmit
  <2> USE <1>12 DEF transmit, client
  <2>1. IsSeq(wire') /\ Len(wire') = Len(wire) + 1
    BY <1>s, AppendIsSeq
  <2>2. IsSeq(writes') /\ Len(writes') = Len(writes) - 1
    BY <1>s, TailIsSeq
  <2> QED BY <1>s, <2>1, <2>2 DEF SeqTypes, ReadInv, InFlight, Unanswered
<1>13. CASE serve
  <2> USE <1>13 DEF serve, client
  <2>1. IsSeq(wire') /\ Len(wire') = Len(wire) - 1
    BY <1>s, TailIsSeq
  <2>2. \E r : replies' = Append(replies, r)
    BY DEF Reply
  <2>3. IsSeq(replies') /\ Len(replies') = Len(replies) + 1
    BY <1>s, <2>2, AppendIsSeq
  <2> QED BY <1>s, <2>1, <2>3 DEF SeqTypes, ReadInv, InFlight, Unanswered
<1>14. CASE break
  <2> USE <1>14 DEF break, client
  <2>1. IsSeq(wire') /\ Len(wire') = 0 /\ IsSeq(replies') /\ Len(replies') \in 0 .. Len(replies)
    BY <1>s, ShortIsSeq
  <2> QED BY <1>s, <2>1 DEF SeqTypes, ReadInv, InFlight, Unanswered
<1>15. CASE UNCHANGED vars
  BY <1>15 DEF vars, client, redis, SeqTypes, ReadInv, InFlight, Unanswered
<1> QED
  BY <1>1, <1>2, <1>3, <1>4, <1>5, <1>6, <1>7, <1>8, <1>9, <1>10, <1>11, <1>12, <1>13, <1>14, <1>15
     DEF Next, OnRead

-----------------------------------------------------------------------------
(* The refinement of CommandChannel *)

\* The sequences of the refinement.
LEMMA ChannelTypes ==
  ASSUME IInv
  PROVE  /\ Expected \in Seq(Cmds) /\ IsSeq(Expected) /\ IsSeq(Arriving) /\ IsSeq(Sent)
         /\ IsSeq(buffer) /\ IsSeq(replies) /\ IsSeq(wire) /\ IsSeq(writes) /\ IsSeq(queued)
<1>1. Expected \in Seq(Cmds)
  BY DEF IInv, SeqTypes, ReadInv, Expected
<1>2. IsSeq(Expected) /\ IsSeq(queued)
  BY <1>1, SeqIsSeq DEF IInv, SeqTypes
<1>3. IsSeq(buffer) /\ IsSeq(replies) /\ IsSeq(wire) /\ IsSeq(writes)
  BY DEF IInv, SeqTypes
<1>4. IsSeq(Arriving) /\ IsSeq(Sent)
  BY <1>3, CatItems, SMTT(30) DEF Arriving, Sent
<1> QED BY <1>1, <1>2, <1>3, <1>4

\* What the loop of on_read knows of the reply it has before it.
LEMMA ReadingReply ==
  ASSUME CInv, pc = "loop", buffer # <<>>, callbacks # <<>>, buffer' = Tail(buffer), replies' = replies
  PROVE  /\ Expected = callbacks /\ open /\ Arriving # <<>>
         /\ Head(Arriving) = Head(buffer) /\ Arriving' = Tail(Arriving)
         /\ Head(buffer).of = Head(callbacks)
         /\ Head(buffer).status # "QUEUED" /\ queued # <<>> =>
              \/ Head(buffer).status = "nil"
              \/ Head(buffer).status = "array" /\ Head(buffer).items = queued
<1>1. Expected = callbacks /\ open
  BY DEF CInv, IInv, ReadInv, Expected
<1>2. Head(Arriving) = Head(buffer) /\ Arriving' = Tail(Arriving) /\ Arriving # <<>>
  BY ChannelTypes, CatTail DEF CInv, Arriving
<1>3. queued \in Seq(Cmds) /\ Expected \in Seq(Cmds) /\ IsSeq(Arriving)
  BY ChannelTypes DEF CInv, IInv, SeqTypes
<1>4. Matched(Expected, Arriving, queued, txn, link)
  BY <1>1 DEF CInv
<1> QED BY <1>1, <1>2, <1>3, <1>4, ReadMatched

\* Every step keeps the invariant of the refinement.
LEMMA ChannelInvStep == TxErrors = FALSE /\ CInv /\ [Next]_vars => CInv'
<1> SUFFICES ASSUME TxErrors = FALSE, CInv, [Next]_vars PROVE CInv'
  OBVIOUS
<1>i. IInv /\ IInv'
  BY Step DEF CInv
<1>s. /\ Expected \in Seq(Cmds) /\ IsSeq(Expected) /\ IsSeq(Arriving) /\ IsSeq(Sent)
      /\ IsSeq(buffer) /\ IsSeq(replies) /\ IsSeq(wire) /\ IsSeq(writes) /\ IsSeq(queued)
      /\ callbacks \in Seq(Cmds) /\ queued \in Seq(Cmds) /\ open \in BOOLEAN
  BY <1>i, ChannelTypes DEF IInv, SeqTypes, ReadInv
<1>m. /\ pc = "idle" => buffer = <<>>
      /\ open => Matched(Expected, Arriving, queued, txn, link)
      /\ open /\ link => Ordered(Expected, Arriving, Sent, txn, multi)
  BY DEF CInv
<1>1. ASSUME NEW c \in Cmds, NEW kind \in {"plain", "MULTI", "EXEC"}, command(c, kind) PROVE CInv'
  <2>1. /\ UNCHANGED <<queued, buffer, pc, open, link, wire, replies, txn>>
        /\ callbacks' = Append(callbacks, c)
        /\ writes' = Append(writes, [cmd |-> c, kind |-> kind])
        /\ pc \in {"idle", "called"} /\ (pc = "called" => callbacks # <<>>)
    BY <1>1, <1>i DEF command, do_write, redis, IInv, ReadInv
  <2>2. Expected' = Append(Expected, c)
    BY <1>s, <2>1, HeadTailAppend DEF Expected
  <2>3. Arriving' = Arriving /\ Sent' = Append(Sent, [cmd |-> c, kind |-> kind])
    BY <1>s, <2>1, CatAppend DEF Arriving, Sent
  <2>4. KindStep(IF multi THEN 1 ELSE 0, kind, IF multi' THEN 1 ELSE 0)
    BY <1>1 DEF command, KindStep
  <2>5. open' => Matched(Expected, Arriving, queued, txn, link)'
    BY <1>s, <1>m, <2>1, <2>2, <2>3, IssueMatched, SMTT(30) DEF Matched
  <2>6. open' /\ link' => Ordered(Expected, Arriving, Sent, txn, multi)'
    <3>1. open /\ link =>
            Ordered(Append(Expected, c), Arriving, Append(Sent, [cmd |-> c, kind |-> kind]), txn, multi')
      BY <1>s, <1>m, <2>4, IssueOrdered
    <3> QED BY <2>1, <2>2, <2>3, <3>1 DEF Ordered
  <2> QED BY <1>i, <1>m, <2>1, <2>5, <2>6 DEF CInv
<1>2. ASSUME NEW dropped, Disconnect(dropped) PROVE CInv'
  BY <1>i, <1>2 DEF Disconnect, OpenClosed, CInv
<1>3. ASSUME NEW n \in 1 .. Len(replies), on_read(n) PROVE CInv'
  <2>1. /\ UNCHANGED <<callbacks, queued, open, writes, multi, link, wire, txn>>
        /\ buffer' = SubSeq(replies, 1, n) /\ replies' = SubSeq(replies, n + 1, Len(replies))
        /\ pc = "idle" /\ pc' = "loop"
    BY <1>3 DEF on_read
  <2>2. Arriving = replies
    BY <1>s, <1>m, <2>1, CatNothing DEF Arriving
  <2>3. Arriving' = Arriving
    <3>1. n \in Nat /\ n <= Len(replies)
      BY <1>s, EmptyIsSeq
    <3>2. SubSeq(replies, 1, n) \o SubSeq(replies, n + 1, Len(replies)) = replies
      BY <1>s, <3>1, CatSplit
    <3>3. Arriving' = buffer' \o replies'
      BY DEF Arriving
    <3> QED BY <2>1, <2>2, <3>2, <3>3, Zenon
  <2>4. Expected' = Expected /\ Sent' = Sent
    BY <2>1 DEF Expected, Sent
  <2> QED BY <1>i, <1>m, <2>1, <2>3, <2>4 DEF CInv, Matched, Ordered
<1>4. CASE on_queued
  <2>1. /\ UNCHANGED <<pc, open, writes, multi, link, wire, replies, txn>>
        /\ pc = "loop" /\ buffer # <<>> /\ callbacks # <<>> /\ Head(buffer).status = "QUEUED"
        /\ buffer' = Tail(buffer) /\ callbacks' = Tail(callbacks) /\ queued' = Append(queued, Head(callbacks))
    BY <1>4 DEF on_queued, Reading, redis
  <2>2. /\ Expected = callbacks /\ open /\ Arriving # <<>>
        /\ Head(Arriving) = Head(buffer) /\ Arriving' = Tail(Arriving)
    BY <2>1, ReadingReply
  <2>3. Expected' = Tail(Expected) /\ Sent' = Sent /\ queued' = Append(queued, Head(Expected))
    BY <2>1, <2>2 DEF Expected, Sent
  <2>4. Matched(Tail(Expected), Tail(Arriving), Append(queued, Head(Expected)), txn, link)
    BY <1>s, <1>m, <2>1, <2>2, ReadMatched
  <2>5. link => Ordered(Tail(Expected), Tail(Arriving), Sent, txn, multi)
    BY <1>s, <1>m, <2>2, ReadOrdered, SMTT(30)
  <2> QED BY <1>i, <2>1, <2>2, <2>3, <2>4, <2>5 DEF CInv, Matched, Ordered
<1>5. CASE on_exec_transaction \/ on_reply
  <2>1. /\ UNCHANGED <<callbacks, open, writes, multi, link, wire, replies, txn>>
        /\ pc = "loop" /\ pc' = "called" /\ buffer # <<>> /\ callbacks # <<>>
        /\ Head(buffer).status # "QUEUED"
        /\ buffer' = Tail(buffer) /\ queued' = <<>>
    BY <1>5 DEF on_exec_transaction, on_reply, Reading, redis
  <2>2. /\ Expected = callbacks /\ open /\ Arriving # <<>>
        /\ Head(Arriving) = Head(buffer) /\ Arriving' = Tail(Arriving)
    BY <2>1, ReadingReply
  <2>3. Expected' = Tail(Expected) /\ Sent' = Sent
    BY <2>1, <2>2, SMTT(30) DEF Expected, Sent
  <2>4. Matched(Tail(Expected), Tail(Arriving), <<>>, txn, link)
    BY <1>s, <1>m, <2>1, <2>2, ReadMatched, SMTT(30)
  <2>5. link => Ordered(Tail(Expected), Tail(Arriving), Sent, txn, multi)
    BY <1>s, <1>m, <2>2, ReadOrdered
  <2> QED BY <1>i, <2>1, <2>2, <2>3, <2>4, <2>5, SMTT(30) DEF CInv, Matched, Ordered
<1>6. CASE pop_front \/ on_read_end
  <2>1. /\ UNCHANGED <<queued, buffer, open, writes, multi, link, wire, replies, txn>>
        /\ pc' = "idle" => buffer = <<>>
    BY <1>6 DEF pop_front, on_read_end, redis
  <2>2. Expected' = Expected
    BY <1>6 DEF pop_front, on_read_end, Expected
  <2>3. Arriving' = Arriving /\ Sent' = Sent
    BY <2>1 DEF Arriving, Sent
  <2> QED BY <1>i, <1>m, <2>1, <2>2, <2>3 DEF CInv, Matched, Ordered
<1>7. CASE transmit
  <2>1. /\ UNCHANGED <<client, multi, link, replies, txn>> /\ writes # <<>>
        /\ wire' = Append(wire, Head(writes)) /\ writes' = Tail(writes)
    BY <1>7 DEF transmit
  <2>2. Sent' = Sent
    BY <1>s, <2>1, CatMove, SMTT(30) DEF Sent
  <2>3. Expected' = Expected /\ Arriving' = Arriving
    BY <2>1 DEF Expected, Arriving, client
  <2> QED BY <1>i, <1>m, <2>1, <2>2, <2>3 DEF CInv, Matched, Ordered, client
<1>8. CASE serve
  <2>1. /\ UNCHANGED <<client, writes, multi, link>> /\ link /\ wire # <<>>
        /\ wire' = Tail(wire)
    BY <1>8 DEF serve
  <2>2. CASE open
    <3>1. Matched(Expected, Arriving, queued, txn, TRUE) /\ Ordered(Expected, Arriving, Sent, txn, multi)
      BY <1>m, <2>1, <2>2 DEF Matched
    <3>2. Sent # <<>> /\ Head(Sent) = Head(wire) /\ Sent' = Tail(Sent)
      BY <1>s, <2>1, CatTail, ZenonT(30) DEF Sent
    <3>3. /\ Head(Sent).cmd \in Cmds /\ txn \in Seq(Cmds) \union {Null}
          /\ Head(Sent).kind = "MULTI" => txn = Null
          /\ Head(Sent).kind = "EXEC" => txn # Null
      BY <1>s, <3>1, <3>2, NextServed
    <3>4. /\ <<>> \in Seq(Cmds) /\ <<>> # Null
          /\ txn # Null => Append(txn, Head(wire).cmd) \in Seq(Cmds) /\ Append(txn, Head(wire).cmd) # Null
      <4>1. \A q \in Seq(Cmds) : q # Null
        BY ConnectionAssumption
      <4>2. <<>> \in Seq(Cmds)
        OBVIOUS
      <4>3. txn # Null => Append(txn, Head(wire).cmd) \in Seq(Cmds)
        BY <3>2, <3>3, SMTT(30)
      <4> QED BY <4>1, <4>2, <4>3, Zenon
    <3>5. \E r : /\ replies' = Append(replies, r) /\ r.of = Head(wire).cmd
                 /\ TxStep(txn, r, txn') /\ txn' \in Seq(Cmds) \union {Null}
                 /\ KindStep(IF txn = Null THEN 0 ELSE 1, Head(wire).kind, IF txn' = Null THEN 0 ELSE 1)
      <4> DEFINE kind == Head(wire).kind
                 r(status, items) == [status |-> status, of |-> Head(wire).cmd, items |-> items]
      <4>1. \/ kind = "MULTI" /\ replies' = Append(replies, r("OK", <<>>)) /\ txn' = <<>>
            \/ kind = "EXEC" /\ replies' = Append(replies, r("array", txn)) /\ txn' = Null
            \/ kind = "EXEC" /\ replies' = Append(replies, r("nil", <<>>)) /\ txn' = Null
            \/ kind = "plain" /\ txn = Null /\ replies' = Append(replies, r("data", <<>>)) /\ txn' = txn
            \/ kind = "plain" /\ txn # Null /\ replies' = Append(replies, r("QUEUED", <<>>))
                 /\ txn' = Append(txn, Head(wire).cmd)
        BY <1>8, SMTT(30) DEF serve, Reply
      <4>2. \A status, items : /\ r(status, items).status = status /\ r(status, items).of = Head(wire).cmd
                               /\ r(status, items).items = items
        OBVIOUS
      <4>3. Head(wire).kind = "MULTI" => txn = Null
        BY <3>2, <3>3
      <4>4. Head(wire).kind = "EXEC" => txn # Null
        BY <3>2, <3>3
      <4> HIDE DEF r
      <4>5. CASE kind = "MULTI" /\ replies' = Append(replies, r("OK", <<>>)) /\ txn' = <<>>
        BY <3>4, <4>2, <4>3, <4>5 DEF TxStep, KindStep
      <4>6. CASE kind = "EXEC" /\ replies' = Append(replies, r("array", txn)) /\ txn' = Null
        BY <4>2, <4>4, <4>6 DEF TxStep, KindStep
      <4>7. CASE kind = "EXEC" /\ replies' = Append(replies, r("nil", <<>>)) /\ txn' = Null
        BY <4>2, <4>4, <4>7 DEF TxStep, KindStep
      <4>8. CASE kind = "plain" /\ txn = Null /\ replies' = Append(replies, r("data", <<>>)) /\ txn' = txn
        BY <4>2, <4>8 DEF TxStep, KindStep
      <4>9. CASE kind = "plain" /\ txn # Null /\ replies' = Append(replies, r("QUEUED", <<>>))
                   /\ txn' = Append(txn, Head(wire).cmd)
        BY <3>4, <4>2, <4>9 DEF TxStep, KindStep
      <4> QED BY <4>1, <4>5, <4>6, <4>7, <4>8, <4>9
    <3>6. PICK r : /\ replies' = Append(replies, r) /\ r.of = Head(wire).cmd
                   /\ TxStep(txn, r, txn') /\ txn' \in Seq(Cmds) \union {Null}
                   /\ KindStep(IF txn = Null THEN 0 ELSE 1, Head(wire).kind, IF txn' = Null THEN 0 ELSE 1)
      BY <3>5, SMTT(30)
    <3>7. Arriving' = Append(Arriving, r)
      BY <1>s, <2>1, <3>6, CatAppend, SMTT(30) DEF Arriving, client
    <3>8. Matched(Expected, Append(Arriving, r), queued, txn', TRUE) /\ Ordered(Expected, Append(Arriving, r), Tail(Sent), txn', multi)
      BY <1>s, <3>1, <3>2, <3>6, ServeOrdered
    <3>9. Expected' = Expected
      BY <2>1 DEF Expected, client
    <3> QED BY <1>i, <1>m, <2>1, <3>2, <3>7, <3>8, <3>9, ZenonT(30) DEF CInv, Matched, Ordered, client
  <2>3. CASE ~ open
    BY <1>i, <1>m, <2>1, <2>3 DEF CInv, client
  <2> QED BY <2>2, <2>3
<1>9. CASE break
  <2>1. UNCHANGED <<client, txn>> /\ link' = FALSE /\ replies' \in {replies, <<>>}
    BY <1>9 DEF break
  <2>2. Expected' = Expected
    BY <2>1 DEF Expected, client
  <2>3. CASE ~ open
    BY <1>i, <1>m, <2>1, <2>3, SMTT(30) DEF CInv, client
  <2>4. CASE open /\ replies' = replies
    <3>1. Arriving' = Arriving
      BY <2>1, <2>4, SMTT(30) DEF Arriving, client
    <3> QED BY <1>i, <1>m, <2>1, <2>2, <2>4, <3>1 DEF CInv, Matched, client
  <2>5. CASE open /\ replies' = <<>>
    <3>1. Arriving' = buffer
      BY <1>s, <2>1, <2>5, CatNothing DEF Arriving, client
    <3>2. Matched(Expected, buffer, queued, txn, FALSE)
      BY <1>s, <1>m, <2>5, LostMatched DEF Arriving
    <3> QED BY <1>i, <1>m, <2>1, <2>2, <2>5, <3>1, <3>2 DEF CInv, Matched, client
  <2> QED BY <1>s, <2>1, <2>3, <2>4, <2>5
<1>10. CASE UNCHANGED vars
  <2>1. Expected' = Expected /\ Arriving' = Arriving /\ Sent' = Sent
    BY <1>10 DEF vars, client, redis, Expected, Arriving, Sent
  <2> QED BY <1>10, <1>i, <1>m, <2>1 DEF vars, client, redis, CInv, Matched, Ordered
<1>11. CASE on_write_error \/ on_read_error \/ on_read_extra \/ on_parse_error
  BY <1>2, <1>11 DEF on_write_error, on_read_error, on_read_extra, on_parse_error
<1> QED
  BY <1>1, <1>3, <1>4, <1>5, <1>6, <1>7, <1>8, <1>9, <1>10, <1>11 DEF Next, OnRead

\* The commands of the channel that wait.
Waiting == queued \o Expected

\* Callbacks that are called for the first commands that wait, each with its own
\* reply or an error, are a step of the channel.
LEMMA AnswerStep ==
  ASSUME Waiting \in Seq(Cmds), IsSeq(calls), NEW a, IsSeq(a), a # <<>>, Len(a) <= Len(Waiting),
         \A i \in 1 .. Len(a) : a[i] \in [cmd : {Waiting[i]}, of : {Waiting[i], Null}],
         Waiting' = SubSeq(Waiting, Len(a) + 1, Len(Waiting)), calls' = calls \o a
  PROVE  Channel!Next
<1>1. /\ Len(calls) \in Nat /\ Len(a) \in Nat /\ Len(calls') = Len(calls) + Len(a)
      /\ \A i \in 1 .. (Len(calls) + Len(a)) :
           calls'[i] = IF i <= Len(calls) THEN calls[i] ELSE a[i - Len(calls)]
  BY CatItems
<1>2. Len(a) \in 1 .. Len(Waiting)
  BY EmptyIsSeq
<1>3. SubSeq(calls', 1, Len(calls)) = calls
  BY CatParts
<1>4. ASSUME NEW i \in 1 .. Len(a)
      PROVE  calls'[Len(calls) + i] \in [cmd : {Waiting[i]}, of : {Waiting[i], Null}]
  <2>1. calls'[Len(calls) + i] = a[i]
    BY <1>1
  <2> QED BY <2>1
<1>5. Channel!Answer(Len(a))
  BY <1>1, <1>2, <1>3, <1>4 DEF Channel!Answer, Waiting, Expected
<1> QED BY <1>2, <1>5 DEF Channel!Next, Waiting, Expected

\* disconnect, when it drops what waits, in any order, is a step of the channel.
LEMMA FailStep ==
  ASSUME Waiting \in Seq(Cmds), IsSeq(calls), NEW dropped \in Seq(Cmds), Disconnect(dropped),
         Len(dropped) = Len(Waiting), Range(dropped) = Range(Waiting)
  PROVE  Channel!Next
<1>1. PICK F : F = Failed(dropped)
  OBVIOUS
<1>2. /\ Len(dropped) \in Nat /\ IsSeq(F) /\ Len(F) = Len(dropped)
      /\ DOMAIN F = 1 .. Len(dropped) /\ DOMAIN dropped = 1 .. Len(dropped)
      /\ \A i \in 1 .. Len(dropped) : F[i] = [cmd |-> dropped[i], of |-> Null]
  <2>1. Len(dropped) \in Nat /\ DOMAIN dropped = 1 .. Len(dropped)
    OBVIOUS
  <2>2. F = [i \in 1 .. Len(dropped) |-> F[i]] /\ Len(F) = Len(dropped) /\ DOMAIN F = 1 .. Len(dropped)
    BY <1>1, <2>1 DEF Failed
  <2>3. \A i \in 1 .. Len(dropped) : F[i] = [cmd |-> dropped[i], of |-> Null]
    BY <1>1 DEF Failed
  <2> QED BY <2>1, <2>2, <2>3, FunctionIsSeq
<1>3. calls' = calls \o F
  BY <1>1, SMTT(30) DEF Disconnect
<1>4. /\ Len(calls') = Len(calls) + Len(F) /\ SubSeq(calls', 1, Len(calls)) = calls
      /\ SubSeq(calls', Len(calls) + 1, Len(calls')) = F
  BY <1>2, <1>3, CatItems, CatParts
<1>5. Range(F) = [cmd : Range(dropped), of : {Null}]
  <2>1. ASSUME NEW x \in Range(F) PROVE x \in [cmd : Range(dropped), of : {Null}]
    <3>1. PICK i \in 1 .. Len(dropped) : x = [cmd |-> dropped[i], of |-> Null]
      BY <1>2 DEF Range
    <3>2. dropped[i] \in Range(dropped)
      BY <1>2, SMTT(30) DEF Range
    <3> QED BY <3>1, <3>2
  <2>2. ASSUME NEW x \in [cmd : Range(dropped), of : {Null}] PROVE x \in Range(F)
    <3>1. PICK c \in Range(dropped) : x = [cmd |-> c, of |-> Null]
      BY SMTT(30)
    <3>2. PICK i \in 1 .. Len(dropped) : c = dropped[i]
      BY <1>2, SMTT(30) DEF Range
    <3>3. F[i] = x
      BY <1>2, <3>1, <3>2
    <3> QED BY <1>2, <3>3 DEF Range
  <2> QED BY <2>1, <2>2, ZenonT(30)
<1>6. Waiting' = <<>>
  <2>1. queued' = <<>> /\ Expected' = <<>>
    BY DEF Disconnect, Expected
  <2> QED BY <2>1 DEF Waiting
<1>7. Channel!Fail
  <2>1. /\ Waiting' = <<>> /\ Len(calls') = Len(calls) + Len(Waiting)
        /\ SubSeq(calls', 1, Len(calls)) = calls
        /\ Range(SubSeq(calls', Len(calls) + 1, Len(calls'))) = [cmd : Range(Waiting), of : {Null}]
    BY <1>2, <1>4, <1>5, <1>6, Zenon
  <2> QED BY <2>1, ZenonT(30) DEF Channel!Fail, Channel!Range, Range, Waiting, Expected
<1> QED BY <1>7 DEF Channel!Next

\* Every step of the connection is a step of the channel or leaves it as it is.
LEMMA ChannelStep == CInv /\ [Next]_vars => [Channel!Next]_(Channel!vars)
<1> SUFFICES ASSUME CInv, [Next]_vars PROVE [Channel!Next]_(Channel!vars)
  OBVIOUS
<1>s. /\ Expected \in Seq(Cmds) /\ IsSeq(Expected) /\ IsSeq(queued) /\ queued \in Seq(Cmds)
      /\ callbacks \in Seq(Cmds) /\ IsSeq(callbacks) /\ IsSeq(calls) /\ pc \in {"idle", "loop", "called"}
  BY ChannelTypes, SeqIsSeq, SMTT(30) DEF CInv, IInv, SeqTypes, ReadInv
<1>w. Waiting \in Seq(Cmds) /\ Len(Waiting) = Len(queued) + Len(Expected)
  BY <1>s, ConcatProperties DEF Waiting
<1>u. Waiting' = Waiting /\ calls' = calls => UNCHANGED Channel!vars
  BY DEF Channel!vars, Waiting, Expected
<1>1. ASSUME NEW c \in Cmds, NEW kind, command(c, kind) PROVE Channel!Next
  <2>1. /\ UNCHANGED <<queued, pc, calls>> /\ callbacks' = Append(callbacks, c)
        /\ pc = "called" => callbacks # <<>>
        /\ ~ Issued(c)
    BY <1>1 DEF command, do_write, CInv, IInv, ReadInv
  <2>2. Expected' = Append(Expected, c)
    BY <1>s, <2>1, HeadTailAppend DEF Expected
  <2>3. Waiting' = Append(Waiting, c)
    BY <1>s, <2>1, <2>2, CatAppend, SMTT(30) DEF Waiting
  <2>4. Range(Expected) \subseteq Range(callbacks)
    <3>1. ASSUME pc = "called", NEW i \in DOMAIN Tail(callbacks) PROVE Tail(callbacks)[i] \in Range(callbacks)
      <4>1. callbacks # <<>>
        BY <2>1, <3>1
      <4>2. i + 1 \in DOMAIN callbacks /\ Tail(callbacks)[i] = callbacks[i + 1]
        BY <1>s, <4>1
      <4> QED BY <4>2 DEF Range
    <3> QED BY <3>1 DEF Expected, Range
  <2>5. Range(Waiting) = Range(queued) \union Range(Expected)
    BY <1>s, RangeConcatenation DEF Waiting
  <2>6. c \notin Range(Waiting) \union {calls[i].cmd : i \in DOMAIN calls}
    BY <2>1, <2>4, <2>5, SMTT(30) DEF Issued
  <2>7. Channel!Issue(c)
    BY <2>1, <2>3, <2>6 DEF Channel!Issue, Channel!Issued, Channel!Range, Range, Waiting, Expected
  <2> QED BY <2>7 DEF Channel!Next
<1>2. ASSUME NEW dropped \in {queued \o callbacks, callbacks \o queued}, Disconnect(dropped), pc # "called"
      PROVE  Channel!Next
  <2>1. Expected = callbacks /\ Waiting = queued \o callbacks
    BY <1>2 DEF Expected, Waiting
  <2>2. dropped \in Seq(Cmds) /\ Len(dropped) = Len(queued) + Len(callbacks)
    <3>1. Len(queued) \in Nat /\ Len(callbacks) \in Nat
      BY <1>s
    <3>2. queued \o callbacks \in Seq(Cmds) /\ Len(queued \o callbacks) = Len(queued) + Len(callbacks)
      BY <1>s, ConcatProperties
    <3>3. callbacks \o queued \in Seq(Cmds) /\ Len(callbacks \o queued) = Len(callbacks) + Len(queued)
      BY <1>s, ConcatProperties
    <3>4. Len(callbacks \o queued) = Len(queued) + Len(callbacks)
      BY <3>1, <3>3
    <3> QED BY <3>2, <3>3, <3>4, Zenon
  <2>3. Range(dropped) = Range(queued) \union Range(callbacks)
    <3>1. Range(queued \o callbacks) = Range(queued) \union Range(callbacks)
      BY <1>s, RangeConcatenation
    <3>2. Range(callbacks \o queued) = Range(callbacks) \union Range(queued)
      BY <1>s, RangeConcatenation
    <3> QED BY <3>1, <3>2
  <2>4. Range(Waiting) = Range(queued) \union Range(callbacks)
    BY <1>s, <2>1, RangeConcatenation
  <2>5. Len(dropped) = Len(Waiting)
    BY <1>w, <2>1, <2>2
  <2> QED BY <1>2, <1>s, <1>w, <2>2, <2>3, <2>4, <2>5, FailStep
<1>3. ASSUME NEW n \in 1 .. Len(replies), on_read(n) PROVE UNCHANGED Channel!vars
  BY <1>3, <1>u DEF on_read, Waiting, Expected
<1>4. CASE on_queued
  <2>1. /\ pc = "loop" /\ pc' = "loop" /\ callbacks # <<>> /\ calls' = calls
        /\ callbacks' = Tail(callbacks) /\ queued' = Append(queued, Head(callbacks))
    BY <1>4 DEF on_queued, Reading
  <2>2. Append(queued, Head(callbacks)) \o Tail(callbacks) = queued \o callbacks
    BY <1>s, <2>1, CatMove, SMTT(30)
  <2>3. Waiting' = queued' \o callbacks' /\ Waiting = queued \o callbacks
    BY <2>1 DEF Waiting, Expected
  <2> QED BY <1>u, <2>1, <2>2, <2>3, SMTT(30)
<1>5. CASE on_exec_transaction
  <2>1. /\ pc = "loop" /\ pc' = "called" /\ buffer # <<>> /\ callbacks # <<>> /\ queued # <<>>
        /\ Head(buffer).status # "QUEUED" /\ buffer' = Tail(buffer) /\ UNCHANGED <<callbacks, replies>>
        /\ queued' = <<>>
    BY <1>5 DEF on_exec_transaction, Reading, redis
  <2>2. /\ Head(buffer).of = Head(callbacks)
        /\ \/ Head(buffer).status = "nil"
           \/ Head(buffer).status = "array" /\ Head(buffer).items = queued
    BY <2>1, ReadingReply, SMTT(30)
  <2>3. PICK first : /\ first \in {Failed(queued), ExecReplies(Head(buffer))}
                     /\ Head(buffer).status # "nil" => Head(buffer).items = queued
                     /\ Head(buffer).status = "nil" => first = Failed(queued)
                     /\ calls' = calls \o first \o <<[cmd |-> Head(callbacks), of |-> Head(buffer).of]>>
    BY <1>5, <2>2 DEF on_exec_transaction
  <2>4. PICK x : x = [cmd |-> Head(callbacks), of |-> Head(buffer).of]
    OBVIOUS
  <2>5. /\ Len(queued) \in Nat /\ Len(first) = Len(queued) /\ IsSeq(first)
        /\ \A i \in 1 .. Len(queued) : first[i] \in [cmd : {queued[i]}, of : {queued[i], Null}]
    <3>1. Len(queued) \in Nat
      BY <1>s
    <3>2. DOMAIN first = 1 .. Len(queued) /\ first = [i \in 1 .. Len(queued) |-> first[i]]
      BY <2>3, <3>1 DEF Failed, ExecReplies
    <3>3. Len(first) = Len(queued)
      BY <3>1, <3>2
    <3>4. \A i \in 1 .. Len(queued) : first[i] \in [cmd : {queued[i]}, of : {queued[i], Null}]
      BY <2>3 DEF Failed, ExecReplies
    <3> QED BY <3>1, <3>2, <3>3, <3>4, FunctionIsSeq
  <2>6. PICK a : a = first \o <<x>>
    OBVIOUS
  <2>7. IsSeq(<<x>>) /\ Len(<<x>>) = 1 /\ <<x>>[1] = x
    BY ShortIsSeq
  <2>8. /\ IsSeq(a) /\ Len(a) = Len(queued) + 1
        /\ \A i \in 1 .. Len(queued) : a[i] = first[i]
        /\ a[Len(queued) + 1] = x
    <3>1. /\ IsSeq(a) /\ Len(a) = Len(first) + 1
          /\ \A i \in 1 .. (Len(first) + 1) : a[i] = IF i <= Len(first) THEN first[i] ELSE <<x>>[i - Len(first)]
      BY <2>5, <2>6, <2>7, CatItems
    <3>2. (Len(queued) + 1) - Len(queued) = 1 /\ ~ (Len(queued) + 1 <= Len(queued))
      BY <2>5
    <3> QED BY <2>5, <2>7, <3>1, <3>2
  <2>9. calls' = calls \o a
    <3>1. calls' = (calls \o first) \o <<x>>
      BY <2>3, <2>4
    <3>2. PICK y : y = <<x>>
      OBVIOUS
    <3>3. IsSeq(calls) /\ IsSeq(first) /\ IsSeq(y)
      BY <1>s, <2>5, <2>7, <3>2
    <3>4. (calls \o first) \o y = calls \o (first \o y)
      BY <3>3, CatThree
    <3> QED BY <2>6, <3>1, <3>2, <3>4
  <2>10. Waiting = queued \o callbacks /\ Waiting' = Tail(callbacks)
    BY <1>s, <2>1, CatNothing, TailItems DEF Waiting, Expected
  <2>11. Waiting' = SubSeq(Waiting, Len(a) + 1, Len(Waiting))
    BY <1>s, <2>1, <2>8, <2>10, CatDrop
  <2>12. /\ Len(callbacks) \in Nat /\ Len(callbacks) >= 1 /\ Len(Waiting) = Len(queued) + Len(callbacks)
         /\ \A i \in 1 .. Len(queued) : Waiting[i] = queued[i]
         /\ Waiting[Len(queued) + 1] = Head(callbacks)
    <3>1. Len(callbacks) \in Nat /\ Len(callbacks) >= 1 /\ Head(callbacks) = callbacks[1]
      BY <1>s, <2>1, SMTT(30)
    <3>2. /\ Len(Waiting) = Len(queued) + Len(callbacks)
          /\ \A i \in 1 .. (Len(queued) + Len(callbacks)) :
               Waiting[i] = IF i <= Len(queued) THEN queued[i] ELSE callbacks[i - Len(queued)]
      BY <1>s, <2>10, CatItems, SMTT(30)
    <3>3. (Len(queued) + 1) - Len(queued) = 1 /\ ~ (Len(queued) + 1 <= Len(queued))
      BY <2>5
    <3>4. \A i \in 1 .. Len(queued) : Waiting[i] = queued[i]
      BY <2>5, <3>1, <3>2
    <3>5. Waiting[Len(queued) + 1] = callbacks[1]
      BY <2>5, <3>1, <3>2, <3>3
    <3> QED BY <3>1, <3>2, <3>4, <3>5
  <2>13. ASSUME NEW i \in 1 .. Len(a) PROVE a[i] \in [cmd : {Waiting[i]}, of : {Waiting[i], Null}]
    <3>1. CASE i \in 1 .. Len(queued)
      BY <2>5, <2>8, <2>12, <3>1, SMTT(30)
    <3>2. CASE i = Len(queued) + 1
      BY <2>2, <2>4, <2>8, <2>12, <3>2
    <3>3. i \in 1 .. Len(queued) \/ i = Len(queued) + 1
      BY <2>5, <2>8
    <3> QED BY <3>1, <3>2, <3>3, Zenon
  <2>14. a # <<>> /\ Len(a) <= Len(Waiting)
    BY <2>5, <2>8, <2>12, SMTT(30)
  <2> QED BY <1>s, <1>w, <2>8, <2>9, <2>11, <2>13, <2>14, AnswerStep, ZenonT(30)
<1>6. CASE on_reply
  <2>1. /\ pc = "loop" /\ pc' = "called" /\ buffer # <<>> /\ callbacks # <<>> /\ queued = <<>>
        /\ buffer' = Tail(buffer) /\ UNCHANGED <<callbacks, replies, queued>>
        /\ calls' = Append(calls, [cmd |-> Head(callbacks), of |-> Head(buffer).of])
    BY <1>6 DEF on_reply, Reading, redis
  <2>2. Head(buffer).of = Head(callbacks)
    BY <2>1, ReadingReply
  <2>3. PICK x, a : x = [cmd |-> Head(callbacks), of |-> Head(buffer).of] /\ a = <<x>>
    OBVIOUS
  <2>4. IsSeq(a) /\ Len(a) = 1 /\ a[1] = x /\ a # <<>>
    BY <2>3, ShortIsSeq
  <2>5. calls' = calls \o a
    <3>1. PICK T : calls \in Seq(T) /\ x \in T
      BY <1>s, OneSet
    <3> QED BY <2>1, <2>3, <3>1, AppendIsConcat
  <2>6. Waiting = callbacks /\ Waiting' = Tail(callbacks)
    BY <1>s, <2>1, CatNothing, TailItems DEF Waiting, Expected
  <2>7. Waiting' = SubSeq(Waiting, Len(a) + 1, Len(Waiting))
    BY <1>s, <2>1, <2>4, <2>6, TailIsSubSeq
  <2>8. Len(a) <= Len(Waiting) /\ Waiting[1] = Head(callbacks)
    BY <1>s, <2>1, <2>4, <2>6, SMTT(30)
  <2>9. \A i \in 1 .. Len(a) : a[i] \in [cmd : {Waiting[i]}, of : {Waiting[i], Null}]
    BY <2>2, <2>3, <2>4, <2>8
  <2> QED BY <1>s, <1>w, <2>4, <2>5, <2>7, <2>8, <2>9, AnswerStep
<1>7. CASE pop_front \/ on_read_end
  BY <1>7, <1>u DEF pop_front, on_read_end, Waiting, Expected
<1>8. CASE transmit \/ serve \/ break
  BY <1>8, <1>u DEF transmit, serve, break, client, Waiting, Expected
<1>9. CASE on_write_error \/ on_read_error \/ on_read_extra \/ on_parse_error
  BY <1>2, <1>9 DEF on_write_error, on_read_error, on_read_extra, on_parse_error, DroppedCallbacks
<1>10. CASE UNCHANGED vars
  BY <1>10, <1>u DEF vars, client, Waiting, Expected
<1> QED
  BY <1>1, <1>3, <1>4, <1>5, <1>6, <1>7, <1>8, <1>9, <1>10 DEF Next, OnRead

-----------------------------------------------------------------------------
(* The theorems *)

\* The invariant holds in every behaviour of a connection.
THEOREM Invariance == Spec => []IInv
<1>1. Init => IInv
  BY ShortIsSeq DEF Init, IInv, SeqTypes, ReadInv, InFlight, Unanswered
<1> QED BY <1>1, Step, PTL DEF Spec

\* Connection::do_write and on_read keep one read outstanding while commands
\* wait, and never two, however many commands are issued and whatever fails.
THEOREM OneReadOutstanding == Spec => []OneRead
<1>1. IInv => OneRead
  BY DEF IInv, ReadInv, OneRead
<1> QED BY <1>1, Invariance, PTL

\* An open socket that goes back to the pool carries no reply of the connection
\* that used it, for any number of commands.
THEOREM SocketsReusedClean == Spec => []CleanReuse
<1>1. IInv => CleanReuse
  <2> SUFFICES ASSUME IInv, pc = "idle", callbacks = <<>>, open
               PROVE  wire = <<>> /\ replies = <<>>
    BY DEF CleanReuse
  <2>1. /\ IsSeq(buffer) /\ IsSeq(writes) /\ IsSeq(wire) /\ IsSeq(replies)
        /\ Len(writes) + Len(wire) + Len(replies) + Len(buffer) <= 0
    BY DEF IInv, SeqTypes, InFlight, Unanswered
  <2>2. Len(wire) = 0 /\ Len(replies) = 0
    BY <2>1, EmptyIsSeq
  <2> QED BY <2>1, <2>2, EmptyIsSeq
<1> QED BY <1>1, Invariance, PTL

\* Connection::command keeps its promise for any number of commands, with pipelining,
\* transactions and any failure of the link, when redis queues the commands of a
\* transaction that it is sent.
THEOREM ChannelImplemented ==
  ASSUME TxErrors = FALSE
  PROVE  Spec => ChannelSpec
<1>1. Init => Channel!Init
  BY DEF Init, Channel!Init
<1>2. Init => CInv
  <2> SUFFICES ASSUME Init PROVE CInv
    OBVIOUS
  <2>1. IInv
    BY ShortIsSeq DEF Init, IInv, SeqTypes, ReadInv, InFlight, Unanswered
  <2>2. Expected = <<>> /\ Arriving = <<>> /\ Sent = <<>> /\ queued = <<>> /\ txn = Null /\ multi = FALSE
    BY DEF Init, Expected, Arriving, Sent
  <2>3. Len(<<>>) = 0 /\ \A i \in 1 .. 0 : FALSE
    OBVIOUS
  <2>4. PICK f : f = [i \in {0} |-> Null]
    OBVIOUS
  <2>5. Matched(<<>>, <<>>, <<>>, Null, link)
    BY <2>3, <2>4 DEF Matched
  <2>6. PICK g : g = [i \in {0} |-> 0]
    OBVIOUS
  <2>7. Ordered(<<>>, <<>>, <<>>, Null, FALSE)
    BY <2>3, <2>6 DEF Ordered
  <2> QED BY <2>1, <2>2, <2>5, <2>7 DEF CInv, Init
<1>3. CInv /\ [Next]_vars => CInv'
  BY ChannelInvStep
<1> QED BY <1>1, <1>2, <1>3, ChannelStep, PTL DEF Spec, ChannelSpec, Channel!Spec
===============================================================================
