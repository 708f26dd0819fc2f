--------------------------- MODULE SyncClientProofs ---------------------------
(***************************************************************************)
(* Proofs about SyncClient, for any finite collection, any names of its    *)
(* blobs and any limit of the scheduler, however often the program fails,  *)
(* is killed and is started again.                                         *)
(*                                                                         *)
(* None of the properties is inductive: that the wanted blobs are counted  *)
(* once rests on their being in one place each, and that the slots are     *)
(* used up when something waits rests on the steps before the download     *)
(* having left none of them taken.                                         *)
(***************************************************************************)
EXTENDS SyncClient, FiniteSetTheorems, TLAPS

\* Before the download the scheduler has the one request of the phase, or had.
BeforeDownload ==
  \A req \in {"login", "list"} :
    phase = req => /\ pending = <<>>
                   /\ running \subseteq {req} /\ (running # {} => failed = {})
                   /\ wanted = {}

\* Each wanted blob that was not counted yet is in one place.
InPlace ==
  /\ wanted = Blobs \ local
  /\ pending \in Seq(wanted) /\ IsInjective(pending)
  /\ running \subseteq wanted /\ failed \subseteq wanted
  /\ running \intersect failed = {}
  /\ Range(pending) \intersect (running \union failed) = {}

\* The count of the callback, and what it has led to.
Counted ==
  /\ count \in Nat
  /\ count + Len(pending) + Cardinality(running) + Cardinality(failed) = Cardinality(wanted)
  /\ reported = IF wanted # {} /\ count = Cardinality(wanted) THEN 1 ELSE 0

\* The slots are taken by requests that run and by those that have failed; nothing
\* waits while one is free.
SlotsUsed ==
  /\ Cardinality(running) + Cardinality(failed) <= Limit
  /\ pending # <<>> => Cardinality(running) + Cardinality(failed) = Limit

\* A blob has a name that no other blob has.
OwnName(b) == \A c \in Blobs \ {b} : Name[c] # Name[b]

\* A wanted blob that is neither expected any more nor known to have gone wrong is
\* in its file.
Arrived ==
  \A b \in wanted : OwnName(b) =>
    b \in Range(pending) \union running \union failed \union faults \/ disk[Name[b]] = b

\* The inductive invariant.
IInv ==
  /\ disk \in [Names -> Contents]
  /\ phase \in {"ended", "login", "list", "download"}
  /\ phase = "ended" => running = {}
  /\ BeforeDownload
  /\ phase = "download" => InPlace /\ Counted /\ SlotsUsed /\ Arrived

-----------------------------------------------------------------------------
(* Sequences without repetition *)

\* Such a sequence has as many elements as it is long.
LEMMA RangeCounted ==
  ASSUME NEW S, NEW s \in Seq(S), IsInjective(s)
  PROVE  IsFiniteSet(Range(s)) /\ Cardinality(Range(s)) = Len(s)
<1>1. s \in [1..Len(s) -> Range(s)]
  BY DEF Range
<1>2. Len(s) \in Nat
  OBVIOUS
<1>3. s \in Bijection(1..Len(s), Range(s))
  BY <1>1 DEF Bijection, Injection, Surjection, IsInjective, Range
<1>4. IsFiniteSet(1..Len(s)) /\ Cardinality(1..Len(s)) = Len(s)
  BY <1>2, FS_Interval, SMTT(30)
<1> QED
  BY <1>3, <1>4, FS_Bijection, Zenon DEF ExistsBijection

\* Cut in two, its parts have no repetition and nothing in common.
LEMMA CutInTwo ==
  ASSUME NEW S, NEW s \in Seq(S), IsInjective(s), NEW k \in 0..Len(s)
  PROVE  LET first == SubSeq(s, 1, k)
             rest == SubSeq(s, k + 1, Len(s))
         IN /\ first \in Seq(S) /\ IsInjective(first) /\ Len(first) = k
            /\ rest \in Seq(S) /\ IsInjective(rest) /\ Len(rest) = Len(s) - k
            /\ Range(first) \union Range(rest) = Range(s)
            /\ Range(first) \intersect Range(rest) = {}
<1> DEFINE first == SubSeq(s, 1, k)
           rest == SubSeq(s, k + 1, Len(s))
<1>1. /\ first \in Seq(S) /\ Len(first) = k
      /\ DOMAIN first = 1..k /\ \A i \in 1..k : first[i] = s[i]
  OBVIOUS
<1>2. /\ rest \in Seq(S) /\ Len(rest) = Len(s) - k
      /\ DOMAIN rest = 1..(Len(s) - k) /\ \A i \in 1..(Len(s) - k) : rest[i] = s[i + k]
  OBVIOUS
<1> HIDE DEF first, rest
<1>3. DOMAIN s = 1..Len(s) /\ \A i, j \in 1..Len(s) : s[i] = s[j] => i = j
  BY DEF IsInjective
<1>4. IsInjective(first)
  BY <1>1, <1>3 DEF IsInjective
<1>5. IsInjective(rest)
  <2>1. ASSUME NEW i \in 1..(Len(s) - k), NEW j \in 1..(Len(s) - k), rest[i] = rest[j]
        PROVE  i = j
    <3>1. i + k \in 1..Len(s) /\ j + k \in 1..Len(s)
      OBVIOUS
    <3>2. s[i + k] = s[j + k]
      BY <1>2, <2>1
    <3>3. i + k = j + k
      BY <1>3, <3>1, <3>2
    <3> QED
      BY <3>3
  <2> QED
    BY <1>2, <2>1 DEF IsInjective
<1>6. Range(first) = {s[i] : i \in 1..k}
  BY <1>1 DEF Range
<1>7. Range(rest) = {s[i] : i \in (k + 1)..Len(s)}
  <2>1. ASSUME NEW x \in Range(rest) PROVE \E i \in (k + 1)..Len(s) : x = s[i]
    <3>1. PICK i \in 1..(Len(s) - k) : x = s[i + k]
      BY <1>2 DEF Range
    <3>2. i + k \in (k + 1)..Len(s)
      OBVIOUS
    <3> QED
      BY <3>1, <3>2
  <2>2. ASSUME NEW i \in (k + 1)..Len(s) PROVE s[i] \in Range(rest)
    <3>1. i - k \in 1..(Len(s) - k) /\ (i - k) + k = i
      OBVIOUS
    <3>2. rest[i - k] = s[i]
      BY <3>1, <1>2
    <3> QED
      BY <3>1, <3>2, <1>2 DEF Range
  <2> QED
    BY <2>1, <2>2
<1>8. Range(s) = {s[i] : i \in 1..Len(s)}
  BY <1>3 DEF Range
<1>9. Range(first) \union Range(rest) = Range(s)
  BY <1>6, <1>7, <1>8
<1>10. Range(first) \intersect Range(rest) = {}
  BY <1>6, <1>7, <1>3
<1> QED
  BY <1>1, <1>2, <1>4, <1>5, <1>9, <1>10 DEF first, rest

\* The sequence SetToSeq makes of a finite set has all its elements once.
LEMMA SetToSeqIsSeq ==
  ASSUME NEW S, IsFiniteSet(S), NEW s, s = SetToSeq(S)
  PROVE  /\ s \in Seq(S) /\ IsInjective(s) /\ Range(s) = S
         /\ Len(s) = Cardinality(S)
<1>1. Cardinality(S) \in Nat
  BY FS_CardinalityType
<1>2. \E f \in [1..Cardinality(S) -> S] : IsInjective(f)
  <2>1. PICK f : f \in Bijection(1..Cardinality(S), S)
    BY FS_CardinalityType, Zenon DEF ExistsBijection
  <2>2. f \in [1..Cardinality(S) -> S] /\ IsInjective(f)
    BY <2>1 DEF Bijection, Injection, IsInjective
  <2> QED
    BY <2>2
<1>3. s \in [1..Cardinality(S) -> S] /\ IsInjective(s)
  BY <1>2, Zenon DEF SetToSeq
<1>4. s \in Seq(S) /\ Len(s) = Cardinality(S)
  BY <1>1, <1>3
<1>5. Range(s) \subseteq S
  BY <1>3 DEF Range
<1>6. Cardinality(Range(s)) = Cardinality(S)
  BY <1>3, <1>4, RangeCounted
<1>7. Range(s) = S
  BY <1>5, <1>6, FS_Subset
<1> QED
  BY <1>3, <1>4, <1>7

-----------------------------------------------------------------------------
(* The scheduler *)

\* try_start moves requests from the waiting ones to the running ones: none is lost
\* or started twice, no more than Limit slots are used, and nothing waits while one
\* is free.
LEMMA TryStart ==
  ASSUME NEW S, IsFiniteSet(S),
         NEW waiting \in Seq(S), IsInjective(waiting),
         NEW going \in SUBSET S, NEW stuck \in SUBSET S,
         going \intersect stuck = {},
         Range(waiting) \intersect (going \union stuck) = {},
         Cardinality(going) + Cardinality(stuck) <= Limit,
         try_start(waiting, going, stuck)
  PROVE  /\ pending' \in Seq(S) /\ IsInjective(pending')
         /\ running' \in SUBSET S /\ running' \intersect stuck = {}
         /\ Range(pending') \intersect (running' \union stuck) = {}
         /\ Range(pending') \union running' = Range(waiting) \union going
         /\ Len(pending') + Cardinality(running') = Len(waiting) + Cardinality(going)
         /\ Cardinality(running') + Cardinality(stuck) <= Limit
         /\ pending' # <<>> => Cardinality(running') + Cardinality(stuck) = Limit
<1> DEFINE taken == Cardinality(going) + Cardinality(stuck)
<1>1. /\ IsFiniteSet(going) /\ Cardinality(going) \in Nat
      /\ IsFiniteSet(stuck) /\ Cardinality(stuck) \in Nat
  BY FS_Subset, FS_CardinalityType
<1>2. PICK n : n = Room(taken)
  OBVIOUS
<1>3. n \in Nat /\ n = Limit - taken
  BY <1>1, <1>2, SyncAssumption DEF Room
<1>4. PICK k : k = IF n < Len(waiting) THEN n ELSE Len(waiting)
  OBVIOUS
<1>5. k \in 0..Len(waiting) /\ k <= n /\ (k < Len(waiting) => k = n)
  BY <1>3, <1>4
<1>6. PICK first : first = SubSeq(waiting, 1, k)
  OBVIOUS
<1>7. /\ first \in Seq(S) /\ IsInjective(first) /\ Len(first) = k
      /\ running' = going \union Range(first)
      /\ pending' = SubSeq(waiting, k + 1, Len(waiting))
      /\ pending' \in Seq(S) /\ IsInjective(pending') /\ Len(pending') = Len(waiting) - k
      /\ Range(first) \union Range(pending') = Range(waiting)
      /\ Range(first) \intersect Range(pending') = {}
  <2>1. /\ running' = going \union Range(first)
        /\ pending' = SubSeq(waiting, Len(first) + 1, Len(waiting))
    BY <1>2, <1>4, <1>6 DEF try_start
  <2>2. PICK rest : rest = SubSeq(waiting, k + 1, Len(waiting))
    OBVIOUS
  <2>3. /\ first \in Seq(S) /\ IsInjective(first) /\ Len(first) = k
        /\ rest \in Seq(S) /\ IsInjective(rest) /\ Len(rest) = Len(waiting) - k
        /\ Range(first) \union Range(rest) = Range(waiting)
        /\ Range(first) \intersect Range(rest) = {}
    <3>1. k \in 0..Len(waiting)
      BY <1>5
    <3>2. LET one == SubSeq(waiting, 1, k)
              two == SubSeq(waiting, k + 1, Len(waiting))
          IN /\ one \in Seq(S) /\ IsInjective(one) /\ Len(one) = k
             /\ two \in Seq(S) /\ IsInjective(two) /\ Len(two) = Len(waiting) - k
             /\ Range(one) \union Range(two) = Range(waiting)
             /\ Range(one) \intersect Range(two) = {}
      BY <3>1, CutInTwo, SMT
    <3> QED
      BY <1>6, <2>2, <3>2, Zenon
  <2>4. pending' = rest
    BY <2>1, <2>2, <2>3
  <2> QED
    BY <2>1, <2>2, <2>3, <2>4, Zenon
<1>8. IsFiniteSet(Range(first)) /\ Cardinality(Range(first)) = k
  BY <1>7, RangeCounted
<1>9. Range(first) \subseteq S
  BY <1>7 DEF Range
<1>10. going \intersect Range(first) = {}
  BY <1>7
<1>11. Cardinality(running') = Cardinality(going) + k
  <2>1. Cardinality(going \union Range(first)) =
          Cardinality(going) + Cardinality(Range(first)) - Cardinality(going \intersect Range(first))
    BY <1>1, <1>8, FS_Union
  <2>2. Cardinality(going \intersect Range(first)) = 0
    BY <1>10, FS_EmptySet
  <2> QED
    BY <1>1, <1>5, <1>7, <1>8, <2>1, <2>2, SMTT(30)
<1>12. /\ running' \in SUBSET S /\ running' \intersect stuck = {}
       /\ Range(pending') \intersect (running' \union stuck) = {}
       /\ Range(pending') \union running' = Range(waiting) \union going
  BY <1>7, <1>9
<1>13. Len(pending') + Cardinality(running') = Len(waiting) + Cardinality(going)
  BY <1>1, <1>5, <1>7, <1>11
<1>14. Cardinality(running') + Cardinality(stuck) <= Limit
  BY <1>1, <1>3, <1>5, <1>11, SyncAssumption, SMTT(30)
<1>15. ASSUME pending' # <<>> PROVE Cardinality(running') + Cardinality(stuck) = Limit
  <2>1. Len(pending') # 0
    BY <1>7, <1>15
  <2> QED
    BY <1>1, <1>3, <1>5, <1>7, <1>11, <2>1, SyncAssumption, SMTT(30)
<1> QED
  BY <1>7, <1>12, <1>13, <1>14, <1>15, SMTT(30)

\* With all slots free the only request is started.
LEMMA TryStartOne ==
  ASSUME NEW req, try_start(<<req>>, {}, {})
  PROVE  running' = {req} /\ pending' = <<>>
<1>1. PICK s, none : s = <<req>> /\ none = {}
  OBVIOUS
<1>2. s \in Seq({req}) /\ Len(s) = 1 /\ IsInjective(s) /\ Range(s) = {req}
  BY <1>1 DEF IsInjective, Range
<1>3. IsFiniteSet({req}) /\ Cardinality(none) = 0
  BY <1>1, FS_EmptySet, FS_Singleton, Zenon
<1>4. /\ Limit \in Nat /\ Limit >= 1 /\ Cardinality(none) + Cardinality(none) <= Limit
      /\ none \in SUBSET {req} /\ none \intersect none = {}
      /\ Range(s) \intersect (none \union none) = {}
  BY <1>1, <1>3, SyncAssumption
<1>5. try_start(s, none, none)
  BY <1>1
<1>6. /\ pending' \in Seq({req}) /\ running' \in SUBSET {req}
      /\ Range(pending') \union running' = Range(s) \union none
      /\ Range(pending') \intersect (running' \union none) = {}
      /\ pending' # <<>> => Cardinality(running') + Cardinality(none) = Limit
  <2>1. pending' \in Seq({req}) /\ running' \in SUBSET {req}
    BY <1>2, <1>3, <1>4, <1>5, TryStart, Zenon
  <2>2. Range(pending') \union running' = Range(s) \union none
    BY <1>2, <1>3, <1>4, <1>5, TryStart, SMTT(30)
  <2>3. Range(pending') \intersect (running' \union none) = {}
    BY <1>2, <1>3, <1>4, <1>5, TryStart, Zenon
  <2>4. pending' # <<>> => Cardinality(running') + Cardinality(none) = Limit
    BY <1>2, <1>3, <1>4, <1>5, TryStart, Zenon
  <2> QED
    BY <2>1, <2>2, <2>3, <2>4
<1>7. pending' = <<>>
  <2> SUFFICES ASSUME pending' # <<>> PROVE FALSE
    OBVIOUS
  <2>1. running' # {}
    BY <1>1, <1>3, <1>4, <1>6, SMTT(30)
  <2>2. pending'[1] \in Range(pending') /\ pending'[1] = req
    BY <1>6 DEF Range
  <2> QED
    BY <1>6, <2>1, <2>2
<1>8. Range(pending') = {}
  BY <1>7 DEF Range
<1> QED
  BY <1>1, <1>2, <1>6, <1>7, <1>8

\* Without requests nothing is started.
LEMMA TryStartNone ==
  ASSUME try_start(<<>>, {}, {})
  PROVE  running' = {} /\ pending' = <<>>
<1>1. /\ <<>> \in Seq({}) /\ Len(<<>>) = 0
      /\ IsInjective(<<>>) /\ Range(<<>>) = {}
  BY DEF IsInjective, Range
<1>2. IsFiniteSet({}) /\ Cardinality({}) = 0 /\ Limit \in Nat
  BY FS_EmptySet, SyncAssumption
<1>3. /\ Cardinality({}) + Cardinality({}) <= Limit
      /\ {} \in SUBSET {} /\ {} \intersect {} = {}
      /\ Range(<<>>) \intersect ({} \union {}) = {}
  BY <1>2
<1>4. pending' \in Seq({}) /\ running' \in SUBSET {}
  BY <1>1, <1>2, <1>3, TryStart, Zenon
<1> QED
  BY <1>4

-----------------------------------------------------------------------------
(* The program *)

\* A new program in any directory satisfies the invariant.
LEMMA InitEstablishes == Init => IInv
<1> SUFFICES ASSUME Init PROVE IInv
  OBVIOUS
<1>1. disk \in [Names -> Contents] /\ phase = "ended" /\ running = {}
  BY DEF Init, Contents
<1> QED
  BY <1>1 DEF IInv, BeforeDownload

\* Logging in: the one request of the phase runs.
LEMMA LoginPreserves == IInv /\ login => IInv'
<1> SUFFICES ASSUME IInv, login PROVE IInv'
  OBVIOUS
<1>1. running' = {"login"} /\ pending' = <<>>
  BY TryStartOne DEF login
<1>2. phase' = "login" /\ failed' = {} /\ wanted' = {} /\ disk' = disk
  BY DEF login
<1>3. BeforeDownload'
  BY <1>1, <1>2 DEF BeforeDownload
<1> QED
  BY <1>2, <1>3 DEF IInv

\* Asking for the collection: the request takes the slot of the login.
LEMMA GetCollectionPreserves == IInv /\ get_collection => IInv'
<1> SUFFICES ASSUME IInv, get_collection PROVE IInv'
  OBVIOUS
<1>1. failed = {} /\ wanted = {}
  BY DEF IInv, BeforeDownload, get_collection
<1>2. running' = {"list"} /\ pending' = <<>>
  BY <1>1, TryStartOne DEF get_collection
<1>3. phase' = "list" /\ failed' = {} /\ wanted' = {} /\ disk' = disk
  BY <1>1 DEF get_collection
<1>4. BeforeDownload'
  BY <1>2, <1>3 DEF BeforeDownload
<1> QED
  BY <1>3, <1>4 DEF IInv

\* Without a collection nothing is started.
LEMMA NoCollectionPreserves == IInv /\ no_collection => IInv'
<1> SUFFICES ASSUME IInv, no_collection PROVE IInv'
  OBVIOUS
<1>1. failed = {} /\ wanted = {}
  BY DEF IInv, BeforeDownload, no_collection
<1>2. running' = {} /\ pending' = <<>>
  BY <1>1, TryStartNone DEF no_collection
<1>3. phase' = "list" /\ failed' = {} /\ wanted' = {} /\ disk' = disk
  BY <1>1 DEF no_collection
<1>4. BeforeDownload'
  BY <1>2, <1>3 DEF BeforeDownload
<1> QED
  BY <1>3, <1>4 DEF IInv

\* Each missing blob is either counted, since its file cannot be opened, or requested.
LEMMA DownloadPreserves == IInv /\ download_collection => IInv'
<1> SUFFICES ASSUME IInv, download_collection PROVE IInv'
  OBVIOUS
<1>1. failed = {} /\ failed' = {} /\ phase' = "download" /\ wanted' = Missing /\ local' = local
  BY DEF IInv, BeforeDownload, download_collection
<1>2. PICK closed \in SUBSET Missing :
        /\ disk' = [n \in Names |-> IF \E b \in Missing \ closed : Name[b] = n THEN "empty" ELSE disk[n]]
        /\ try_start(SetToSeq(Missing \ closed), {}, failed)
        /\ count' = Cardinality(closed)
        /\ reported' = IF closed # {} /\ LastPart(Cardinality(closed), Cardinality(Missing)) THEN 1 ELSE 0
        /\ faults' = closed
  BY DEF download_collection
<1>3. PICK todo, none : todo = SetToSeq(Missing \ closed) /\ none = {}
  OBVIOUS
<1>4. IsFiniteSet(Missing)
  BY FS_Subset, SyncAssumption DEF Missing
<1>5. /\ IsFiniteSet(closed) /\ IsFiniteSet(Missing \ closed)
      /\ Cardinality(closed) \in Nat /\ Cardinality(Missing) \in Nat
      /\ Cardinality(Missing \ closed) = Cardinality(Missing) - Cardinality(closed)
  <2>1. IsFiniteSet(closed) /\ IsFiniteSet(Missing \ closed)
    BY <1>4, FS_Subset
  <2>2. Cardinality(Missing \ closed) = Cardinality(Missing) - Cardinality(Missing \intersect closed)
    BY <1>4, FS_Difference
  <2>3. Missing \intersect closed = closed
    OBVIOUS
  <2> QED
    BY <1>4, <2>1, <2>2, <2>3, FS_CardinalityType
<1>6. /\ todo \in Seq(Missing \ closed) /\ IsInjective(todo) /\ Range(todo) = Missing \ closed
      /\ Len(todo) = Cardinality(Missing \ closed)
  BY <1>3, <1>5, SetToSeqIsSeq
<1>7. todo \in Seq(Missing)
  BY <1>6
<1>8. /\ none \in SUBSET Missing /\ none \intersect none = {}
      /\ Range(todo) \intersect (none \union none) = {} /\ Cardinality(none) = 0
      /\ Cardinality(none) + Cardinality(none) <= Limit
  BY <1>3, FS_EmptySet, SyncAssumption
<1>9. try_start(todo, none, none)
  BY <1>1, <1>2, <1>3
<1>10. /\ pending' \in Seq(Missing) /\ IsInjective(pending')
       /\ running' \in SUBSET Missing
       /\ Range(pending') \intersect (running' \union none) = {}
       /\ Range(pending') \union running' = Range(todo) \union none
       /\ Len(pending') + Cardinality(running') = Len(todo) + Cardinality(none)
       /\ Cardinality(running') + Cardinality(none) <= Limit
       /\ pending' # <<>> => Cardinality(running') + Cardinality(none) = Limit
  BY <1>4, <1>6, <1>7, <1>8, <1>9, TryStart, SMTT(30)
<1>11. InPlace'
  BY <1>1, <1>3, <1>10 DEF InPlace, Missing
<1>12. IsFiniteSet(running') /\ Cardinality(running') \in Nat /\ Len(pending') \in Nat
  BY <1>4, <1>10, FS_Subset, FS_CardinalityType, SMTT(30)
<1>13. closed = {} => Cardinality(closed) = 0
  BY FS_EmptySet
<1>14. Missing # {} => Cardinality(Missing) # 0
  BY <1>4, FS_EmptySet
<1>15. Counted'
  <2>1. Cardinality(failed') = 0 /\ Cardinality(none) = 0
    BY <1>1, <1>3, <1>8
  <2>2. count' \in Nat /\ count' = Cardinality(closed) /\ wanted' = Missing
    BY <1>1, <1>2, <1>5
  <2>3. Len(pending') + Cardinality(running') = Cardinality(Missing) - Cardinality(closed)
    BY <1>5, <1>6, <1>10, <2>1
  <2>4. count' + Len(pending') + Cardinality(running') + Cardinality(failed') = Cardinality(wanted')
    BY <1>5, <1>12, <2>1, <2>2, <2>3, SMTT(30)
  <2>5. closed # {} => Missing # {}
    OBVIOUS
  <2>6. reported' = IF wanted' # {} /\ count' = Cardinality(wanted') THEN 1 ELSE 0
    BY <1>2, <1>5, <1>13, <1>14, <2>2, <2>5, SMTT(30) DEF LastPart
  <2> QED
    BY <2>2, <2>4, <2>6 DEF Counted
<1>16. SlotsUsed'
  BY <1>1, <1>3, <1>10 DEF SlotsUsed
<1>17. Arrived'
  BY <1>1, <1>2, <1>3, <1>6, <1>10 DEF Arrived
<1>18. disk' \in [Names -> Contents]
  BY <1>2 DEF IInv, Contents
<1>19. BeforeDownload'
  BY <1>1 DEF BeforeDownload
<1> QED
  BY <1>1, <1>11, <1>15, <1>16, <1>17, <1>18, <1>19, SMTT(30) DEF IInv

\* A response is written: its request is counted, and others may be started.
LEMMA OnLoadPreserves == ASSUME IInv, NEW b \in Blobs, on_load(b) PROVE IInv'
<1>1. phase = "download" /\ b \in running
  BY SyncAssumption DEF IInv, BeforeDownload, on_load
<1>2. InPlace /\ Counted /\ SlotsUsed /\ Arrived /\ disk \in [Names -> Contents]
  BY <1>1 DEF IInv
<1>3. PICK going : going = running \ {b}
  OBVIOUS
<1>4. /\ wanted' = wanted /\ failed' = failed /\ local' = local /\ phase' = "download"
      /\ try_start(pending, going, failed) /\ count' = count + 1
      /\ reported' = reported + IF LastPart(count + 1, Cardinality(wanted)) THEN 1 ELSE 0
  BY <1>1, <1>3 DEF on_load
<1>5. IsFiniteSet(wanted) /\ IsFiniteSet(running) /\ IsFiniteSet(failed)
  <2>1. IsFiniteSet(wanted)
    BY <1>2, FS_Subset, SyncAssumption DEF InPlace
  <2> QED
    BY <1>2, <2>1, FS_Subset DEF InPlace
<1>6. /\ Cardinality(wanted) \in Nat /\ Cardinality(running) \in Nat /\ Cardinality(failed) \in Nat
      /\ Cardinality(going) \in Nat /\ Cardinality(going) = Cardinality(running) - 1
  <2>1. IsFiniteSet(going) /\ Cardinality(going) = Cardinality(running) - 1
    BY <1>1, <1>3, <1>5, FS_RemoveElement
  <2> QED
    BY <1>5, <2>1, FS_CardinalityType
<1>7. /\ pending \in Seq(wanted) /\ IsInjective(pending)
      /\ going \in SUBSET wanted /\ failed \in SUBSET wanted /\ going \intersect failed = {}
      /\ Range(pending) \intersect (going \union failed) = {}
  BY <1>2, <1>3 DEF InPlace
<1>8. Cardinality(going) + Cardinality(failed) <= Limit
  BY <1>2, <1>6, SyncAssumption DEF SlotsUsed
<1>9. /\ pending' \in Seq(wanted) /\ IsInjective(pending')
      /\ running' \in SUBSET wanted /\ running' \intersect failed = {}
      /\ Range(pending') \intersect (running' \union failed) = {}
      /\ Range(pending') \union running' = Range(pending) \union going
      /\ Len(pending') + Cardinality(running') = Len(pending) + Cardinality(going)
      /\ Cardinality(running') + Cardinality(failed) <= Limit
      /\ pending' # <<>> => Cardinality(running') + Cardinality(failed) = Limit
  BY <1>4, <1>5, <1>7, <1>8, TryStart, SMTT(30)
<1>10. InPlace'
  BY <1>2, <1>4, <1>9 DEF InPlace
<1>11. SlotsUsed'
  BY <1>4, <1>9 DEF SlotsUsed
<1>12. Counted'
  <2>1. IsFiniteSet(running') /\ Cardinality(running') \in Nat /\ Len(pending') \in Nat /\ Len(pending) \in Nat
    BY <1>2, <1>5, <1>9, FS_Subset, FS_CardinalityType, SMTT(30) DEF InPlace
  <2>2. /\ count \in Nat
        /\ count + Len(pending) + Cardinality(running) + Cardinality(failed) = Cardinality(wanted)
        /\ reported = IF wanted # {} /\ count = Cardinality(wanted) THEN 1 ELSE 0
    BY <1>2 DEF Counted
  <2>3. count' \in Nat /\ count' + Len(pending') + Cardinality(running') + Cardinality(failed) = Cardinality(wanted)
    <3>1. count' = count + 1 /\ Len(pending') + Cardinality(running') = Len(pending) + (Cardinality(running) - 1)
      BY <1>4, <1>6, <1>9
    <3>2. count \in Nat /\ count + Len(pending) + Cardinality(running) + Cardinality(failed) = Cardinality(wanted)
      BY <2>2
    <3>3. /\ Len(pending) \in Nat /\ Len(pending') \in Nat /\ Cardinality(running') \in Nat
          /\ Cardinality(running) \in Nat /\ Cardinality(failed) \in Nat
      BY <1>6, <2>1
    <3> HIDE <1>2, <1>4, <1>9
    <3> QED
      BY <3>1, <3>2, <3>3, SMTT(30)
  <2>4. Cardinality(running) >= 1
    BY <1>6
  <2>5. count < Cardinality(wanted) /\ reported = 0
    BY <1>6, <2>1, <2>2, <2>4, SMTT(30)
  <2>6. wanted # {}
    BY <1>1, <1>2 DEF InPlace
  <2>7. reported' = IF wanted # {} /\ count' = Cardinality(wanted) THEN 1 ELSE 0
    BY <1>4, <2>5, <2>6 DEF LastPart
  <2> QED
    BY <1>4, <2>3, <2>7, SMTT(30) DEF Counted
<1>13. disk' \in [Names -> Contents]
  BY <1>2 DEF on_load, Contents
<1>14. Arrived'
  <2> SUFFICES ASSUME NEW c \in wanted, OwnName(c),
                      c \notin Range(pending') \union running' \union failed' \union faults'
               PROVE  disk'[Name[c]] = c
    BY <1>4 DEF Arrived, OwnName
  <2>1. c \in Blobs /\ Name[c] \in Names /\ Name[b] \in Names
    BY <1>2, SyncAssumption DEF InPlace
  <2>2. faults \subseteq faults'
    BY DEF on_load
  <2>3. CASE c = b
    BY <1>2, <2>1, <2>3, SMTT(30) DEF on_load, OwnName, InPlace
  <2>4. CASE c # b
    <3>1. Name[b] # Name[c]
      BY <2>1, <2>4 DEF OwnName
    <3>2. disk'[Name[c]] = disk[Name[c]]
      BY <1>2, <2>1, <3>1, SMTT(30) DEF on_load
    <3>3. c \notin Range(pending) \union running \union failed \union faults
      BY <1>3, <1>4, <1>9, <2>2, <2>4, SMTT(30)
    <3> QED
      BY <1>2, <3>2, <3>3 DEF Arrived
  <2> QED
    BY <2>3, <2>4
<1>15. BeforeDownload'
  BY <1>4 DEF BeforeDownload
<1> QED
  BY <1>4, <1>10, <1>11, <1>12, <1>13, <1>14, <1>15 DEF IInv

\* A failed request keeps its slot, whatever it was for.
LEMMA FailPreserves ==
  ASSUME IInv, NEW req \in Blobs \union {"login", "list"}, fail(req) PROVE IInv'
<1>1. /\ req \in running /\ running' = running \ {req} /\ failed' = failed \union {req}
      /\ faults' = faults \union ({req} \intersect Blobs)
      /\ UNCHANGED <<phase, pending, local, wanted, count, reported>>
      /\ (req \in Blobs /\ disk' = [disk EXCEPT ![Name[req]] = "other"]) \/ disk' = disk
  BY DEF fail
<1>2. disk' \in [Names -> Contents]
  BY <1>1 DEF IInv, Contents
<1>3. CASE phase # "download"
  <2>1. BeforeDownload'
    BY <1>1 DEF IInv, BeforeDownload
  <2> QED
    BY <1>1, <1>2, <1>3, <2>1, SMTT(30) DEF IInv
<1>4. CASE phase = "download"
  <2>1. InPlace /\ Counted /\ SlotsUsed /\ Arrived /\ disk \in [Names -> Contents]
    BY <1>4 DEF IInv
  <2>2. IsFiniteSet(wanted) /\ IsFiniteSet(running) /\ IsFiniteSet(failed)
    <3>1. IsFiniteSet(wanted)
      BY <2>1, FS_Subset, SyncAssumption DEF InPlace
    <3> QED
      BY <2>1, <3>1, FS_Subset, SMTT(30) DEF InPlace
  <2>3. req \in wanted /\ req \in Blobs /\ req \notin failed
    BY <1>1, <2>1 DEF InPlace
  <2>4. Cardinality(running') = Cardinality(running) - 1
    BY <1>1, <2>2, FS_RemoveElement
  <2>5. Cardinality(failed') = Cardinality(failed) + 1
    BY <1>1, <2>2, <2>3, FS_AddElement
  <2>6. Cardinality(running) \in Nat /\ Cardinality(failed) \in Nat
    BY <2>2, FS_CardinalityType
  <2>7. Cardinality(running') + Cardinality(failed') = Cardinality(running) + Cardinality(failed)
    BY <2>4, <2>5, <2>6, SMTT(30)
  <2>8. InPlace'
    BY <1>1, <2>1, <2>3, SMTT(30) DEF InPlace
  <2>9. Counted'
    <3>1. Len(pending) \in Nat
      BY <2>1 DEF InPlace
    <3>2. /\ count' \in Nat
          /\ count' + Len(pending') + Cardinality(running') + Cardinality(failed') = Cardinality(wanted')
      BY <1>1, <2>1, <2>4, <2>5, <2>6, <3>1, SMTT(30) DEF Counted
    <3> QED
      BY <1>1, <2>1, <3>2 DEF Counted
  <2>10. SlotsUsed'
    BY <1>1, <2>1, <2>7, SMTT(30) DEF SlotsUsed
  <2>11. Arrived'
    <3> SUFFICES ASSUME NEW c \in wanted, OwnName(c),
                        c \notin Range(pending') \union running' \union failed' \union faults'
                 PROVE  disk'[Name[c]] = c
      BY <1>1 DEF Arrived, OwnName
    <3>1. c \notin Range(pending) \union running \union failed \union faults
      BY <1>1
    <3>2. c \in Blobs /\ c # req /\ Name[c] # Name[req] /\ Name[c] \in Names /\ Name[req] \in Names
      BY <1>1, <2>1, <2>3, SyncAssumption, SMTT(30) DEF InPlace, OwnName
    <3>3. disk'[Name[c]] = disk[Name[c]]
      BY <1>1, <2>1, <3>2, SMTT(30)
    <3> QED
      BY <2>1, <3>1, <3>3, SMTT(30) DEF Arrived
  <2>12. BeforeDownload'
    BY <1>1, <1>4 DEF BeforeDownload
  <2> QED
    BY <1>1, <1>2, <1>4, <2>8, <2>9, <2>10, <2>11, <2>12, SMTT(30) DEF IInv
<1> QED
  BY <1>3, <1>4

\* The end of the program, by itself or not.
LEMMA EndPreserves == IInv /\ (exit \/ kill) => IInv'
<1> SUFFICES ASSUME IInv, exit \/ kill PROVE IInv'
  OBVIOUS
<1>1. phase' = "ended" /\ running' = {}
  BY DEF exit, kill
<1>2. disk' \in [Names -> Contents]
  BY DEF exit, kill, IInv, Contents
<1> QED
  BY <1>1, <1>2 DEF IInv, BeforeDownload

\* Every step of the program and of the network preserves the invariant.
LEMMA NextPreserves == IInv /\ [Next]_vars => IInv'
<1> SUFFICES ASSUME IInv, [Next]_vars PROVE IInv'
  OBVIOUS
<1>1. CASE UNCHANGED vars
  BY <1>1 DEF vars, IInv, BeforeDownload, InPlace, Counted, SlotsUsed, Arrived, OwnName
<1>2. CASE \E b \in Blobs : on_load(b)
  BY <1>2, OnLoadPreserves
<1>3. CASE \E req \in Blobs \union {"login", "list"} : fail(req)
  BY <1>3, FailPreserves
<1> QED
  BY <1>1, <1>2, <1>3, LoginPreserves, GetCollectionPreserves, NoCollectionPreserves,
     DownloadPreserves, EndPreserves, SMTT(30)
     DEF Next, Network

\* The invariant holds in every state of every run of the program.
THEOREM Invariance == Spec => []IInv
BY InitEstablishes, NextPreserves, PTL DEF Spec

\* For every collection and limit, each wanted blob is accounted for once by the
\* scheduler and the callback of download_collection, which is called exactly when
\* all were counted.
THEOREM PartsAreCounted == Spec => []PartsCounted
<1>1. IInv => PartsCounted
  <2> SUFFICES ASSUME IInv, phase = "download" PROVE PartsCounted
    BY DEF PartsCounted
  <2>1. InPlace /\ Counted
    BY DEF IInv
  <2>2. IsFiniteSet(running) /\ IsFiniteSet(failed)
    <3>1. IsFiniteSet(wanted)
      BY <2>1, FS_Subset, SyncAssumption DEF InPlace
    <3> QED
      BY <2>1, <3>1, FS_Subset DEF InPlace
  <2>3. (running \union failed) \intersect Blobs = running \union failed
    BY <2>1 DEF InPlace
  <2>4. Cardinality(running \union failed) = Cardinality(running) + Cardinality(failed)
    <3>1. Cardinality(running \union failed) =
            Cardinality(running) + Cardinality(failed) - Cardinality(running \intersect failed)
      BY <2>2, FS_Union
    <3>2. Cardinality(running \intersect failed) = 0
      BY <2>1, FS_EmptySet DEF InPlace
    <3> QED
      BY <2>2, <3>1, <3>2, FS_CardinalityType, SMTT(30)
  <2>5. Cardinality(running) \in Nat /\ Cardinality(failed) \in Nat /\ Len(pending) \in Nat
    BY <2>1, <2>2, FS_CardinalityType DEF InPlace
  <2>6. /\ count \in Nat
        /\ count + Len(pending) + Cardinality(running) + Cardinality(failed) = Cardinality(wanted)
    BY <2>1 DEF Counted
  <2>7. count + Len(pending) + Cardinality((running \union failed) \intersect Blobs) = Cardinality(wanted)
    <3>1. Cardinality((running \union failed) \intersect Blobs) = Cardinality(running) + Cardinality(failed)
      BY <2>3, <2>4, Zenon
    <3> QED
      BY <2>5, <2>6, <3>1
  <2> QED
    BY <2>1, <2>7 DEF Counted, PartsCounted
<1> QED
  BY <1>1, Invariance, PTL

\* For every limit, requests are left over only when failed connections have taken
\* all the slots of RequestScheduler.
THEOREM LeftOverSlots == Spec => []LeftOver
<1>1. IInv => LeftOver
  <2> SUFFICES ASSUME IInv, phase = "download", running = {}, pending # <<>>
               PROVE  Cardinality(failed) = Limit
    BY DEF LeftOver
  <2>1. Cardinality(running) + Cardinality(failed) = Limit /\ InPlace
    BY DEF IInv, SlotsUsed
  <2>2. IsFiniteSet(wanted)
    BY <2>1, FS_Subset, SyncAssumption DEF InPlace
  <2>3. IsFiniteSet(failed)
    BY <2>1, <2>2, FS_Subset DEF InPlace
  <2>4. Cardinality(running) = 0 /\ Cardinality(failed) \in Nat
    BY <2>3, FS_EmptySet, FS_CardinalityType, SMTT(30)
  <2> QED
    BY <2>1, <2>4
<1> QED
  BY <1>1, Invariance, PTL

\* For every collection and whatever earlier runs of hrbsync have left in the
\* directory, a download that is reported and had no fault has put each missing blob
\* with a name of its own into its file.
THEOREM DownloadsSynced == Spec => []Synced
<1>1. IInv => Synced
  <2> SUFFICES ASSUME IInv, phase = "download", reported = 1, faults = {},
                      NEW b \in Blobs \ local, \A c \in Blobs \ {b} : Name[c] # Name[b]
               PROVE  disk[Name[b]] = b
    BY DEF Synced
  <2>1. InPlace /\ Counted /\ Arrived
    BY DEF IInv
  <2>2. IsFiniteSet(running) /\ IsFiniteSet(failed)
    <3>1. IsFiniteSet(wanted)
      BY <2>1, FS_Subset, SyncAssumption DEF InPlace
    <3> QED
      BY <2>1, <3>1, FS_Subset DEF InPlace
  <2>3. Cardinality(running) \in Nat /\ Cardinality(failed) \in Nat /\ Len(pending) \in Nat
    BY <2>1, <2>2, FS_CardinalityType, SMTT(30) DEF InPlace
  <2>4. Cardinality(running) = 0 /\ Cardinality(failed) = 0 /\ Len(pending) = 0
    BY <2>1, <2>3 DEF Counted
  <2>5. running = {} /\ failed = {}
    BY <2>2, <2>4, FS_EmptySet, SMTT(30)
  <2>6. Range(pending) = {}
    BY <2>1, <2>4 DEF InPlace, Range
  <2>7. b \in wanted /\ OwnName(b)
    BY <2>1 DEF InPlace, OwnName
  <2> QED
    BY <2>1, <2>5, <2>6, <2>7 DEF Arrived
<1> QED
  BY <1>1, Invariance, PTL
=============================================================================
