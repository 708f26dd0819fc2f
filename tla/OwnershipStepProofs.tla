------------------------ MODULE OwnershipStepProofs --------------------------
(***************************************************************************)
(* What no request does to the ownership database: publish an upload, lose *)
(* a blob, take the cover from a collection that still has it, leave an    *)
(* inode that no unlink will find, or take a blob from the front page that *)
(* is still public.                                                        *)
(***************************************************************************)
EXTENDS OwnershipProofs

\* The upload of a blob one does not own yet makes a private blob.
THEOREM UploadsArePrivate == Spec => UploadsPrivate
<1> DEFINE Private == \A u \in Users, b \in Blobs :
                        u \in owners'[b] /\ u \notin owners[b] => inode'[u][b].perm = "private"
<1>1. IInv /\ [Next]_vars => [Private]_vars
  <2> SUFFICES ASSUME IInv, Next, NEW u \in Users, NEW b \in Blobs,
                      u \in owners'[b], u \notin owners[b]
               PROVE  inode'[u][b].perm = "private"
    OBVIOUS
  <2>1. inode[u][b] = Null
    BY DEF IInv, OwnersHaveInodes, HasInode
  <2>2. owners \in [Blobs -> SUBSET Users]
    BY DEF IInv, TypeOK
  <2>3. PICK v \in Users, x \in Blobs : Request(v, x)
    BY DEF Next
  <2>4. ASSUME NEW c \in Colls PROVE ~ unlink_blob(v, c, x)
    BY <2>2 DEF unlink_blob, UnlinkInode, UnlinkCover
  <2>5. owners' # owners
    BY <2>2
  <2>6. PICK c \in Colls, n \in Names : link_blob(v, c, x, n)
    BY <2>3, <2>4, <2>5 DEF Request, on_upload, unlink, post_blob, post_view,
       move_blob, move_blob_error, set_cover, set_permission
  <2>7. inode' = [inode EXCEPT ![v][x] = IF @ = Null THEN [perm |-> "private", name |-> n] ELSE @]
        /\ v = u /\ x = b
    BY <2>2, <2>6 DEF link_blob, NewInode, NewCover
  <2>8. inode \in [Users -> [Blobs -> [perm : Perms, name : Names] \union {Null}]]
    BY DEF IInv, TypeOK
  <2>9. inode'[u][b] = [perm |-> "private", name |-> n]
    BY <2>1, <2>7, <2>8
  <2> QED
    BY <2>9
<1> QED
  BY <1>1, Invariance, PTL DEF Spec, UploadsPrivate

\* What each request does to the entries of collections.
LEMMA EntriesAfter ==
  ASSUME IInv, NEW v \in Users, NEW x \in Blobs, Request(v, x)
  PROVE  \/ \E d \in Colls : InColl(v, d, x)'
              /\ \A u \in Users, c \in Colls, b \in Blobs :
                   InColl(u, c, b)' <=> InColl(u, c, b) \/ (u = v /\ c = d /\ b = x)
         \/ \E d, e \in Colls : /\ move_blob(v, d, e, x)
                               /\ \A u \in Users, c \in Colls, b \in Blobs :
                   InColl(u, c, b)' <=> IF u = v /\ b = x /\ c \in {d, e} THEN c # d ELSE InColl(u, c, b)
         \/ \E d \in Colls : /\ unlink_blob(v, d, x)
                            /\ \A u \in Users, c \in Colls, b \in Blobs :
                   InColl(u, c, b)' <=> InColl(u, c, b) /\ ~ (u = v /\ c = d /\ b = x)
         \/ coll' = coll
<1>0. coll \in [Users -> [Colls -> [Blobs -> Names \union {Null}]]]
  BY DEF IInv, TypeOK
<1>1. ASSUME NEW d \in Colls, NEW n \in Names, link_blob(v, d, x, n)
      PROVE  \A u \in Users, c \in Colls, b \in Blobs :
                   InColl(u, c, b)' <=> InColl(u, c, b) \/ (u = v /\ c = d /\ b = x)
  <2>1. coll' = [coll EXCEPT ![v][d][x] = n] /\ n # Null
    BY <1>1, NullAssumption DEF link_blob
  <2> QED
    BY <1>0, <2>1 DEF InColl
<1>2. ASSUME NEW d \in Colls, NEW e \in Colls, move_blob(v, d, e, x)
      PROVE  \A u \in Users, c \in Colls, b \in Blobs :
               InColl(u, c, b)' <=> IF u = v /\ b = x /\ c \in {d, e} THEN c # d ELSE InColl(u, c, b)
  <2>1. coll' = [coll EXCEPT ![v][e][x] = coll[v][d][x], ![v][d][x] = Null] /\ coll[v][d][x] # Null
    BY <1>2 DEF move_blob, MoveEntry, InColl
  <2> QED
    BY <1>0, <2>1 DEF InColl
<1>3. ASSUME NEW d \in Colls, unlink_blob(v, d, x)
      PROVE  \A u \in Users, c \in Colls, b \in Blobs :
               InColl(u, c, b)' <=> InColl(u, c, b) /\ ~ (u = v /\ c = d /\ b = x)
  <2>1. coll' = [coll EXCEPT ![v][d] = [coll[v][d] EXCEPT ![x] = Null]]
    BY <1>3 DEF unlink_blob
  <2> QED
    BY <1>0, <2>1 DEF InColl
<1>4. \/ \E d \in Colls, n \in Names : link_blob(v, d, x, n)
      \/ \E d, e \in Colls : move_blob(v, d, e, x)
      \/ \E d \in Colls : unlink_blob(v, d, x)
      \/ coll' = coll
  BY DEF Request, on_upload, unlink, post_blob, post_view, move_blob_error, set_cover, set_permission
<1> QED
  BY <1>1, <1>2, <1>3, <1>4

\* A blob is lost from the last of the user's collections only by an unlink or
\* by a move of the blob to where it is.
THEOREM BlobsAreConserved == Spec => BlobsConserved
<1> DEFINE Conserved ==
      \A u \in Users, b \in Blobs :
        InSomeColl(u, b) /\ ~ InSomeColl(u, b)'
          => \E c \in Colls : unlink_blob(u, c, b) \/ move_blob(u, c, c, b)
<1>1. IInv /\ [Next]_vars => [Conserved]_vars
  <2> SUFFICES ASSUME IInv, Next, NEW u \in Users, NEW b \in Blobs,
                      InSomeColl(u, b), ~ InSomeColl(u, b)'
               PROVE  \E c \in Colls : unlink_blob(u, c, b) \/ move_blob(u, c, c, b)
    OBVIOUS
  <2>1. PICK v \in Users, x \in Blobs : Request(v, x)
    BY DEF Next
  <2>2. PICK o \in Colls : InColl(u, o, b) /\ \A c \in Colls : ~ InColl(u, c, b)'
    BY DEF InSomeColl
  <2>3. ASSUME NEW d \in Colls, NEW e \in Colls, move_blob(v, d, e, x),
               \A w \in Users, c \in Colls, y \in Blobs :
                 InColl(w, c, y)' <=> IF w = v /\ y = x /\ c \in {d, e} THEN c # d ELSE InColl(w, c, y)
        PROVE  move_blob(u, d, d, b)
    <3>1. u = v /\ b = x
      BY <2>2, <2>3
    <3>2. d = e
      BY <2>2, <2>3, <3>1
    <3> QED
      BY <2>3, <3>1, <3>2
  <2>4. ASSUME NEW d \in Colls, unlink_blob(v, d, x),
               \A w \in Users, c \in Colls, y \in Blobs :
                 InColl(w, c, y)' <=> InColl(w, c, y) /\ ~ (w = v /\ c = d /\ y = x)
        PROVE  unlink_blob(u, d, b)
    BY <2>2, <2>4
  <2>5. coll' # coll
    BY <2>2 DEF InColl
  <2> QED
    BY <2>1, <2>2, <2>3, <2>4, <2>5, EntriesAfter
<1> QED
  BY <1>1, Invariance, PTL DEF Spec, BlobsConserved

\* A collection loses its cover only when the cover itself is moved elsewhere.
THEOREM CoversAreKept == Spec => CoverKept
<1> DEFINE Kept ==
      \A u \in Users, c \in Colls :
        CoverInColl(u, c) /\ ~ CoverInColl(u, c)'
          => \E dest \in Colls : move_blob(u, c, dest, cover[u][c])
<1>1. IInv /\ [Next]_vars => [Kept]_vars
  <2> SUFFICES ASSUME IInv, Next, NEW u \in Users, NEW c \in Colls,
                      CoverInColl(u, c), ~ CoverInColl(u, c)'
               PROVE  \E dest \in Colls : move_blob(u, c, dest, cover[u][c])
    OBVIOUS
  <2>0. /\ coll \in [Users -> [Colls -> [Blobs -> Names \union {Null}]]]
        /\ cover \in [Users -> [Colls -> Blobs \union {Null}]]
        /\ Null \notin Blobs /\ Null \notin Names
    BY NullAssumption DEF IInv, TypeOK
  <2>1. PICK v \in Users, x \in Blobs : Request(v, x)
    BY DEF Next
  <2>2. cover'[u][c] # Null /\ coll'[u][c][cover'[u][c]] = Null
    BY DEF CoverInColl, Listed, InColl
  <2>3. cover[u][c] # Null => coll[u][c][cover[u][c]] # Null
    BY DEF CoverInColl, Listed, InColl
  <2>4. ASSUME NEW d \in Colls, NEW n \in Names, link_blob(v, d, x, n) PROVE FALSE
    <3>1. CASE v = u /\ d = c
      <4>1. coll'[u][c][x] = n /\ \A y \in Blobs \ {x} : coll'[u][c][y] = coll[u][c][y]
        BY <2>0, <2>4, <3>1 DEF link_blob, NewInode, NewCover
      <4>2. cover'[u][c] = IF cover[u][c] = Null THEN x ELSE cover[u][c]
        BY <2>0, <2>4, <3>1 DEF link_blob, NewInode, NewCover
      <4>3. n # Null
        BY <2>0
      <4>4. CASE cover'[u][c] = x
        BY <4>1, <4>3, <4>4, <2>2
      <4>5. CASE cover'[u][c] # x
        <5>1. cover'[u][c] = cover[u][c] /\ cover[u][c] \in Blobs \ {x}
          BY <4>2, <4>5, <2>0, <2>2
        <5> QED
          BY <4>1, <5>1, <2>2, <2>3
      <4> QED
        BY <4>4, <4>5
    <3>2. CASE ~ (v = u /\ d = c)
      <4>1. coll'[u][c] = coll[u][c] /\ cover'[u][c] = cover[u][c]
        BY <2>0, <2>4, <3>2 DEF link_blob, NewInode, NewCover
      <4> QED
        BY <4>1, <2>2, <2>3
    <3> QED
      BY <3>1, <3>2
  <2>5. ASSUME NEW d \in Colls, NEW e \in Colls, move_blob(v, d, e, x)
        PROVE  \E dest \in Colls : move_blob(u, c, dest, cover[u][c])
    <3>0. ~ Empty(coll[v][d]) /\ cover[v][d] # Null
      BY <2>5, <2>0 DEF move_blob, MoveEntry, ListDest, InColl, Empty, IInv, CollectionsListed, Listed
    <3>1. cover'[u][c] = IF u = v /\ c = e /\ cover[u][c] = Null THEN x ELSE cover[u][c]
      BY <2>0, <2>5 DEF move_blob, ListDest
    <3>2. \A y \in Blobs :
            coll'[u][c][y] = IF u = v /\ y = x /\ c \in {d, e}
                             THEN IF c = d THEN Null ELSE coll[v][d][x]
                             ELSE coll[u][c][y]
      <4>1. coll' = [coll EXCEPT ![v][e][x] = coll[v][d][x], ![v][d][x] = Null]
        BY <2>5 DEF move_blob, MoveEntry
      <4> QED
        BY <2>0, <4>1
    <3>3. coll[v][d][x] # Null
      BY <2>5 DEF move_blob, MoveEntry, ListDest, InColl
    <3>4. u = v /\ c = d /\ cover[u][c] = x
      BY <2>0, <2>2, <2>3, <3>0, <3>1, <3>2, <3>3
    <3> QED
      BY <2>5, <3>4
  <2>6. ASSUME NEW d \in Colls, unlink_blob(v, d, x) PROVE FALSE
    <3> DEFINE left == [coll[v][d] EXCEPT ![x] = Null]
    <3>1. coll' = [coll EXCEPT ![v][d] = left]
      BY <2>6 DEF unlink_blob, UnlinkInode, UnlinkCover
    <3>2. CASE v = u /\ d = c
      <4>1. coll'[u][c] = left /\ \A y \in Blobs \ {x} : left[y] = coll[u][c][y]
        BY <2>0, <3>1, <3>2
      <4>2. CASE Empty(left) /\ cover' = [cover EXCEPT ![v][d] = Null]
        BY <4>2, <3>2, <2>0, <2>2
      <4>3. CASE cover[v][d] # x /\ UNCHANGED cover
        <5> HIDE DEF left
        <5>1. cover[u][c] \in Blobs \ {x} /\ cover'[u][c] = cover[u][c]
          BY <4>3, <3>2, <2>0, <2>2
        <5> QED
          BY <4>1, <5>1, <2>2, <2>3
      <4>4. CASE \E first \in {y \in Blobs : left[y] # Null} : cover' = [cover EXCEPT ![v][d] = first]
        <5> HIDE DEF left
        <5>1. PICK first \in Blobs : left[first] # Null /\ cover' = [cover EXCEPT ![v][d] = first]
          BY <4>4, Zenon
        <5>2. cover'[u][c] = first
          BY <5>1, <3>2, <2>0
        <5> QED
          BY <4>1, <5>1, <5>2, <2>2
      <4> QED
        BY <2>6, <4>2, <4>3, <4>4 DEF unlink_blob, UnlinkInode, UnlinkCover
    <3>3. CASE ~ (v = u /\ d = c)
      <4>1. coll'[u][c] = coll[u][c]
        BY <2>0, <3>1, <3>3
      <4>2. cover' = cover \/ \E new : cover' = [cover EXCEPT ![v][d] = new]
        BY <2>6 DEF unlink_blob, UnlinkInode, UnlinkCover
      <4>3. cover'[u][c] = cover[u][c]
        <5>1. CASE cover' = cover
          BY <5>1
        <5>2. ASSUME NEW new, cover' = [cover EXCEPT ![v][d] = new] PROVE cover'[u][c] = cover[u][c]
          BY <2>0, <3>3, <5>2
        <5> QED
          BY <4>2, <5>1, <5>2
      <4> QED
        BY <4>1, <4>3, <2>2, <2>3
    <3> QED
      BY <3>2, <3>3
  <2>7. ASSUME NEW d \in Colls, set_cover(v, d, x) PROVE FALSE
    <3>1. coll' = coll /\ coll[v][d][x] # Null /\ cover' = [cover EXCEPT ![v][d] = x]
      BY <2>7 DEF set_cover, InColl
    <3>2. cover'[u][c] = IF v = u /\ d = c THEN x ELSE cover[u][c]
      BY <2>0, <3>1
    <3> QED
      BY <2>2, <2>3, <3>1, <3>2
  <2>8. ~ UNCHANGED <<coll, cover>>
    BY <2>2, <2>3
  <2> QED
    BY <2>1, <2>4, <2>5, <2>6, <2>7, <2>8
       DEF Request, on_upload, unlink, post_blob, post_view, move_blob_error, set_permission
<1> QED
  BY <1>1, Invariance, PTL DEF Spec, CoverKept

\* An inode loses the last reference to it only by a move of the blob from a
\* collection to itself.
THEOREM InodesAreReclaimable == Spec => InodesReclaimable
<1> DEFINE Reclaimable ==
      \A u \in Users, b \in Blobs :
        HasInode(u, b) /\ refs[u][b] # {} /\ HasInode(u, b)' /\ refs'[u][b] = {}
          => \E c \in Colls : move_blob(u, c, c, b) \/ move_blob_error(u, c, c, b)
<1>1. IInv /\ [Next]_vars => [Reclaimable]_vars
  <2> SUFFICES ASSUME IInv, Next, NEW u \in Users, NEW b \in Blobs,
                      refs[u][b] # {}, HasInode(u, b)', refs'[u][b] = {}
               PROVE  \E c \in Colls : move_blob(u, c, c, b) \/ move_blob_error(u, c, c, b)
    OBVIOUS
  <2>1. refs \in [Users -> [Blobs -> SUBSET Colls]]
    BY DEF IInv, TypeOK
  <2>2. inode \in [Users -> [Blobs -> [perm : Perms, name : Names] \union {Null}]]
    BY DEF IInv, TypeOK
  <2>3. PICK v \in Users, x \in Blobs : Request(v, x)
    BY DEF Next
  <2>4. ASSUME NEW c \in Colls, NEW n \in Names, link_blob(v, c, x, n) PROVE FALSE
    <3>1. refs' = [refs EXCEPT ![v][x] = @ \union {c}]
      BY <2>4 DEF link_blob
    <3> QED BY <2>1, <3>1
  <2>5. ASSUME NEW c \in Colls, unlink_blob(v, c, x) PROVE FALSE
    <3>1. refs' = [refs EXCEPT ![v][x] = @ \ {c}]
      BY <2>5 DEF unlink_blob
    <3>2. u = v /\ b = x /\ refs[v][x] \ {c} = {}
      BY <2>1, <3>1
    <3>3. inode' = [inode EXCEPT ![v][x] = Null]
      BY <2>5, <3>2 DEF unlink_blob, UnlinkInode
    <3> QED BY <2>2, <3>2, <3>3 DEF HasInode
  <2>6. ASSUME NEW c \in Colls, NEW d \in Colls, MoveRef(v, c, d, x) PROVE c = d /\ u = v /\ b = x
    BY <2>1, <2>6 DEF MoveRef
  <2>7. refs' # refs
    OBVIOUS
  <2>8. \/ \E c \in Colls, n \in Names : link_blob(v, c, x, n)
        \/ \E c \in Colls : unlink_blob(v, c, x)
        \/ \E c, d \in Colls : move_blob(v, c, d, x) \/ move_blob_error(v, c, d, x)
    BY <2>3, <2>7 DEF Request, on_upload, unlink, post_blob, post_view, set_cover, set_permission
  <2>9. PICK c \in Colls, d \in Colls : move_blob(v, c, d, x) \/ move_blob_error(v, c, d, x)
    BY <2>4, <2>5, <2>8
  <2>10. MoveRef(v, c, d, x)
    BY <2>9 DEF move_blob, move_blob_error
  <2> QED BY <2>6, <2>9, <2>10, Zenon
<1> QED
  BY <1>1, Invariance, PTL DEF Spec, InodesReclaimable

\* LREM keeps every other element, and shortens the list only if it has the item
\* (the LREM calls of unlink_command and set_permission_command).
LEMMA LREMKeeps ==
  ASSUME NEW S, NEW list \in Seq(S), NEW item
  PROVE  /\ \A i \in 1..Len(list) : list[i] # item =>
              \E j \in 1..Len(LREM(list, item)) : LREM(list, item)[j] = list[i]
         /\ \/ LREM(list, item) = list /\ \A i \in 1..Len(list) : list[i] # item
            \/ Len(LREM(list, item)) < Len(list)
<1> DEFINE r == LREM(list, item)
           n == Len(list)
<1>0. n \in Nat
  OBVIOUS
<1>1. CASE ~ \E i \in 1..n : list[i] = item
  <2>1. r = list
    BY <1>1 DEF LREM
  <2> QED BY <1>1, <2>1
<1>2. CASE \E i \in 1..n : list[i] = item
  <2> DEFINE k == CHOOSE i \in 1..n : list[i] = item
             a == SubSeq(list, 1, k - 1)
             z == SubSeq(list, k + 1, n)
  <2>1. k \in 1..n /\ list[k] = item
    BY <1>2
  <2>2. r = a \o z
    BY <1>2, Zenon DEF LREM
  <2> HIDE DEF k
  <2>3. a \in Seq(S) /\ Len(a) = k-1 /\ \A i \in 1..(k-1) : a[i] = list[i]
    BY <1>0, <2>1
  <2>4. z \in Seq(S) /\ Len(z) = n-k /\ \A i \in 1..(n-k) : z[i] = list[k+i]
    BY <1>0, <2>1
  <2> HIDE DEF a, z
  <2>5. Len(r) = n-1
    BY <1>0, <2>1, <2>2, <2>3, <2>4
  <2>6. ASSUME NEW i \in 1..n, list[i] # item
        PROVE  \E j \in 1..Len(r) : r[j] = list[i]
    <3>1. CASE i < k
      <4>1. i \in 1..Len(r) /\ r[i] = list[i]
        BY <1>0, <2>1, <2>2, <2>3, <2>4, <2>5, <3>1
      <4> QED BY <4>1
    <3>2. CASE i > k
      <4>1. i-1 \in 1..Len(r) /\ i-k \in 1..(n-k) /\ (i-1) - (k-1) = i-k /\ k + (i-k) = i
        BY <1>0, <2>1, <2>5, <3>2
      <4>2. ASSUME NEW h \in 1..(n-1), ~ (h < k) PROVE r[h] = z[h - (k-1)]
        BY <1>0, <2>1, <2>2, <2>3, <2>4, <4>2
      <4>3. i-1 \in 1..(n-1) /\ ~ (i-1 < k)
        BY <1>0, <2>1, <3>2
      <4>4. r[i-1] = z[i-k]
        BY <4>1, <4>2, <4>3
      <4>5. z[i-k] = list[i]
        BY <2>4, <4>1
      <4> QED BY <4>1, <4>4, <4>5
    <3> QED BY <2>1, <2>6, <3>1, <3>2
  <2>7. Len(r) < n
    BY <1>0, <2>5
  <2> HIDE DEF r
  <2> QED BY <2>6, <2>7 DEF r
<1> QED BY <1>1, <1>2

\* q ends with item and has the elements of list, but for the first of a full one.
Kept(q, list, item) ==
  /\ Len(q) \in Nat \ {0} /\ q[Len(q)] = item
  /\ \A i \in 1..Len(list) : (i # 1 \/ Len(list) < PublicLimit) => \E j \in 1..Len(q) : q[j] = list[i]

\* A push drops nothing, unless the list is full: then it drops the first (the
\* RPUSH and LPOP of set_permission_command).
LEMMA PushKeeps ==
  ASSUME NEW S, NEW list \in Seq(S), Len(list) <= PublicLimit, NEW item \in S
  PROVE  Kept(PushPublic(list, item), list, item)
<1> DEFINE q == PushPublic(list, item)
           p == Append(list, item)
           n == Len(list)
<1>1. n \in Nat /\ PublicLimit \in Nat \ {0}
  BY LimitAssumption
<1>2. p \in Seq(S) /\ Len(p) = n+1 /\ p[n+1] = item /\ \A i \in 1..n : p[i] = list[i]
  BY <1>1
<1>3. CASE n = PublicLimit
  <2>1. q = Tail(p)
    BY <1>1, <1>2, <1>3 DEF PushPublic
  <2> HIDE DEF p
  <2>2. Len(q) = n /\ \A j \in 1..n : q[j] = p[j+1]
    BY <1>1, <1>2, <2>1
  <2> HIDE DEF q
  <2>3. Len(q) \in Nat \ {0} /\ q[Len(q)] = item
    BY <1>1, <1>2, <1>3, <2>2
  <2>4. ASSUME NEW i \in 1..n, i # 1
        PROVE  i-1 \in 1..Len(q) /\ q[i-1] = list[i]
    BY <1>1, <1>2, <2>2, <2>4
  <2>5. ~ (n < PublicLimit)
    BY <1>1, <1>3
  <2> QED BY <2>3, <2>4, <2>5 DEF q, Kept
<1>4. CASE n < PublicLimit
  <2>1. q = p
    BY <1>1, <1>2, <1>4 DEF PushPublic
  <2> HIDE DEF p, q
  <2>2. Len(q) = n+1 /\ q[n+1] = item /\ \A i \in 1..n : i \in 1..(n+1) /\ q[i] = list[i]
    BY <1>1, <1>2, <2>1
  <2> QED BY <1>1, <2>2 DEF q, Kept
<1> QED BY <1>1, <1>3, <1>4

\* A blob leaves the front page only with its inode or its permission, or as the
\* oldest of a full list when another is pushed, for any limit of the list.
THEOREM FrontPageIsStable == Spec => FrontPageStable
<1> DEFINE Stable ==
      \A i \in list_public_blobs \ list_public_blobs' :
        \/ inode'[i[1]][i[2]] = Null
        \/ inode'[i[1]][i[2]].perm # "public"
        \/ /\ Len(public) = PublicLimit
           /\ i = Head(public)
           /\ public'[Len(public')] \notin Range(public)
<1>1. IInv /\ [Next]_vars => [Stable]_vars
  <2> SUFFICES ASSUME IInv, Next, NEW i \in list_public_blobs, i \notin list_public_blobs',
                      inode'[i[1]][i[2]] # Null, inode'[i[1]][i[2]].perm = "public"
               PROVE  /\ Len(public) = PublicLimit
                      /\ i = Head(public)
                      /\ public'[Len(public')] \notin Range(public)
    OBVIOUS
  <2>0. /\ public \in Seq(Users \X Blobs) /\ Len(public) \in Nat /\ Len(public) <= PublicLimit
        /\ PublicLimit \in Nat \ {0}
        /\ Range(public) = {public[k] : k \in 1..Len(public)}
    BY LimitAssumption, SMTT(30) DEF IInv, TypeOK, PublicListSound, Range
  <2>1. PICK k \in 1..Len(public) : i = public[k]
    BY <2>0 DEF list_public_blobs
  <2>2. i \notin Range(public')
    BY DEF list_public_blobs, HasInode
  <2>3. PICK u \in Users, b \in Blobs : Request(u, b)
    BY DEF Next
  <2> DEFINE item == <<u, b>>
             r == LREM(public, item)
  <2>4. /\ \A j \in 1..Len(public) : public[j] # item => \E h \in 1..Len(r) : r[h] = public[j]
        /\ \/ r = public /\ \A j \in 1..Len(public) : public[j] # item
           \/ Len(r) < Len(public)
    BY <2>0, LREMKeeps, Zenon
  <2>5. r \in Seq(Users \X Blobs) /\ Len(r) \in Nat /\ item \in Users \X Blobs
    <3>1. NoDuplicates(public)
      BY DEF IInv, PublicListSound, NoDuplicates
    <3>2. r \in Seq(Users \X Blobs)
      BY <2>0, <3>1, LREMProperties, Zenon
    <3> QED BY <3>2
  <2> HIDE DEF r, item
  <2>6. i # item => \E h \in 1..Len(r) : r[h] = i
    BY <2>1, <2>4
  <2>7. ASSUME public' = r, i # item PROVE FALSE
    BY <2>2, <2>5, <2>6, <2>7 DEF Range
  <2>8. public' # public
    BY <2>0, <2>1, <2>2
  <2>9. ASSUME NEW c \in Colls, unlink_blob(u, c, b) PROVE FALSE
    <3>1. public' = r /\ inode' = [inode EXCEPT ![u][b] = Null]
      BY <2>8, <2>9 DEF unlink_blob, UnlinkInode, r, item
    <3>2. inode'[u][b] = Null
      BY <3>1 DEF IInv, TypeOK
    <3>3. i # item
      BY <3>2 DEF item
    <3> QED BY <2>7, <3>1, <3>3
  <2>10. ASSUME NEW perm \in Perms, set_permission(u, b, perm)
         PROVE  /\ Len(public) = PublicLimit
                /\ i = Head(public)
                /\ public'[Len(public')] \notin Range(public)
    <3>1. inode'[u][b].perm = perm
      BY <2>10 DEF set_permission, HasInode, IInv, TypeOK
    <3>2. CASE perm # "public"
      <4>1. public' = r
        BY <2>10, <3>2 DEF set_permission, r, item
      <4>2. i # item
        BY <3>1, <3>2 DEF item
      <4> QED BY <2>7, <4>1, <4>2
    <3>3. CASE perm = "public"
      <4>1. public' = PushPublic(r, item)
        BY <2>10, <3>3 DEF set_permission, r, item
      <4>2. Len(r) <= PublicLimit
        BY <2>0, <2>4, <2>5
      <4>3. /\ Len(public') \in Nat \ {0} /\ public'[Len(public')] = item
            /\ \A j \in 1..Len(r) : (j # 1 \/ Len(r) < PublicLimit) =>
                 \E h \in 1..Len(public') : public'[h] = r[j]
        <5>1. Kept(public', r, item)
          BY <2>5, <4>1, <4>2, PushKeeps, Zenon
        <5> QED BY <5>1, Zenon DEF Kept
      <4>4. \A h \in 1..Len(public') : public'[h] # i
        <5>1. public' \in Seq(Users \X Blobs)
          BY NextPreserves DEF IInv, TypeOK
        <5> QED BY <2>2, <5>1 DEF Range
      <4>5. i # item
        BY <4>3, <4>4
      <4>6. Len(r) = PublicLimit /\ i = r[1]
        BY <2>5, <2>0, <2>6, <4>2, <4>3, <4>4, <4>5
      <4>7. r = public /\ \A j \in 1..Len(public) : public[j] # item
        BY <2>0, <2>4, <2>5, <4>6
      <4> QED BY <2>0, <4>3, <4>6, <4>7
    <3> QED BY <3>2, <3>3
  <2> QED
    BY <2>3, <2>8, <2>9, <2>10
       DEF Request, on_upload, unlink, post_blob, post_view, link_blob, move_blob, move_blob_error, set_cover
<1> QED
  BY <1>1, Invariance, PTL DEF Spec, FrontPageStable
=============================================================================
