-------------------------- MODULE OwnershipProofs ----------------------------
(***************************************************************************)
(* The ownership database keeps its redundant records consistent, for any  *)
(* number of users, collections, blobs and names and any limit of the list *)
(* of public blobs.                                                        *)
(*                                                                         *)
(* EntriesBacked is not inductive alone: it survives an unlink only        *)
(* because of EntriesCounted (the last reference goes only when no other   *)
(* collection has an entry) and OwnersHaveInodes.                          *)
(* PublicListSound survives an unlink only because no item is listed twice.*)
(***************************************************************************)
EXTENDS Ownership, TLAPS

\* The inductive invariant.
IInv ==
  /\ TypeOK
  /\ EntriesCounted
  /\ EntriesBacked
  /\ OwnersHaveInodes
  /\ CollectionsListed
  /\ PublicListSound

NoDuplicates(list) == \A i, j \in 1..Len(list) : list[i] = list[j] => i = j

\* r has only elements of list, and not item.
Removed(r, list, item) ==
  /\ Len(r) <= Len(list)
  /\ NoDuplicates(r)
  /\ \A i \in 1..Len(r) : r[i] # item /\ \E j \in 1..Len(list) : r[i] = list[j]

\* r has only elements of list, and item.
Pushed(r, list, item) ==
  /\ Len(r) <= PublicLimit
  /\ NoDuplicates(r)
  /\ \A i \in 1..Len(r) : r[i] = item \/ \E j \in 1..Len(list) : r[i] = list[j]

-----------------------------------------------------------------------------
(* Lists *)

\* LREM returns a list of the same elements without the removed one, in the same
\* order; the list stays free of duplicates (the LREM calls of unlink_command
\* and set_permission_command).
LEMMA LREMProperties ==
  ASSUME NEW S, NEW list \in Seq(S), NoDuplicates(list), NEW item
  PROVE  LREM(list, item) \in Seq(S) /\ Removed(LREM(list, item), list, item)
<1> DEFINE r == LREM(list, item)
           n == Len(list)
<1>0. n \in Nat
  OBVIOUS
<1>1. CASE ~ \E i \in 1..n : list[i] = item
  <2>1. r = list
    BY <1>1 DEF LREM
  <2> QED
    BY <1>1, <2>1 DEF Removed
<1>2. CASE \E i \in 1..n : list[i] = item
  <2> DEFINE k == CHOOSE i \in 1..n : list[i] = item
  <2>1. k \in 1..n /\ list[k] = item
    BY <1>2
  <2> HIDE DEF k
  <2>2. r = SubSeq(list, 1, k-1) \o SubSeq(list, k+1, n)
    BY <1>2, Zenon DEF LREM, k
  <2> DEFINE a == SubSeq(list, 1, k-1)
             z == SubSeq(list, k+1, n)
  <2>3. a \in Seq(S) /\ Len(a) = k-1 /\ \A i \in 1..(k-1) : a[i] = list[i]
    BY <1>0, <2>1
  <2>4. z \in Seq(S) /\ Len(z) = n-k /\ \A i \in 1..(n-k) : z[i] = list[k+i]
    BY <1>0, <2>1
  <2> HIDE DEF a, z
  <2>5. r \in Seq(S) /\ Len(r) = n-1
    <3>1. r = a \o z
      BY <2>2 DEF a, z
    <3> QED
      BY <3>1, <2>1, <2>3, <2>4, <1>0
  <2>6. \A i \in 1..(n-1) : r[i] = IF i < k THEN list[i] ELSE list[i+1]
    <3>1. r = a \o z
      BY <2>2 DEF a, z
    <3>2. ASSUME NEW i \in 1..(n-1), i < k PROVE r[i] = list[i]
      BY <3>1, <3>2, <2>1, <2>3, <2>4, <1>0
    <3>3. ASSUME NEW i \in 1..(n-1), ~ (i < k) PROVE r[i] = list[i+1]
      <4>1. r[i] = z[i - (k-1)]
        BY <3>1, <3>3, <2>1, <2>3, <2>4, <1>0
      <4>2. i - (k-1) \in 1..(n-k) /\ k + (i - (k-1)) = i+1
        BY <3>3, <2>1, <1>0
      <4> QED
        BY <4>1, <4>2, <2>4
    <3> QED
      BY <3>2, <3>3
  <2> HIDE DEF r
  <2>7. \A i \in 1..(n-1) : \E j \in 1..n : j # k /\ r[i] = list[j] /\ j = IF i < k THEN i ELSE i+1
    BY <2>6, <2>1, <1>0
  <2>8. NoDuplicates(r)
    <3> SUFFICES ASSUME NEW i \in 1..(n-1), NEW j \in 1..(n-1), r[i] = r[j]
                 PROVE  i = j
      BY <2>5 DEF NoDuplicates
    <3> QED
      BY <2>7, <2>1, <1>0 DEF NoDuplicates
  <2>9. \A i \in 1..(n-1) : r[i] # item
    BY <2>7, <2>1 DEF NoDuplicates
  <2> QED
    BY <2>5, <2>7, <2>8, <2>9, <1>0 DEF r, Removed
<1> QED
  BY <1>1, <1>2

\* Pushing an item that is not on the list keeps the list free of duplicates
\* and within the limit (the RPUSH and LPOP of set_permission_command).
LEMMA PushProperties ==
  ASSUME NEW S, NEW list \in Seq(S), NoDuplicates(list), Len(list) <= PublicLimit,
         NEW item \in S, \A i \in 1..Len(list) : list[i] # item
  PROVE  PushPublic(list, item) \in Seq(S) /\ Pushed(PushPublic(list, item), list, item)
<1> DEFINE p == Append(list, item)
           n == Len(list)
<1>1. n \in Nat /\ PublicLimit \in Nat \ {0}
  BY LimitAssumption
<1>2. p \in Seq(S) /\ Len(p) = n+1 /\ p[n+1] = item /\ \A i \in 1..n : p[i] = list[i]
  BY <1>1
<1> HIDE DEF p
<1>3. NoDuplicates(p)
  BY <1>1, <1>2 DEF NoDuplicates
<1>4. \A i \in 1..(n+1) : p[i] = item \/ \E j \in 1..n : p[i] = list[j]
  BY <1>1, <1>2
<1>5. CASE Len(p) > PublicLimit
  <2>1. PushPublic(list, item) = Tail(p)
    BY <1>5 DEF PushPublic, p
  <2>2. Tail(p) \in Seq(S) /\ Len(Tail(p)) = n /\ \A i \in 1..n : Tail(p)[i] = p[i+1]
    BY <1>1, <1>2
  <2>3. NoDuplicates(Tail(p))
    BY <2>2, <1>1, <1>2, <1>3 DEF NoDuplicates
  <2>4. n <= PublicLimit
    OBVIOUS
  <2>5. Pushed(Tail(p), list, item)
    BY <2>2, <2>3, <2>4, <1>1, <1>4 DEF Pushed
  <2> QED
    BY <2>1, <2>2, <2>5
<1>6. CASE ~ (Len(p) > PublicLimit)
  <2>1. PushPublic(list, item) = p
    BY <1>6 DEF PushPublic, p
  <2> QED
    BY <2>1, <1>1, <1>2, <1>3, <1>4, <1>6 DEF Pushed
<1> QED
  BY <1>5, <1>6

-----------------------------------------------------------------------------
(* Updates of nested functions, the shape of every redis hash *)

\* A two-level hash, like the inodes of the users, keeps its type when one field
\* is set to a value of it.
LEMMA UpdateType2 ==
  ASSUME NEW A, NEW B, NEW C, NEW f \in [A -> [B -> C]], NEW a \in A, NEW b \in B, NEW v \in C
  PROVE  [f EXCEPT ![a][b] = v] \in [A -> [B -> C]]
OBVIOUS

\* The same for three levels, like the collections of the users.
LEMMA UpdateType3 ==
  ASSUME NEW A, NEW B, NEW C, NEW D, NEW f \in [A -> [B -> [C -> D]]],
         NEW a \in A, NEW b \in B, NEW c \in C, NEW v \in D
  PROVE  [f EXCEPT ![a][b][c] = v] \in [A -> [B -> [C -> D]]]
OBVIOUS

-----------------------------------------------------------------------------
(* The invariant, action by action *)

\* An unlink deletes the inode with the last reference; by EntriesCounted no
\* other collection of the user then has an entry for the blob.
LEMMA UnlinkPreserves ==
  ASSUME IInv, NEW u \in Users, NEW c \in Colls, NEW b \in Blobs, unlink_blob(u, c, b)
  PROVE  IInv'
<1> USE NullAssumption DEF IInv
<1> DEFINE last == refs[u][b] \ {c} = {}
           left == [coll[u][c] EXCEPT ![b] = Null]
           item == <<u, b>>
<1>0. public \in Seq(Users \X Blobs) /\ NoDuplicates(public)
  BY DEF TypeOK, PublicListSound, NoDuplicates
<1>1. TypeOK'
  <2>1. LREM(public, item) \in Seq(Users \X Blobs)
    BY <1>0, LREMProperties
  <2>2. PICK new \in Blobs \union {Null} : cover' = cover \/ cover' = [cover EXCEPT ![u][c] = new]
    BY DEF unlink_blob, UnlinkInode, UnlinkCover
  <2>3. cover' \in [Users -> [Colls -> Blobs \union {Null}]]
    <3> DEFINE D == Blobs \union {Null}
    <3>1. cover \in [Users -> [Colls -> D]] /\ new \in D
      BY DEF TypeOK
    <3> HIDE DEF D
    <3>2. [cover EXCEPT ![u][c] = new] \in [Users -> [Colls -> D]]
      BY <3>1, UpdateType2
    <3>3. cover' \in [Users -> [Colls -> D]]
      BY <3>1, <3>2, <2>2
    <3> QED
      BY <3>3 DEF D
  <2>4. refs' \in [Users -> [Blobs -> SUBSET Colls]] /\ owners' \in [Blobs -> SUBSET Users]
    BY DEF TypeOK, unlink_blob, UnlinkInode, UnlinkCover
  <2>5. inode' \in [Users -> [Blobs -> [perm : Perms, name : Names] \union {Null}]]
    BY DEF TypeOK, unlink_blob, UnlinkInode, UnlinkCover
  <2>6. coll' \in [Users -> [Colls -> [Blobs -> Names \union {Null}]]]
    BY DEF TypeOK, unlink_blob, UnlinkInode, UnlinkCover
  <2>7. public' \in Seq(Users \X Blobs)
    BY <2>1, <1>0 DEF unlink_blob, UnlinkInode, UnlinkCover
  <2> QED
    BY <2>3, <2>4, <2>5, <2>6, <2>7 DEF TypeOK
<1>2. \A v \in Users, d \in Colls, x \in Blobs :
        InColl(v, d, x)' <=> InColl(v, d, x) /\ ~ (v = u /\ d = c /\ x = b)
  BY DEF TypeOK, unlink_blob, UnlinkInode, UnlinkCover, InColl
<1>3. EntriesCounted'
  BY <1>2 DEF TypeOK, unlink_blob, UnlinkInode, UnlinkCover, EntriesCounted
<1>4. \A v \in Users, x \in Blobs :
        /\ HasInode(v, x)' <=> HasInode(v, x) /\ ~ (v = u /\ x = b /\ last)
        /\ (v \in owners[x])' <=> v \in owners[x] /\ ~ (v = u /\ x = b /\ last)
        /\ HasInode(v, x)' => inode'[v][x] = inode[v][x]
  BY DEF TypeOK, unlink_blob, UnlinkInode, UnlinkCover, HasInode
<1>5. OwnersHaveInodes'
  BY <1>4 DEF OwnersHaveInodes
<1>6. EntriesBacked'
  <2>1. ASSUME last PROVE \A d \in Colls : ~ InColl(u, d, b)'
    BY <2>1, <1>2 DEF EntriesCounted
  <2> QED
    BY <1>2, <1>4, <2>1 DEF EntriesBacked
<1>7. CollectionsListed'
  <2> SUFFICES ASSUME NEW v \in Users, NEW d \in Colls, ~ Empty(coll[v][d])'
               PROVE  Listed(v, d)'
    BY DEF CollectionsListed
  <2>1. CASE v = u /\ d = c
    <3>1. coll'[u][c] = left
      BY Zenon DEF TypeOK, unlink_blob, UnlinkInode, UnlinkCover
    <3>2. ~ Empty(left) /\ ~ Empty(coll[u][c])
      BY <2>1, <3>1 DEF Empty, TypeOK
    <3>3. Listed(u, c)
      BY <3>2 DEF CollectionsListed
    <3>4. cover' = cover \/ \E first \in Blobs : cover' = [cover EXCEPT ![u][c] = first]
      BY <3>2 DEF unlink_blob, UnlinkInode, UnlinkCover
    <3>5. cover \in [Users -> [Colls -> Blobs \union {Null}]]
      BY DEF TypeOK
    <3> QED
      BY <2>1, <3>3, <3>4, <3>5 DEF Listed
  <2>2. CASE ~ (v = u /\ d = c)
    <3>1. coll' = [coll EXCEPT ![u][c] = left]
          /\ (cover' = cover \/ \E new : cover' = [cover EXCEPT ![u][c] = new])
      BY DEF unlink_blob, UnlinkCover
    <3>2. coll'[v][d] = coll[v][d] /\ cover'[v][d] = cover[v][d]
      BY <2>2, <3>1 DEF TypeOK
    <3> QED
      BY <3>2 DEF CollectionsListed, Empty, Listed
  <2> QED
    BY <2>1, <2>2
<1>8. PublicListSound'
  <2>1. \A i \in 1..Len(public) : public[i] \in Users \X Blobs
    BY <1>0
  <2>2. CASE last
    <3>1. PICK r : r = LREM(public, item)
      OBVIOUS
    <3>2. r \in Seq(Users \X Blobs) /\ Removed(r, public, item)
      BY <1>0, <3>1, LREMProperties
    <3>3. public' = r
      BY <2>2, <3>1 DEF unlink_blob, UnlinkInode, UnlinkCover
    <3>4. Len(r) <= PublicLimit
      BY <3>2, <1>0, LimitAssumption DEF PublicListSound, Removed
    <3>5. ASSUME NEW i \in 1..Len(r)
          PROVE  HasInode(r[i][1], r[i][2])' /\ inode'[r[i][1]][r[i][2]].perm = "public"
      <4>1. PICK j \in 1..Len(public) : r[i] = public[j]
        BY <3>2 DEF Removed
      <4>2. HasInode(r[i][1], r[i][2]) /\ inode[r[i][1]][r[i][2]].perm = "public"
        BY <4>1 DEF PublicListSound
      <4>3. r[i][1] \in Users /\ r[i][2] \in Blobs /\ ~ (r[i][1] = u /\ r[i][2] = b)
        BY <3>2, <4>1, <2>1, SMTT(30) DEF Removed
      <4> QED
        BY <4>2, <4>3, <1>4
    <3> QED
      BY <3>2, <3>3, <3>4, <3>5 DEF PublicListSound, NoDuplicates, Removed
  <2>3. CASE ~ last
    <3>1. public' = public
      BY <2>3 DEF unlink_blob, UnlinkInode, UnlinkCover
    <3> QED
      BY <2>1, <2>3, <3>1, <1>4 DEF PublicListSound
  <2> QED
    BY <2>2, <2>3
<1> QED
  BY <1>1, <1>3, <1>5, <1>6, <1>7, <1>8

\* A permission and the list change together: a blob that stops being public
\* leaves the list, and the only blob added is the one just made public.
LEMMA SetPermissionPreserves ==
  ASSUME IInv, NEW u \in Users, NEW b \in Blobs, NEW perm \in Perms, set_permission(u, b, perm)
  PROVE  IInv'
<1> USE NullAssumption DEF IInv
<1> DEFINE item == <<u, b>>
           new == [inode[u][b] EXCEPT !.perm = perm]
<1>0. public \in Seq(Users \X Blobs) /\ NoDuplicates(public) /\ Len(public) <= PublicLimit
  BY DEF TypeOK, PublicListSound, NoDuplicates
<1>1. PICK r : r = LREM(public, item)
  OBVIOUS
<1>2. r \in Seq(Users \X Blobs) /\ Removed(r, public, item)
  BY <1>0, <1>1, LREMProperties
<1>3. NoDuplicates(r) /\ Len(r) <= PublicLimit /\ item \in Users \X Blobs
      /\ \A i \in 1..Len(r) : r[i] # item
  BY <1>0, <1>2, LimitAssumption DEF Removed
<1>4. PICK q : q = PushPublic(r, item)
  OBVIOUS
<1>5. q \in Seq(Users \X Blobs) /\ Pushed(q, r, item)
  BY <1>2, <1>3, <1>4, PushProperties, Zenon
<1>6. public' = IF perm = "public" THEN q ELSE r
  BY <1>1, <1>4 DEF set_permission
<1>7. inode[u][b] \in [perm : Perms, name : Names]
  BY DEF TypeOK, set_permission, HasInode
<1>8. new \in [perm : Perms, name : Names] /\ new.perm = perm
  BY <1>7
<1>9. inode' = [inode EXCEPT ![u][b] = new]
  BY DEF set_permission
<1> HIDE DEF new, item
<1>10. TypeOK'
  <2> DEFINE D == [perm : Perms, name : Names] \union {Null}
  <2>1. inode \in [Users -> [Blobs -> D]] /\ new \in D
    BY <1>8 DEF TypeOK
  <2> HIDE DEF D
  <2>2. inode' \in [Users -> [Blobs -> D]]
    BY <2>1, <1>9, UpdateType2
  <2>3. inode' \in [Users -> [Blobs -> [perm : Perms, name : Names] \union {Null}]]
    BY <2>2 DEF D
  <2>4. public' \in Seq(Users \X Blobs)
    BY <1>2, <1>5, <1>6
  <2> QED
    BY <2>3, <2>4 DEF TypeOK, set_permission
<1>11. \A v \in Users, x \in Blobs :
         /\ HasInode(v, x)' <=> HasInode(v, x)
         /\ ~ (v = u /\ x = b) => inode'[v][x] = inode[v][x]
         /\ v = u /\ x = b => inode'[v][x].perm = perm
  <2>1. inode \in [Users -> [Blobs -> [perm : Perms, name : Names] \union {Null}]]
    BY DEF TypeOK
  <2>2. new # Null /\ inode[u][b] # Null
    BY <1>8 DEF set_permission, HasInode
  <2>3. inode'[u][b] = new
    BY <2>1, <1>9
  <2>4. ASSUME NEW v \in Users, NEW x \in Blobs, ~ (v = u /\ x = b)
        PROVE  inode'[v][x] = inode[v][x]
    BY <2>1, <2>4, <1>9
  <2> QED
    BY <2>2, <2>3, <2>4, <1>8 DEF HasInode
<1>12. EntriesCounted' /\ EntriesBacked' /\ OwnersHaveInodes' /\ CollectionsListed'
  <2>1. UNCHANGED <<refs, owners, coll, cover>>
    BY DEF set_permission
  <2>2. EntriesCounted' /\ CollectionsListed'
    BY <2>1 DEF EntriesCounted, CollectionsListed, InColl, Empty, Listed
  <2>3. \A v \in Users, d \in Colls, x \in Blobs : InColl(v, d, x)' <=> InColl(v, d, x)
    BY <2>1 DEF InColl
  <2>4. EntriesBacked' /\ OwnersHaveInodes'
    BY <2>1, <2>3, <1>11 DEF EntriesBacked, OwnersHaveInodes
  <2> QED
    BY <2>2, <2>4
<1>13. PublicListSound'
  <2>1. ASSUME NEW i \in 1..Len(r)
        PROVE  /\ r[i][1] \in Users /\ r[i][2] \in Blobs
               /\ HasInode(r[i][1], r[i][2])' /\ inode'[r[i][1]][r[i][2]].perm = "public"
    <3>1. PICK j \in 1..Len(public) : r[i] = public[j]
      BY <1>2 DEF Removed
    <3>2. HasInode(r[i][1], r[i][2]) /\ inode[r[i][1]][r[i][2]].perm = "public"
      BY <3>1 DEF PublicListSound
    <3>3. r[i] \in Users \X Blobs /\ r[i] # item
      BY <1>2, <1>3
    <3>4. r[i][1] \in Users /\ r[i][2] \in Blobs /\ ~ (r[i][1] = u /\ r[i][2] = b)
      BY <3>3 DEF item
    <3> QED
      BY <3>2, <3>4, <1>11
  <2>2. CASE perm # "public"
    <3>1. public' = r
      BY <2>2, <1>6
    <3> QED
      BY <2>1, <3>1, <1>3 DEF PublicListSound, NoDuplicates
  <2>3. CASE perm = "public"
    <3>1. public' = q
      BY <2>3, <1>6
    <3>2. ASSUME NEW i \in 1..Len(q)
          PROVE  HasInode(q[i][1], q[i][2])' /\ inode'[q[i][1]][q[i][2]].perm = "public"
      <4>1. CASE q[i] = item
        <5>1. q[i][1] = u /\ q[i][2] = b
          BY <4>1 DEF item
        <5>2. HasInode(u, b)' /\ inode'[u][b].perm = "public"
          BY <1>11, <2>3 DEF set_permission
        <5> QED
          BY <5>1, <5>2
      <4>2. CASE \E j \in 1..Len(r) : q[i] = r[j]
        BY <4>2, <2>1
      <4> QED
        BY <4>1, <4>2, <1>5 DEF Pushed
    <3> QED
      BY <3>1, <3>2, <1>5 DEF PublicListSound, NoDuplicates, Pushed
  <2> QED
    BY <2>2, <2>3
<1> QED
  BY <1>10, <1>12, <1>13

-----------------------------------------------------------------------------
(* The requests *)

\* The empty database satisfies the invariant.
LEMMA InitEstablishes == Init => IInv
<1> SUFFICES ASSUME Init PROVE IInv
  OBVIOUS
<1>1. TypeOK
  BY DEF Init, TypeOK
<1>2. public = << >> /\ Len(public) = 0 /\ 0 <= PublicLimit
  BY LimitAssumption DEF Init
<1>3. PublicListSound
  BY <1>2 DEF PublicListSound
<1>4. EntriesCounted /\ EntriesBacked /\ OwnersHaveInodes /\ CollectionsListed
  BY Zenon DEF Init, EntriesCounted, EntriesBacked, OwnersHaveInodes, CollectionsListed,
         InColl, HasInode, Empty
<1> QED
  BY <1>1, <1>3, <1>4 DEF IInv

\* An upload adds an entry together with everything the entry needs.
LEMMA LinkPreserves ==
  ASSUME IInv, NEW u \in Users, NEW c \in Colls, NEW b \in Blobs, NEW n \in Names,
         link_blob(u, c, b, n)
  PROVE  IInv'
<1> USE NullAssumption DEF IInv
<1>1. TypeOK'
  <2>1. [perm |-> "private", name |-> n] \in [perm : Perms, name : Names]
    BY DEF Perms
  <2> QED
    BY <2>1 DEF TypeOK, link_blob, NewInode, NewCover
<1>2. \A v \in Users, x \in Blobs :
        /\ HasInode(v, x)' <=> HasInode(v, x) \/ (v = u /\ x = b)
        /\ (v \in owners[x])' <=> v \in owners[x] \/ (v = u /\ x = b)
        /\ HasInode(v, x) => inode'[v][x] = inode[v][x]
  <2>1. [perm |-> "private", name |-> n] # Null
    BY DEF Perms
  <2> QED
    BY <2>1, Zenon DEF TypeOK, link_blob, NewInode, NewCover, HasInode
<1>3. \A v \in Users, d \in Colls, x \in Blobs :
        InColl(v, d, x)' => InColl(v, d, x) \/ (v = u /\ d = c /\ x = b)
  BY DEF TypeOK, link_blob, NewInode, NewCover, InColl
<1>4. EntriesCounted'
  BY <1>3, Zenon DEF TypeOK, link_blob, NewInode, NewCover, EntriesCounted
<1>5. EntriesBacked' /\ OwnersHaveInodes'
  BY <1>2, <1>3 DEF EntriesBacked, OwnersHaveInodes
<1>6. CollectionsListed'
  BY Zenon DEF TypeOK, link_blob, NewInode, NewCover, CollectionsListed, Empty, Listed
<1>7. PublicListSound'
  <2>1. public' = public
    BY DEF link_blob, NewInode, NewCover
  <2>2. \A i \in 1..Len(public) : public[i][1] \in Users /\ public[i][2] \in Blobs
    BY DEF TypeOK
  <2> QED
    BY <1>2, <2>1, <2>2 DEF PublicListSound
<1> QED
  BY <1>1, <1>4, <1>5, <1>6, <1>7

\* A step that changes neither inodes nor the list keeps the list sound.
LEMMA PublicUnchanged ==
  ASSUME IInv, UNCHANGED <<inode, public>>
  PROVE  PublicListSound'
BY Zenon DEF IInv, PublicListSound, HasInode

\* A move takes the reference along with the entry, also when source and
\* destination are the same collection and both disappear.
LEMMA MovePreserves ==
  ASSUME IInv, NEW u \in Users, NEW src \in Colls, NEW dest \in Colls, NEW b \in Blobs,
         move_blob(u, src, dest, b)
  PROVE  IInv'
<1> USE NullAssumption DEF IInv
<1>1. TypeOK'
  <2>1. refs' \in [Users -> [Blobs -> SUBSET Colls]]
    BY DEF TypeOK, move_blob, MoveEntry, ListDest, MoveRef
  <2>2. coll' \in [Users -> [Colls -> [Blobs -> Names \union {Null}]]]
    <3> DEFINE D == Names \union {Null}
               moved == [coll EXCEPT ![u][dest][b] = coll[u][src][b]]
    <3>1. coll \in [Users -> [Colls -> [Blobs -> D]]] /\ coll[u][src][b] \in D /\ Null \in D
      BY DEF TypeOK
    <3>2. coll' = [moved EXCEPT ![u][src][b] = Null]
      BY Zenon DEF move_blob, MoveEntry, ListDest
    <3> HIDE DEF D
    <3>3. moved \in [Users -> [Colls -> [Blobs -> D]]]
      BY <3>1, UpdateType3
    <3> HIDE DEF moved
    <3>4. [moved EXCEPT ![u][src][b] = Null] \in [Users -> [Colls -> [Blobs -> D]]]
      BY <3>1, <3>3, Zenon
    <3> QED
      BY <3>2, <3>4, Zenon DEF D
  <2>3. cover' \in [Users -> [Colls -> Blobs \union {Null}]]
    BY Zenon DEF TypeOK, move_blob, MoveEntry, ListDest
  <2> QED
    BY <2>1, <2>2, <2>3, Zenon DEF TypeOK, move_blob, MoveEntry, ListDest
<1>2. \A v \in Users, d \in Colls, x \in Blobs :
        InColl(v, d, x)' => IF v = u /\ x = b /\ d \in {src, dest} THEN d = dest /\ d # src
                                                               ELSE InColl(v, d, x)
  BY DEF TypeOK, move_blob, MoveEntry, ListDest, InColl
<1>3. EntriesCounted'
  BY <1>2, Zenon DEF TypeOK, move_blob, MoveEntry, ListDest, MoveRef, EntriesCounted
<1>4. \A v \in Users, d \in Colls, x \in Blobs :
        InColl(v, d, x)' => \E e \in Colls : InColl(v, e, x)
  BY <1>2, Zenon DEF move_blob, MoveEntry, ListDest
<1>5. EntriesBacked' /\ OwnersHaveInodes'
  BY <1>4, ZenonT(30) DEF move_blob, MoveEntry, ListDest, EntriesBacked, OwnersHaveInodes, HasInode
<1>6. CollectionsListed'
  <2>1. SUFFICES ASSUME NEW v \in Users, NEW d \in Colls, NEW x \in Blobs, InColl(v, d, x)'
                 PROVE  Listed(v, d)'
    BY Zenon DEF CollectionsListed, Empty, InColl
  <2>2. CASE v = u /\ d = dest
    BY <2>2 DEF TypeOK, move_blob, ListDest, Listed
  <2>3. CASE ~ (v = u /\ d = dest)
    <3>1. InColl(v, d, x)
      BY <1>2, <2>1, <2>3, Zenon
    <3>2. Listed(v, d)
      BY <3>1, Zenon DEF CollectionsListed, Empty, InColl
    <3> QED BY <2>3, <3>2 DEF TypeOK, move_blob, ListDest, Listed
  <2> QED BY <2>2, <2>3
<1>7. PublicListSound'
  BY PublicUnchanged, Zenon DEF move_blob, MoveEntry, ListDest
<1> QED
  BY <1>1, <1>3, <1>5, <1>6, <1>7, Zenon

\* A failed move leaves a reference without an entry, and never an entry
\* without a reference: the collection it un-counts has no such entry.
LEMMA FailedMovePreserves ==
  ASSUME IInv, NEW u \in Users, NEW src \in Colls, NEW dest \in Colls, NEW b \in Blobs,
         move_blob_error(u, src, dest, b)
  PROVE  IInv'
<1> USE DEF IInv
<1>1. TypeOK'
  BY DEF TypeOK, move_blob_error, MoveRef
<1>2. EntriesCounted'
  BY Zenon DEF TypeOK, move_blob_error, MoveRef, EntriesCounted, InColl
<1>3. EntriesBacked' /\ OwnersHaveInodes' /\ CollectionsListed'
  BY Zenon DEF move_blob_error, EntriesBacked, OwnersHaveInodes, CollectionsListed,
         InColl, HasInode, Empty, Listed
<1>4. PublicListSound'
  BY PublicUnchanged, Zenon DEF move_blob_error
<1> QED
  BY <1>1, <1>2, <1>3, <1>4, Zenon

\* A cover chosen by its owner keeps the collection listed.
LEMMA SetCoverPreserves ==
  ASSUME IInv, NEW u \in Users, NEW c \in Colls, NEW b \in Blobs, set_cover(u, c, b)
  PROVE  IInv'
<1> USE NullAssumption DEF IInv
<1>1. TypeOK'
  BY Zenon DEF TypeOK, set_cover
<1>2. EntriesCounted' /\ EntriesBacked' /\ OwnersHaveInodes'
  BY Zenon DEF set_cover, EntriesCounted, EntriesBacked, OwnersHaveInodes, InColl, HasInode
<1>3. CollectionsListed'
  BY Zenon DEF TypeOK, set_cover, CollectionsListed, Empty, Listed
<1>4. PublicListSound'
  BY PublicUnchanged, Zenon DEF set_cover
<1> QED
  BY <1>1, <1>2, <1>3, <1>4, Zenon

\* Every request preserves the invariant.
LEMMA NextPreserves == IInv /\ [Next]_vars => IInv'
<1> SUFFICES ASSUME IInv, [Next]_vars PROVE IInv'
  OBVIOUS
<1>1. ASSUME NEW u \in Users, NEW b \in Blobs, Request(u, b) PROVE IInv'
  BY Zenon, <1>1, LinkPreserves, MovePreserves, FailedMovePreserves, UnlinkPreserves,
     SetPermissionPreserves, SetCoverPreserves DEF Request, on_upload, unlink, post_blob, post_view
<1>2. CASE UNCHANGED vars
  BY <1>2, Zenon DEF vars, IInv, TypeOK, EntriesCounted, EntriesBacked, OwnersHaveInodes,
              CollectionsListed, PublicListSound, InColl, HasInode, Empty, Listed
<1> QED
  BY <1>1, <1>2, Zenon DEF Next

\* The strengthened invariant holds in every reachable state.
THEOREM Invariance == Spec => []IInv
BY InitEstablishes, NextPreserves, PTL DEF Spec

-----------------------------------------------------------------------------
(* The theorems *)

\* Type correctness of the database.
THEOREM TypeCorrect == Spec => []TypeOK
BY Invariance, PTL DEF IInv

\* Whatever the requests and however their scripts fail, a collection never has
\* an entry that is not counted or has no inode or no owner.
THEOREM CollectionsSound == Spec => []EntriesCounted /\ []EntriesBacked
BY Invariance, PTL DEF IInv

\* Owners and inodes agree, so an uploaded blob starts with a fresh inode.
THEOREM OwnershipAgrees == Spec => []OwnersHaveInodes
BY Invariance, PTL DEF IInv

\* unlink_command never fails to decode the entry of a collection it did not
\* empty.
THEOREM UnlinkNeverFails == Spec => []CollectionsListed
BY Invariance, PTL DEF IInv

\* The list of public blobs is bounded and without duplicates, and names public
\* blobs only.
THEOREM FrontPageSound == Spec => []PublicListSound
BY Invariance, PTL DEF IInv

\* Collections, blobs read from them and blobs read by their ID give every
\* requester the same answer: no entry is without an inode.
THEOREM ReadingAgrees == Spec => []ReadersAgree
<1>1. EntriesBacked => ReadersAgree
  BY ZenonT(30) DEF EntriesBacked, ReadersAgree, get_collection, get_blob, query_blob
<1> QED
  BY <1>1, CollectionsSound, PTL

=============================================================================
