------------------------- MODULE CollectionViewProofs -------------------------
(***************************************************************************)
(* Proofs about CollectionView, for any users, collections and blobs and   *)
(* any number of views in progress.                                        *)
(*                                                                         *)
(* What the late HSETs of the views may write is limited by what they can  *)
(* carry: whole inodes, for blobs without a date.  That is the invariant   *)
(* about pending; the rest is that the requests keep owners and inodes     *)
(* together.                                                               *)
(***************************************************************************)
EXTENDS CollectionView, TLAPS

Inodes == [perm : Perms, name : Names]

\* The HSETs a view may have sent.
Writes == [user : Users \union {Null}, blob : Undated, entry : Inodes]

\* The keys that views read, and what they have sent, have their shapes.
ViewType ==
  /\ owners \in [Blobs -> SUBSET Users]
  /\ inode \in [Users -> [Blobs -> Inodes \union {Null}]]
  /\ coll \in [Users -> [Colls -> [Blobs -> Names \union {Null}]]]
  /\ pending \in [Views -> SUBSET Writes]

\* The inductive invariant.
ViewInv == ViewType /\ OwnersKeepInodes

\* What a request of user u about blob b does to the owners and the inodes.
LEMMA RequestEffect ==
  ASSUME NEW u \in Users, NEW b \in Blobs, Request(u, b)
  PROVE  \/ \E n \in Names : /\ owners' = [owners EXCEPT ![b] = @ \union {u}]
                             /\ inode' = [inode EXCEPT ![u][b] = IF @ = Null THEN NewInode(n) ELSE @]
         \/ /\ owners' = [owners EXCEPT ![b] = @ \ {u}]
            /\ inode' = [inode EXCEPT ![u][b] = Null]
         \/ UNCHANGED <<owners, inode>>
         \/ \E p \in Perms : /\ HasInode(u, b) /\ set_permission(u, b, p)
                             /\ inode' = [inode EXCEPT ![u][b].perm = p]
                             /\ UNCHANGED owners
<1>1. CASE on_upload(u, b)
  BY <1>1, Zenon DEF on_upload, link_blob
<1>2. CASE unlink(u, b)
  BY <1>2, Zenon DEF unlink, unlink_blob, UnlinkInode
<1>3. CASE \E p \in Perms : set_permission(u, b, p)
  BY <1>3, Zenon DEF set_permission
<1>4. CASE post_view(u, b) \/ \E src, dest \in Colls : move_blob(u, src, dest, b) \/ move_blob_error(u, src, dest, b)
  BY <1>4, Zenon DEF post_view, set_cover, move_blob, move_blob_error
<1> QED BY <1>1, <1>2, <1>3, <1>4, Zenon DEF Request, post_blob

\* A request leaves entries with names in the collections.
LEMMA RequestKeepsEntries ==
  ASSUME coll \in [Users -> [Colls -> [Blobs -> Names \union {Null}]]], NEW u \in Users, NEW b \in Blobs, Request(u, b)
  PROVE  coll' \in [Users -> [Colls -> [Blobs -> Names \union {Null}]]]
<1>1. CASE on_upload(u, b)
  BY <1>1 DEF on_upload, link_blob
<1>2. ASSUME NEW c \in Colls, unlink_blob(u, c, b)
      PROVE  coll' \in [Users -> [Colls -> [Blobs -> Names \union {Null}]]]
  BY <1>2 DEF unlink_blob
<1>3. ASSUME NEW src \in Colls, NEW dest \in Colls, move_blob(u, src, dest, b)
      PROVE  coll' \in [Users -> [Colls -> [Blobs -> Names \union {Null}]]]
  <2> DEFINE name == coll[u][src][b]
             set == [coll EXCEPT ![u][dest][b] = name]
  <2>1. coll' = [set EXCEPT ![u][src][b] = Null]
    BY <1>3, Zenon DEF move_blob, MoveEntry
  <2>2. name \in Names \union {Null}
    OBVIOUS
  <2> HIDE DEF name
  <2>3. set \in [Users -> [Colls -> [Blobs -> Names \union {Null}]]]
    BY <2>2
  <2> HIDE DEF set
  <2> QED BY <2>1, <2>3
<1>4. CASE UNCHANGED coll
  BY <1>4
<1>5. post_view(u, b) \/ (\E src, dest \in Colls : move_blob_error(u, src, dest, b)) \/ (\E p \in Perms : set_permission(u, b, p))
        => UNCHANGED coll
  BY Zenon DEF post_view, set_cover, move_blob_error, set_permission
<1> QED BY <1>1, <1>2, <1>3, <1>4, <1>5, Zenon DEF Request, unlink, post_blob

\* A request keeps the invariant.
LEMMA RequestOK ==
  ASSUME ViewInv, NEW u \in Users, NEW b \in Blobs, Request(u, b), UNCHANGED pending
  PROVE  ViewInv'
<1>1. ViewType /\ OwnersKeepInodes
  BY DEF ViewInv
<1>2. coll' \in [Users -> [Colls -> [Blobs -> Names \union {Null}]]] /\ pending' \in [Views -> SUBSET Writes]
  BY <1>1, RequestKeepsEntries DEF ViewType
<1>3. Null \notin Inodes
  BY NullAssumption DEF Inodes
<1>4. CASE \E n \in Names : /\ owners' = [owners EXCEPT ![b] = @ \union {u}]
                            /\ inode' = [inode EXCEPT ![u][b] = IF @ = Null THEN NewInode(n) ELSE @]
  <2>1. PICK new \in Inodes : /\ owners' = [owners EXCEPT ![b] = @ \union {u}]
                              /\ inode' = [inode EXCEPT ![u][b] = IF @ = Null THEN new ELSE @]
    <3>1. \A n \in Names : NewInode(n) \in Inodes
      BY DEF NewInode, Inodes, Perms
    <3> QED BY <1>4, <3>1
  <2> QED BY <1>1, <1>2, <1>3, <2>1 DEF ViewInv, ViewType, OwnersKeepInodes, HasInode
<1>5. CASE owners' = [owners EXCEPT ![b] = @ \ {u}] /\ inode' = [inode EXCEPT ![u][b] = Null]
  BY <1>1, <1>2, <1>3, <1>5 DEF ViewInv, ViewType, OwnersKeepInodes, HasInode
<1>6. CASE UNCHANGED <<owners, inode>>
  BY <1>1, <1>2, <1>6 DEF ViewInv, ViewType, OwnersKeepInodes, HasInode
<1>7. ASSUME NEW p \in Perms, HasInode(u, b), inode' = [inode EXCEPT ![u][b].perm = p], UNCHANGED owners
      PROVE  ViewInv'
  <2> DEFINE new == [inode[u][b] EXCEPT !.perm = p]
  <2>1. inode[u][b] \in Inodes
    BY <1>1, <1>7 DEF ViewType, HasInode
  <2>2. new \in Inodes
    BY <2>1 DEF Inodes
  <2>3. inode' = [inode EXCEPT ![u][b] = new]
    BY <1>7, Zenon
  <2> HIDE DEF new
  <2>4. inode' \in [Users -> [Blobs -> Inodes \union {Null}]]
    BY <1>1, <2>2, <2>3 DEF ViewType
  <2>5. \A v \in Users, x \in Blobs : inode'[v][x] # Null <=> inode[v][x] # Null
    BY <1>1, <1>3, <2>1, <2>2, <2>3 DEF ViewType
  <2>6. OwnersKeepInodes'
    BY <1>1, <1>7, <2>5 DEF OwnersKeepInodes, HasInode
  <2> QED BY <1>1, <1>2, <1>7, <2>4, <2>6 DEF ViewInv, ViewType
<1> QED BY <1>4, <1>5, <1>6, <1>7, RequestEffect

\* The HSETs of a view carry whole inodes, of blobs without a date.
LEMMA ViewOK ==
  ASSUME ViewInv, NEW v \in Views, NEW requester \in Requesters, NEW u \in Users, NEW c \in Colls,
         view_collection(v, requester, u, c)
  PROVE  ViewInv'
<1>1. ViewType /\ OwnersKeepInodes /\ UNCHANGED <<owners, inode, coll>>
  BY DEF ViewInv, view_collection, vars
<1>2. requester.user \in Users \union {Null}
  BY DEF Requesters
<1>3. ASSUME NEW b \in get_collection(requester, u, c) \intersect Undated
      PROVE  [user |-> requester.user, blob |-> b,
              entry |-> [perm |-> inode[u][b].perm, name |-> coll[u][c][b]]] \in Writes
  <2>1. b \in Blobs /\ coll[u][c][b] \in Names /\ inode[u][b] \in Inodes
    BY <1>1, <1>3 DEF get_collection, InColl, HasInode, ViewType
  <2>2. [perm |-> inode[u][b].perm, name |-> coll[u][c][b]] \in Inodes
    BY <2>1 DEF Inodes
  <2> QED BY <1>2, <1>3, <2>2 DEF Writes
<1>4. validate_collection(requester, u, c) \subseteq Writes
  BY <1>3 DEF validate_collection
<1>5. pending' \in [Views -> SUBSET Writes]
  BY <1>1, <1>4 DEF view_collection, ViewType
<1> QED BY <1>1, <1>5 DEF ViewInv, ViewType, OwnersKeepInodes, HasInode

\* Where an HSET of a view arrives: an inode of a blob without a date, or nowhere.
LEMMA UpdateEffect ==
  ASSUME ViewType, NEW v \in Views, update(v)
  PROVE  /\ UNCHANGED <<owners, coll>> /\ pending' \in [Views -> SUBSET Writes]
         /\ \/ UNCHANGED inode
            \/ \E w \in Users, b \in Blobs \intersect Undated, new \in Inodes : inode' = [inode EXCEPT ![w][b] = new]
<1>1. PICK e \in pending[v] :
        /\ pending' = [pending EXCEPT ![v] = @ \ {e}]
        /\ inode' = IF e.user = Null THEN inode ELSE [inode EXCEPT ![e.user][e.blob] = e.entry]
        /\ UNCHANGED <<refs, owners, coll, cover, public>>
  BY DEF update
<1>2. e \in Writes /\ pending' \in [Views -> SUBSET Writes]
  BY <1>1 DEF ViewType
<1>3. e.user \in Users \union {Null} /\ e.blob \in Blobs \intersect Undated /\ e.entry \in Inodes
  BY <1>2, UndatedAssumption DEF Writes
<1> QED BY <1>1, <1>2, <1>3, Zenon

\* A late HSET may write an inode nobody owns, and loses none.
LEMMA UpdateOK ==
  ASSUME ViewInv, NEW v \in Views, update(v)
  PROVE  ViewInv'
<1>1. ViewType /\ OwnersKeepInodes /\ Null \notin Inodes
  BY NullAssumption DEF ViewInv, Inodes
<1>2. UNCHANGED <<owners, coll>> /\ pending' \in [Views -> SUBSET Writes]
  BY <1>1, UpdateEffect
<1>3. CASE UNCHANGED inode
  BY <1>1, <1>2, <1>3 DEF ViewInv, ViewType, OwnersKeepInodes, HasInode
<1>4. ASSUME NEW w \in Users, NEW b \in Blobs \intersect Undated, NEW new \in Inodes, inode' = [inode EXCEPT ![w][b] = new]
      PROVE  ViewInv'
  BY <1>1, <1>2, <1>4 DEF ViewInv, ViewType, OwnersKeepInodes, HasInode
<1> QED BY <1>1, <1>3, <1>4, UpdateEffect

\* The invariant holds throughout.
THEOREM ViewInvariance == ViewSpec => []ViewInv
<1>1. ViewInit => ViewInv
  BY DEF ViewInit, Init, ViewInv, ViewType, OwnersKeepInodes, HasInode
<1>2. ViewInv /\ [ViewNext]_viewVars => ViewInv'
  <2> SUFFICES ASSUME ViewInv, [ViewNext]_viewVars PROVE ViewInv'
    OBVIOUS
  <2>1. CASE UNCHANGED viewVars
    BY <2>1 DEF viewVars, ViewInv, ViewType, OwnersKeepInodes, HasInode
  <2>2. CASE Next /\ UNCHANGED pending
    BY <2>2, RequestOK DEF Next
  <2>3. CASE ViewNext /\ ~ (Next /\ UNCHANGED pending)
    BY <2>3, ViewOK, UpdateOK DEF ViewNext
  <2> QED BY <2>1, <2>2, <2>3
<1> QED BY <1>1, <1>2, PTL DEF ViewSpec

\* However the views of validate_collection interleave with requests, an owner has
\* an inode, and an inode without an owner is that of a blob without a date.
THEOREM OwnersAlwaysKeepInodes == ViewSpec => []OwnersKeepInodes
<1>1. ViewInv => OwnersKeepInodes
  BY DEF ViewInv
<1> QED BY <1>1, ViewInvariance, PTL

\* A blob with a date is published by set_permission alone: what a view writes back
\* late is about other blobs.
THEOREM OwnersPublishDated == ViewSpec => OwnerPublishesDated
<1> DEFINE Asked == \A u \in Users, b \in Blobs \ Undated :
             ~ Published(u, b) /\ Published(u, b)' => set_permission(u, b, "public")
<1>1. ASSUME ViewInv, ViewNext, NEW u \in Users, NEW b \in Blobs \ Undated, ~ Published(u, b), Published(u, b)'
      PROVE  set_permission(u, b, "public")
  <2>1. ViewType
    BY <1>1 DEF ViewInv
  <2>2. inode'[u][b] # inode[u][b]
    BY <1>1 DEF Published, HasInode
  <2>3. ASSUME NEW v \in Views, update(v) PROVE FALSE
    <3>1. PICK w \in Users, x \in Blobs \intersect Undated, new \in Inodes : inode' = [inode EXCEPT ![w][x] = new]
      BY <2>1, <2>2, <2>3, UpdateEffect
    <3>2. inode'[u][b] = inode[u][b]
      BY <2>1, <3>1 DEF ViewType
    <3> QED BY <2>2, <3>2
  <2>4. \A v \in Views, requester \in Requesters, w \in Users, c \in Colls : ~ view_collection(v, requester, w, c)
    BY <2>2 DEF view_collection, vars
  <2>5. PICK w \in Users, x \in Blobs : Request(w, x)
    BY <1>1, <2>3, <2>4, Zenon DEF ViewNext, Next
  <2>6. CASE \E n \in Names : inode' = [inode EXCEPT ![w][x] = IF @ = Null THEN NewInode(n) ELSE @]
    <3>1. \E n \in Names : inode'[u][b] = NewInode(n)
      BY <2>1, <2>2, <2>6 DEF ViewType
    <3>2. inode'[u][b].perm = "private"
      BY <3>1 DEF NewInode
    <3> QED BY <1>1, <3>2 DEF Published
  <2>7. CASE inode' = [inode EXCEPT ![w][x] = Null]
    <3>1. inode'[u][b] = Null
      BY <2>1, <2>2, <2>7 DEF ViewType
    <3> QED BY <1>1, <3>1 DEF Published, HasInode
  <2>8. ASSUME NEW p \in Perms, set_permission(w, x, p), HasInode(w, x), inode' = [inode EXCEPT ![w][x].perm = p]
        PROVE  set_permission(u, b, "public")
    <3> DEFINE new == [inode[w][x] EXCEPT !.perm = p]
    <3>1. inode[w][x] \in Inodes
      BY <2>1, <2>8 DEF ViewType, HasInode
    <3>2. new.perm = p
      BY <3>1 DEF Inodes
    <3>3. inode' = [inode EXCEPT ![w][x] = new]
      BY <2>8, Zenon
    <3> HIDE DEF new
    <3>4. u = w /\ b = x /\ inode'[u][b] = new
      BY <2>1, <2>2, <3>3 DEF ViewType
    <3>5. p = "public"
      BY <1>1, <3>2, <3>4 DEF Published
    <3> QED BY <2>8, <3>4, <3>5
  <2> QED BY <2>2, <2>5, <2>6, <2>7, <2>8, RequestEffect
<1>2. ViewInv /\ [ViewNext]_viewVars => [Asked]_viewVars
  BY <1>1
<1> QED BY <1>2, ViewInvariance, PTL DEF ViewSpec, OwnerPublishesDated

===============================================================================
