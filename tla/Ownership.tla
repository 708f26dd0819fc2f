------------------------------ MODULE Ownership ------------------------------
(***************************************************************************)
(* The ownership database of the server (src/src/server/hrb/Ownership.cc):  *)
(* which user owns which blob, in which of the user's collections a blob   *)
(* appears, with which permission, and which blobs are on the site-wide    *)
(* list of public blobs.  It lives in redis; every operation that changes  *)
(* it is one Lua script, which redis runs without interleaving any other   *)
(* command.  A script that raises an error is NOT rolled back: the writes  *)
(* made before the error stay, and the caller is told of success (the      *)
(* completion gets the transport's error code only).                       *)
(*                                                                         *)
(* A redis key that holds an empty set, hash or list does not exist, so    *)
(* EXISTS is modelled by non-emptiness.                                    *)
(***************************************************************************)
EXTENDS Integers, Sequences, Functions

CONSTANTS
  Users,        \* registered users
  Colls,        \* collection names
  Blobs,        \* object IDs
  Names,        \* file names (after link_command's default for an empty one)
  PublicLimit,  \* length at which the list of public blobs is cut: 100
  Null          \* an absent field of a redis hash

Perms == {"private", "shared", "public"}    \* the bytes ' ', '+' and '*'

ASSUME NullAssumption ==
  Null \notin Blobs /\ Null \notin Names /\ Null \notin [perm : Perms, name : Names]
ASSUME LimitAssumption == PublicLimit \in Nat \ {0}

VARIABLES
  refs,       \* blob-refs:<user>:<blob>   set of collections
  owners,     \* blob-owners:<blob>        set of users
  inode,      \* blob-inodes:<user>        blob -> permission and first name
  coll,       \* coll:<user>:<coll>        blob -> file name in the collection
  cover,      \* colls:<user>              collection -> its cover
  public      \* public_blobs              list of <<user, blob>>

vars == <<refs, owners, inode, coll, cover, public>>

-----------------------------------------------------------------------------
(* Reading the database *)

InColl(u, c, b) == coll[u][c][b] # Null

Empty(hash) == \A b \in Blobs : hash[b] = Null

Listed(u, c) == cover[u][c] # Null

HasInode(u, b) == inode[u][b] # Null

\* Who asks: a logged-in user, a guest of the collection's owner (a guest has
\* the owner's name), or nobody that is known (Null).
Requesters == [user : Users \union {Null}, guest : {FALSE}] \union [user : Users, guest : {TRUE}]

\* Permission::allow
allow(perm, requester, owner) ==
  CASE perm = "public"  -> TRUE
    [] perm = "shared"  -> requester.user # Null
    [] perm = "private" -> ~ requester.guest /\ requester.user = owner

\* A bug that GetCollectionUnchecked stands for: the permission is not checked.
GetCollectionUnchecked(requester, u, c) == {b \in Blobs : InColl(u, c, b)}

\* The blobs of collection c of u that get_collection shows to requester:
\* from_reply skips the entries without an inode and those not allowed.
get_collection(requester, u, c) ==
  {b \in Blobs : InColl(u, c, b) /\ HasInode(u, b) /\ allow(inode[u][b].perm, requester, u)}

\* Whether GET of a blob in a collection succeeds.  A missing inode reads as the
\* empty string, whose permission is the default one.
get_blob(requester, u, c, b) ==
  /\ InColl(u, c, b)
  /\ allow(IF HasInode(u, b) THEN inode[u][b].perm ELSE "private", requester, u)

\* Whether a query for a blob by its ID alone succeeds: only the inode counts.
query_blob(requester, u, b) == HasInode(u, b) /\ allow(inode[u][b].perm, requester, u)

\* The front page: the entries of the list whose inode says public.
list_public_blobs == {i \in Range(public) : HasInode(i[1], i[2]) /\ inode[i[1]][i[2]].perm = "public"}

-----------------------------------------------------------------------------
(* The scripts *)

\* Bugs: an upload is public; the script's arguments for the cover and the file
\* name are swapped.
NewInodePublic(n) == [perm |-> "public", name |-> n]

NewCoverSwapped(u, c, b, n) == cover' = [cover EXCEPT ![u][c] = IF @ = Null THEN n ELSE @]

\* The inode that on_upload asks for.
NewInode(n) == [perm |-> "private", name |-> n]

\* HSETNX on the list of collections: a listed collection keeps its cover.
NewCover(u, c, b, n) == cover' = [cover EXCEPT ![u][c] = IF @ = Null THEN b ELSE @]

\* link_command: the inode is kept if there is one (HSETNX).
link_blob(u, c, b, n) ==
  /\ refs' = [refs EXCEPT ![u][b] = @ \union {c}]
  /\ owners' = [owners EXCEPT ![b] = @ \union {u}]
  /\ inode' = [inode EXCEPT ![u][b] = IF @ = Null THEN NewInode(n) ELSE @]
  /\ coll' = [coll EXCEPT ![u][c][b] = n]
  /\ NewCover(u, c, b, n)
  /\ UNCHANGED public

\* A bug: the reference is not added to the destination.
MoveRefForgets(u, src, dest, b) == refs' = [refs EXCEPT ![u][b] = @ \ {src}]

\* The first two commands of move_command, which an error does not undo.
MoveRef(u, src, dest, b) ==
  refs' = [refs EXCEPT ![u][b] = (@ \union {dest}) \ {src}]

\* Bugs: the destination is not listed; the entry is deleted from the source
\* and not set in the destination.
ListDestForgets(u, dest, b) == UNCHANGED cover

MoveEntryLoses(u, src, dest, b) == coll' = [coll EXCEPT ![u][src][b] = Null]

\* HSETNX of the destination in the list of collections.
ListDest(u, dest, b) == cover' = [cover EXCEPT ![u][dest] = IF @ = Null THEN b ELSE @]

\* HSET on dest comes before HDEL on src: when they are the same collection the
\* entry is deleted.
MoveEntry(u, src, dest, b) ==
  coll' = [coll EXCEPT ![u][dest][b] = coll[u][src][b], ![u][src][b] = Null]

\* move_command of a blob that is in src.
move_blob(u, src, dest, b) ==
  /\ InColl(u, src, b)
  /\ MoveRef(u, src, dest, b)
  /\ MoveEntry(u, src, dest, b)
  /\ ListDest(u, dest, b)
  /\ UNCHANGED <<owners, inode, public>>

\* move_command of a blob that is not in src: HGET gives false, which HSET
\* rejects, and the script ends there.
move_blob_error(u, src, dest, b) ==
  /\ ~ InColl(u, src, b)
  /\ MoveRef(u, src, dest, b)
  /\ UNCHANGED <<owners, inode, coll, cover, public>>

\* LREM key 0 item.  An item is on the list at most once (PublicListSound), so
\* removing every occurrence of it is removing that one.
LREM(list, item) ==
  IF \E i \in 1..Len(list) : list[i] = item
  THEN LET k == CHOOSE i \in 1..Len(list) : list[i] = item
       IN SubSeq(list, 1, k - 1) \o SubSeq(list, k + 1, Len(list))
  ELSE list

\* Bugs: the inode is deleted while other collections refer to it; the user
\* stays among the owners.
UnlinkInodeAlways(u, b, last) ==
  /\ owners' = [owners EXCEPT ![b] = @ \ {u}]
  /\ inode' = [inode EXCEPT ![u][b] = Null]
  /\ public' = LREM(public, <<u, b>>)

UnlinkInodeKeepsOwner(u, b, last) ==
  /\ inode' = IF last THEN [inode EXCEPT ![u][b] = Null] ELSE inode
  /\ public' = IF last THEN LREM(public, <<u, b>>) ELSE public
  /\ UNCHANGED owners

\* The last reference takes the ownership, the inode and the public entry.
UnlinkInode(u, b, last) ==
  /\ owners' = IF last THEN [owners EXCEPT ![b] = @ \ {u}] ELSE owners
  /\ inode' = IF last THEN [inode EXCEPT ![u][b] = Null] ELSE inode
  /\ public' = IF last THEN LREM(public, <<u, b>>) ELSE public

\* A bug: the cover is not replaced.
UnlinkCoverStale(u, c, b, left) ==
  cover' = IF Empty(left) THEN [cover EXCEPT ![u][c] = Null] ELSE cover

\* The last blob takes the collection with it.  Which blob HKEYS returns first,
\* to become the new cover, is up to redis.
UnlinkCover(u, c, b, left) ==
  \/ Empty(left) /\ cover' = [cover EXCEPT ![u][c] = Null]
  \/ ~ Empty(left) /\ cover[u][c] # b /\ UNCHANGED cover
  \/ /\ cover[u][c] = b
     /\ \E first \in {x \in Blobs : left[x] # Null} : cover' = [cover EXCEPT ![u][c] = first]

\* unlink_command, whether or not the blob is in the collection.
unlink_blob(u, c, b) ==
  LET left == [coll[u][c] EXCEPT ![b] = Null]
  IN /\ refs' = [refs EXCEPT ![u][b] = @ \ {c}]
     /\ UnlinkInode(u, b, refs[u][b] \ {c} = {})
     /\ coll' = [coll EXCEPT ![u][c] = left]
     /\ UnlinkCover(u, c, b, left)

\* Bugs: the limit is exceeded by one; the oldest item goes one push too early.
PushPublicLate(list, item) ==
  LET pushed == Append(list, item)
  IN IF Len(pushed) > PublicLimit + 1 THEN Tail(pushed) ELSE pushed

PushPublicEarly(list, item) ==
  LET pushed == Append(list, item)
  IN IF Len(pushed) >= PublicLimit THEN Tail(pushed) ELSE pushed

\* RPUSH, then LPOP when the list has become longer than the limit.
PushPublic(list, item) ==
  LET pushed == Append(list, item)
  IN IF Len(pushed) > PublicLimit THEN Tail(pushed) ELSE pushed

\* set_permission_command.  Without an inode the script fails at string.sub,
\* before its first write.
set_permission(u, b, perm) ==
  /\ HasInode(u, b)
  /\ inode' = [inode EXCEPT ![u][b].perm = perm]
  /\ public' = IF perm = "public"
               THEN PushPublic(LREM(public, <<u, b>>), <<u, b>>)
               ELSE LREM(public, <<u, b>>)
  /\ UNCHANGED <<refs, owners, coll, cover>>

\* set_cover_command
set_cover(u, c, b) ==
  /\ Listed(u, c)
  /\ InColl(u, c, b)
  /\ cover' = [cover EXCEPT ![u][c] = b]
  /\ UNCHANGED <<refs, owners, inode, coll, public>>

-----------------------------------------------------------------------------

Init ==
  /\ refs = [u \in Users |-> [b \in Blobs |-> {}]]
  /\ owners = [b \in Blobs |-> {}]
  /\ inode = [u \in Users |-> [b \in Blobs |-> Null]]
  /\ coll = [u \in Users |-> [c \in Colls |-> [b \in Blobs |-> Null]]]
  /\ cover = [u \in Users |-> [c \in Colls |-> Null]]
  /\ public = << >>

(* The requests of user u about blob b.  SessionHandler lets only the owner *)
(* of the collection through, and checks neither that the blob exists nor   *)
(* where it is.                                                             *)

\* PUT /upload/<u>/<c>/<n>
on_upload(u, b) == \E c \in Colls, n \in Names : link_blob(u, c, b, n)

\* DELETE /api/<u>/<c>/<b>
unlink(u, b) == \E c \in Colls : unlink_blob(u, c, b)

\* POST /api/<u>/<c>/<b> with perm= or else with move=
post_blob(u, b) ==
  \/ \E p \in Perms : set_permission(u, b, p)
  \/ \E src, dest \in Colls : move_blob(u, src, dest, b)
  \/ \E src, dest \in Colls : move_blob_error(u, src, dest, b)

\* POST /api/<u>/<c>/ with cover=
post_view(u, b) == \E c \in Colls : set_cover(u, c, b)

Request(u, b) == on_upload(u, b) \/ unlink(u, b) \/ post_blob(u, b) \/ post_view(u, b)

Next == \E u \in Users, b \in Blobs : Request(u, b)

Spec == Init /\ [][Next]_vars
-----------------------------------------------------------------------------
(* Properties *)

\* Every redis key holds a value of the shape its readers expect.
TypeOK ==
  /\ refs \in [Users -> [Blobs -> SUBSET Colls]]
  /\ owners \in [Blobs -> SUBSET Users]
  /\ inode \in [Users -> [Blobs -> [perm : Perms, name : Names] \union {Null}]]
  /\ coll \in [Users -> [Colls -> [Blobs -> Names \union {Null}]]]
  /\ cover \in [Users -> [Colls -> Blobs \union {Null}]]
  /\ public \in Seq(Users \X Blobs)

\* An entry of a collection is counted among the references of its blob.  This
\* is what makes the last-reference test of unlink_command safe: while some
\* collection shows the blob, unlinking it from another one cannot delete its
\* inode.
EntriesCounted ==
  \A u \in Users, c \in Colls, b \in Blobs : InColl(u, c, b) => c \in refs[u][b]

\* No collection has an entry without an inode, which from_reply would silently
\* leave out of the collection, get_blob of the collection would answer with a
\* default-constructed inode, and set_permission would fail on.
EntriesBacked ==
  \A u \in Users, c \in Colls, b \in Blobs :
    InColl(u, c, b) => HasInode(u, b) /\ u \in owners[b]

\* The two records of ownership, the owners of a blob and the inodes of a user,
\* are created and deleted together in spite of half-done scripts.
OwnersHaveInodes ==
  \A u \in Users, b \in Blobs : u \in owners[b] <=> HasInode(u, b)

\* A collection with blobs is in the user's list of collections: the
\* cjson.decode of unlink_command never meets a missing entry (it would raise
\* an error after the blob was removed), and scan_collections shows it.
CollectionsListed ==
  \A u \in Users, c \in Colls : ~ Empty(coll[u][c]) => Listed(u, c)

\* The list of public blobs never outgrows its limit, names no blob twice, and
\* names only blobs that their owners still have and have made public.
PublicListSound ==
  /\ Len(public) <= PublicLimit
  /\ \A i, j \in 1..Len(public) : public[i] = public[j] => i = j
  /\ \A i \in 1..Len(public) :
       HasInode(public[i][1], public[i][2]) /\ inode[public[i][1]][public[i][2]].perm = "public"

\* The ways to read a blob agree: what a collection shows to a requester can be
\* fetched from it and found by its ID, and what it does not show cannot be
\* fetched from it.  get_blob and query_blob check the permission on their own.
ReadersAgree ==
  \A r \in Requesters, u \in Users, c \in Colls, b \in Blobs :
    /\ b \in get_collection(r, u, c) <=> get_blob(r, u, c, b)
    /\ b \in get_collection(r, u, c) => query_blob(r, u, b)

InSomeColl(u, b) == \E c \in Colls : InColl(u, c, b)

\* A user's blob disappears from the last of the user's collections only by an
\* unlink, or by a move of the blob into the collection it is already in;
\* never by any other move, failed or not, and never by another user's request.
BlobsConserved ==
  [][\A u \in Users, b \in Blobs :
       InSomeColl(u, b) /\ ~ InSomeColl(u, b)'
         => \E c \in Colls : unlink_blob(u, c, b) \/ move_blob(u, c, c, b)]_vars

CoverInColl(u, c) == Listed(u, c) => InColl(u, c, cover[u][c])

\* Only a move of the cover itself out of a collection can leave the collection
\* with a cover it does not contain: unlink_blob picks a new one, and link,
\* set_cover and a move into the collection never choose an absent blob.
CoverKept ==
  [][\A u \in Users, c \in Colls :
       CoverInColl(u, c) /\ ~ CoverInColl(u, c)'
         => \E dest \in Colls : move_blob(u, c, dest, cover[u][c])]_vars

\* A blob leaves the front page only when its owner stops sharing or owning it,
\* or when the list is full, the blob is the oldest entry and another one is
\* pushed: a change of permission that re-publishes a blob never evicts one.
FrontPageStable ==
  [][\A i \in list_public_blobs \ list_public_blobs' :
       \/ inode'[i[1]][i[2]] = Null
       \/ inode'[i[1]][i[2]].perm # "public"
       \/ /\ Len(public) = PublicLimit
          /\ i = Head(public)
          /\ public'[Len(public')] \notin Range(public)]_vars

\* A blob a user did not own is private to the user after the upload, whatever
\* other owners of the same blob do (on_upload passes Permission::private_()).
UploadsPrivate ==
  [][\A u \in Users, b \in Blobs :
       u \in owners'[b] /\ u \notin owners[b] => inode'[u][b].perm = "private"]_vars

\* An inode that a reference keeps for unlink_command to find loses the last one
\* only by a move from a collection to itself, which may fail or not: no other
\* sequence of moves, failed moves and unlinks leaves an inode that no unlink
\* will remove.
InodesReclaimable ==
  [][\A u \in Users, b \in Blobs :
       HasInode(u, b) /\ refs[u][b] # {} /\ HasInode(u, b)' /\ refs'[u][b] = {}
         => \E c \in Colls : move_blob(u, c, c, b) \/ move_blob_error(u, c, c, b)]_vars
=============================================================================
