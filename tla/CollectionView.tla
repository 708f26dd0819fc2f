---------------------------- MODULE CollectionView ----------------------------
(***************************************************************************)
(* The ownership database together with the requests that show a           *)
(* collection (GET /api/<owner>/<collection>/).  Such a request is not     *)
(* read-only: for every entry without a timestamp, validate_collection     *)
(* (src/src/server/hrb/SessionHandler.cc) sends redis an HSET of the       *)
(* inode it has just read, with the timestamp filled in.  Between the      *)
(* script that reads the collection and that HSET, redis executes commands *)
(* of other connections.                                                   *)
(***************************************************************************)
EXTENDS Ownership

CONSTANTS
  Views,      \* requests for a collection that are in progress at a time
  Undated     \* blobs whose date is the zero Timestamp: their EXIF date is the epoch

ASSUME UndatedAssumption == Undated \subseteq Blobs

VARIABLE pending   \* view -> the HSETs it has sent and redis has not executed

viewVars == <<refs, owners, inode, coll, cover, public, pending>>

\* A bug: the entries that have a timestamp are written too.
ValidateEverything(requester, u, c) ==
  {[user |-> requester.user, blob |-> b, entry |-> [perm |-> inode[u][b].perm, name |-> coll[u][c][b]]] :
      b \in get_collection(requester, u, c)}

\* The HSETs of validate_collection for the collection c of u as requester sees
\* it.  They go to the inodes of the requester (m_auth.username()), and carry
\* the file name of the collection's entry (from_reply overwrites the inode's).
validate_collection(requester, u, c) ==
  {[user  |-> requester.user,
    blob  |-> b,
    entry |-> [perm |-> inode[u][b].perm, name |-> coll[u][c][b]]] :
      b \in get_collection(requester, u, c) \intersect Undated}

\* The reply of scan_collection_command arrives: on_request_api sends the HSETs
\* and then the response.  A guest sees only what its owner shares.
view_collection(v, requester, u, c) ==
  /\ pending[v] = {}
  /\ requester.guest => requester.user = u
  /\ pending' = [pending EXCEPT ![v] = validate_collection(requester, u, c)]
  /\ UNCHANGED vars

\* Ownership::update: redis executes one of the HSETs.  That of an anonymous
\* requester goes to the key of the empty user name, which no user's operation
\* reads.
update(v) ==
  \E e \in pending[v] :
    /\ pending' = [pending EXCEPT ![v] = @ \ {e}]
    /\ inode' = IF e.user = Null THEN inode ELSE [inode EXCEPT ![e.user][e.blob] = e.entry]
    /\ UNCHANGED <<refs, owners, coll, cover, public>>

ViewInit == Init /\ pending = [v \in Views |-> {}]

ViewNext ==
  \/ Next /\ UNCHANGED pending
  \/ \E v \in Views : update(v)
  \/ \E v \in Views, requester \in Requesters, u \in Users, c \in Colls :
       view_collection(v, requester, u, c)

ViewSpec == ViewInit /\ [][ViewNext]_viewVars

-----------------------------------------------------------------------------
(* Properties *)

\* An owner always has an inode, and an inode that its user does not own was
\* written by a view: a late update can resurrect an inode, never lose one.
OwnersKeepInodes ==
  \A u \in Users, b \in Blobs :
    /\ u \in owners[b] => HasInode(u, b)
    /\ b \notin Undated /\ HasInode(u, b) => u \in owners[b]

Published(u, b) == HasInode(u, b) /\ inode[u][b].perm = "public"

\* A blob with a date becomes public by its owner's request and by nothing
\* else, however requests and views interleave.
OwnerPublishesDated ==
  [][\A u \in Users, b \in Blobs \ Undated :
       ~ Published(u, b) /\ Published(u, b)' => set_permission(u, b, "public")]_viewVars

-----------------------------------------------------------------------------
(* What comments and tests say and the interleavings of views break *)

\* api_tests.py, test_set_permission: after "owner set permission to shared",
\* "anonymous user cannot" see the blob; that is, a blob of the user's
\* collections is published (again) by the user's request only.
OwnerPublishes ==
  [][\A u \in Users, b \in Blobs :
       InSomeColl(u, b) /\ ~ Published(u, b) /\ Published(u, b)'
         => set_permission(u, b, "public")]_viewVars
=============================================================================
