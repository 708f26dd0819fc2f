# Hearty Rabbit in TLA+

Hearty Rabbit is a web server for photo albums. Blobs (photos) are files named
after their hash; everything else - who owns a blob, which collections it is in,
who may see it, who is logged in - lives in redis and is changed by Lua scripts
that the server sends over pipelined connections. These modules model what the
scripts do to the database, what concurrent requests do to each other between two
redis commands, the connections that carry commands and requests, the files, and
the command-line client that downloads a collection.

Paths are relative to the directory that holds `src/` and `tla/`; `Ownership.cc`
and friends are under `src/src/server/`.

## 1. The system

| Part | State | Operations | What makes it hard |
|---|---|---|---|
| Ownership (`hrb/Ownership.*`) | redis: blob-refs, blob-owners, inodes, collections, list of collections, list of public blobs | link, move, unlink, set permission, set cover, readers | six redundant records kept in step by scripts that are atomic but not rolled back on error |
| Collection views (`hrb/SessionHandler.cc`) | none of its own | `validate_collection` writes inodes back | reads with one command and writes with a later one |
| Authentication (`crypto/Authentication.*`) | redis: sessions with a time to live; the browser's cookie | login, verify, renew, logout | verify and renew are two commands; several requests at once; expiry; lost and reordered responses |
| Redis connection (`net/Redis.*`) | two queues of callbacks, a socket, a parser | command, on_read, disconnect | replies matched by position; callbacks that issue commands; errors in the middle |
| Redis pool (`net/Redis.*`) | idle sockets | get_sock, alloc, dealloc | stale sockets, a check outside the lock |
| HTTP session (`net/Session.*`) | parser, keep-alive, handler | read header, read body, write, close | one response per request on every path; bodies that are not read |
| Blob files and uploads (`hrb/BlobFile.cc`, `UploadFile.cc`) | files: master, meta.json, renditions | upload, load, generate rendition | a crash between two file operations; two threads at the same file |
| Sync client (`src/src/client`, `hrbsync`) | pending and outstanding requests, a directory | login, get, compare, download | slots that a failure does not give back; being killed and started again |
| URLs (`src/src/common/hrb/URLIntent.cc`, `util/Escape.cc`) | - | write, read | parsing and escaping at boundaries |
| Guests (`crypto/Authentication.ipp`) | redis: guest keys per collection | share, list, check | not modelled, see section 5 |

A request goes: HTTP session -> `verify_session` (Authentication) -> handler in
`SessionHandler` -> one `Ownership` script over the request's redis connection ->
response. Hazards are listed, with the line where each bites and the properties
about it, in `PROJECT.json`.

## 2. Modules

| Module | Models |
|---|---|
| `Ownership` | the album database and every request that changes it; one action per script |
| `CollectionView` | extends `Ownership` with the views that write inodes back later |
| `Authentication` | sessions, the requests of one browser, and its cookie |
| `CommandChannel` | abstract: each command's callback is called once, in order, with its own reply or an error |
| `RedisConnection` | `redis::Connection`, the network and redis; implements `CommandChannel` |
| `HttpSession` | HTTP sessions composed with the pool of redis sockets they share, and redis going down and coming back |
| `BlobStore` | the files of blobs, uploads and readers, with crashes, disk errors and threads |
| `SyncClient` | `hrbsync` with its scheduler of requests, run again and again in one directory |
| `URLIntent` | URL intents as operators on strings: `str`, `parse` and the escaping |
| `OwnershipProofs` | the inductive invariant of `Ownership`, that every request preserves it, and the invariants that follow |
| `OwnershipStepProofs` | the action properties of `Ownership` |
| `CollectionViewProofs`, `AuthenticationProofs`, `RedisConnectionProofs`, `HttpSessionProofs`, `BlobStoreProofs`, `SyncClientProofs` | the theorems about the modules they are named after |
| `MC*` | instances and symmetry sets for TLC |

Some definitions, mostly marked "A bug:", are variants of a definition that follows
them, with a plausible mistake. `PROJECT.json` pairs each with a property; with the
variant in place of the definition, TLC finds the property violated.

### Ownership

`refs` is `blob-refs:<user>:<blob>`, `owners` is `blob-owners:<blob>`, `inode` is
`blob-inodes:<user>`, `coll` is `coll:<user>:<collection>` (the file name of each
entry), `cover` is the list of collections with the cover of each, and `public` is
the list behind the front page. `Null` is a missing field. Redis runs a script
without interleaving, so a script is one action. A script that fails keeps what it
has written: `move_blob_error` is a move of a blob that the source does not
have. `set_permission` fails before its first write when there is no inode, so
that case changes nothing and is not an action. Which key `HKEYS` returns first is
nondeterministic. The limit of the public list (100 in the code) is the constant
`PublicLimit`. Permissions are the three of `Permission.cc`; names are opaque.
An inode's MIME type and timestamp are left out: nothing decides on them here.

### CollectionView

`GET` of a collection reads it with one script, and then, for each entry whose
timestamp is zero, sends an `HSET` with the inode it has read. `pending` holds the
`HSET`s not yet executed; every other request may run before them. They go to
the inodes of the *viewer* and carry the file name of the collection entry, as in
the code. `Undated` are the blobs whose date stays zero, because their EXIF
date is the epoch.

### Authentication

A session is `unused`, `current` (value `_user`), `renewed` (`#user`), `expired` or
`deleted`. Time is in ticks. `req[r]` follows a request through
`on_request_header`: sent, (renewing,) verified, answered. `receive` applies the
Set-Cookie that `renewed_auth` decides on, in any order across requests. `lose`
is a lost response or redis connection: the request ends without a cookie,
whether or not redis had run the command. Passwords are abstracted to "right
or wrong", and the browser keeps a cookie until it is replaced (its Max-Age equals
the session's own length). Bounds: the number of session IDs, concurrent
requests, and `MaxDelay`, the ticks a request takes at most.

### RedisConnection

`callbacks` and `queued` are `m_callbacks` and `m_queued_callbacks`; `buffer` holds the
replies `on_read` has parsed; `reads` counts the outstanding reads. `on_read` is
split where it calls a callback, because a callback may issue commands
(`command` is enabled there); otherwise a handler runs to its end, as with the
default of one thread. `transmit`, `serve` and `break` are the network and redis
(external). The model goes on where an `assert` fails, since the release build
does. `disconnect` must not be re-entered from the callbacks it calls (`Redis.hh`,
line 377); the callbacks in `src/` issue no command when they get an error.

### HttpSession

`sess[s].pc` follows a session from `accept` through the making of a handler
(`get_sock`, `connect`, `emplace`), header, verification, body, command and
response, and back to the next request. A session makes the next handler before it
drops the previous one, so it holds up to two sockets (`conn`, `next`).
`get_sock` looks whether the pool is empty without its lock, which is a step of
its own. A connection with a command outstanding outlives its handler in
`draining`. `redis_down` breaks every socket; that is noticed when one is used. A
connection attempt while redis is down throws out of the io_context and ends the
server, so all sessions end with it. `Status` has the response of each kind of
request for each outcome of its command; `Early` that of the requests which are
answered before a command is sent. A body that is not read stays before the next
request: `skewed` says that from then on responses and requests no longer
correspond. Bounds: `Descriptors`, which stops new connections, and `MaxDraining`.

### BlobStore

`master`, `meta` and `thumbnail` are the files in each blob's directory, `linked`
and `phashes` what redis has of it. Writing a file is two steps, opening (which
truncates) and writing, and any other request, a disk error or a crash may come
between. Up to `Threads` handlers are between two file operations at a time. The
ID of a blob is the sequence of its chunks, that is, the hash is injective. What
goes wrong for a reader when two threads meet at one blob, when the disk fails, or
when a crash cuts a rendition short - which nothing repairs - is in the model; the
history variable `disturbed` says where it happened, so that the properties about
readers can be stated for all other blobs.

### SyncClient

The phases are those of `hrbsync/main.cc`. `pending`, `running` and `failed` are the
requests of `RequestScheduler`: a request that fails only prints its error and keeps
its slot, and the program ends when nothing is running. `kill` may come at any time
and `login` starts the program again in the directory as it was left.

### URLIntent

Strings are sequences over the characters the code tells apart; words for actions
are one character each. `parse` and `str` follow the code's splitting and trimming.
`write`, `enter`, `read` and `forward` pass one URL between client and server.

## 3. What the runs check

Passing runs:

| Run | Instance | Shows |
|---|---|---|
| `albums` | 1 user, 3 collections, 2 blobs | entries are backed (`EntriesBacked`) and listed (`CollectionsListed`); the readers agree (`ReadersAgree`); blobs and covers are not lost (`BlobsConserved`, `CoverKept`); inodes stay within reach of an unlink (`InodesReclaimable`) |
| `front_page` | 2 users, 2 blobs, limit 2 | `PublicListSound`, `FrontPageStable`, `OwnersHaveInodes`, `UploadsPrivate`: four candidates for two places |
| `collection_view` | 2 users, 1 dated and 1 undated blob, 1 view | what late write-backs cannot break: `OwnersKeepInodes`, `OwnerPublishesDated` |
| `sessions` | 3 sessions, 2 requests, faults | `OneHeir`, `RenewedSessionsEnd`, `NoResurrection`, `NoSpuriousLogout`, `RenewalDelivered`, `LogoutEnds` |
| `pipeline` | 4 commands, faults | `ChannelSpec`: refinement of `CommandChannel`, with a transaction; the liveness property `EveryCommandAnswered` |
| `reads` | 4 commands, faults, refused commands | `OneRead`, `CleanReuse` |
| `blob_store` | 2 requests on 2 threads, 3 bodies, disk errors, crashes | `ContentAddressed`, `LinkedBlobsStored`, `UploadsAcknowledged`, `RenditionsImmutable`, `ReadsSucceed` |
| `http_session` | 2 sessions, 4 kinds of requests, redis restarts | `SocketsBounded`, `OneResponseEach`, `Acknowledged`, `FailuresPaid`; the liveness property `CommandsAnswered` |
| `sync_client` | 4 blobs, 2 with the same name, 2 slots | `PartsCounted`, `LeftOver`, `Synced`; the liveness property `RunsEnd` |
| `urls` | names of up to 3 characters, URLs with endings of up to 4 | `RoundTrip`, `ReadSeparable` |

Why the bounds are enough: three collections let a blob be in one, moving between two
others; a limit of one or two is reached and exceeded; three sessions allow a session,
its heir and the heir's heir; two requests are enough for every race between two; four
commands hold MULTI, two commands and EXEC. In `blob_store` the image begins with the
chunk that is the text, so that an upload cut short has the ID of another blob. In
`http_session` the bound on descriptors is one more than `SocketsBounded` allows, so that
the bound is not what keeps it; the four kinds of requests are those that differ in
control (no body, credentials in the body, a body received as it comes, no valid
target), and the theorem about `Acknowledged` is for all kinds. In `sync_client` two
failures take both slots while blobs are pending. In `urls` an ID has two digits
instead of 40, so that a name can be as long as, shorter and longer than an ID.

The runs of the connection and of URLs turn deadlock checking off: they stop when
the commands of the instance are used up, or the URL is read and not valid.

Fairness is assumed where something must happen by itself:

- `RedisConnection`: weak fairness of `on_read` and of the write handler (the
  io_context runs every ready handler), and of the network and redis while the link
  is up. A broken link ends the outstanding read with an error.
- `HttpSession`: weak fairness of `Work(s)`, the handlers of a session and the answers
  of redis. Clients need not send or receive anything.
- `SyncClient`: weak fairness of answers from the server (a request that fails is an
  answer too), and of the end of the program when nothing is running.

Violated properties, each stating what a test or assertion says (quoted at its
definition and in `PROJECT.json`):

| Run | What happens |
|---|---|
| `owner_publishes` | a view writes back a permission that was changed since, or that of another owner |
| `on_read_assertion` | a failed write empties the callbacks under an outstanding read, whose handler asserts that there are some |

The passing properties are stated with the exceptions the code has:

- `CoverKept` excepts a move of the cover, which leaves the source with a cover it does
  not contain.
- `BlobsConserved` and `InodesReclaimable` except a move of a blob into the collection
  it is in, which deletes the entry and the reference.
- After a failed move (`Ownership.cc:152` adds the reference before the script fails at
  line 157) the destination counts as a reference without an entry: the unlink of the
  blob's last entry then leaves its inode and its place on the front page, until it
  is also unlinked from that destination. `InodesReclaimable` says that this
  remains possible.
- `doc/DataStructure.md:14-16` gives each blob in a collection a permission of its own;
  in the code it belongs to the owner's inode (`Ownership.cc:290`) and is the same in all
  collections, and so it is in `Ownership`.
- `OwnersKeepInodes` and `OwnerPublishesDated` except the undated blobs, whose inodes a
  view may resurrect or overwrite.
- `LogoutEnds` leaves a renewed session its grace period: a logout that renews its session
  deletes the new one, and the cookie it came with stays valid until then
  (`SessionHandler.cc:108`; `testing/python/api_tests.py:316-318` expects it to be
  refused at once, which is so without a renewal).
- `NoSpuriousLogout` needs `2 * MaxDelay <= Grace`: a request with the old cookie can be
  sent until the renewing request is answered, and be verified as long after that as a
  request takes. It is proved under that hypothesis; just below it, TLC finds a
  request that logs the browser out of its renewed session for grace 3 and delay 2. The 30 seconds of
  `renew_session` are thus enough while no request takes more than 15.
- `ChannelSpec` and `EveryCommandAnswered` are checked with `TxErrors = FALSE`: with a
  command that redis refuses to queue, `on_exec_transaction` takes the error for the
  end of the transaction and drops the callbacks queued so far.
- `Acknowledged` leaves out logouts and shares, whose completions do not look at the
  error of the connection; and unlink, permission, move and upload are answered
  with success when redis has executed the script, even if the script has failed.
- `OneResponseEach` ends at a response whose request was not read to its end.
- `FailuresPaid` counts failures per socket, because a socket that redis has closed stays
  in the pool until a request has failed with it: after a restart of redis, as many
  requests fail as there were idle sockets.
- `RenditionsImmutable` and `ReadsSucceed` except what is `disturbed`, see above.
- `Synced` excepts blobs that share a name, of which the directory keeps one, and
  those already in the directory under any name, which are not downloaded again.
- `RoundTrip` holds exactly for names that can be told apart in the URL: `url_encode` does
  not escape slashes.

## 4. What is proved

Every theorem is for all values of the constants, from the assumptions on them in the
modelling modules.

`OwnershipProofs` and `OwnershipStepProofs`: the inductive invariant is the conjunction of
`TypeOK`, `EntriesCounted`, `EntriesBacked`, `OwnersHaveInodes`, `CollectionsListed` and
`PublicListSound`. `EntriesBacked` is not inductive by itself: an unlink that removes the
last reference deletes the inode, and only `EntriesCounted` says that no other collection
still has an entry. `PublicListSound` needs its clause that no item is listed twice, since
`LREM` as modelled removes one occurrence. One lemma per script shows that it preserves
the invariant. `ReadersAgree` and the action properties `UploadsPrivate`,
`BlobsConserved`, `CoverKept`, `InodesReclaimable` and `FrontPageStable` follow from it;
the last needs what `LREM`, `RPUSH` and `LPOP` together keep of a list.

`CollectionViewProofs`: the write-backs in `pending` carry whole inodes, of undated blobs
only. With that, `OwnersKeepInodes` is inductive, and `OwnerPublishesDated` follows.

`AuthenticationProofs`: for any number of sessions and concurrent requests and any lengths
with the grace period at most the session length. `OneHeir` needs `RenewedSessionsEnd` (a
session with an heir is not `current`, so `MayRenew` fails) and the fact that a fresh ID has
no heirs; `NoResurrection` follows. `LogoutEnds` needs to know what a request that has been
verified holds (`CookiesOK`). `RenewalDelivered` needs `DeliveryOK`: a session is brought to
the browser by one request, before anything is sent with it, and an heir has one parent
and has not reached a browser that still has the parent. `NoSpuriousLogout`, for
`2 * MaxDelay <= Grace`, needs `GraceOK`: a renewed session whose heir a response carries
has at least the grace period less the age of that request left, since its grace period
began after the request was sent; and once the browser has the heir, a request with the old
cookie still finds at least `MaxDelay` less its own age. So the old session does not expire
under any request that was sent with it before the heir arrived.

`RedisConnectionProofs`: `OneRead` needs that a connection whose socket was closed under its
read has told somebody, and that the callback being called is still in `m_callbacks`;
`CleanReuse` that the replies under way are no more than the callbacks that wait.
`ChannelImplemented` is the refinement: for any commands, pipelining, transactions and
failures of the link, `RedisConnection` implements `CommandChannel`, when redis queues the
commands of a transaction (`TxErrors = FALSE`, see section 3). It needs `CInv`: while the
connection is open, the replies that have arrived or are under way are those of the first
waiting callbacks, one by one, and lead from the commands that the client has queued to
those that redis has (`Matched`); while the link is up as well, the commands that redis has
still to read are those of the other callbacks, with MULTI and EXEC in turn (`Ordered`).
The states of the transaction along the replies are an existential witness in `CInv`, so
that no induction over sequences is needed. `ConnectionAssumption` says that the value for
"no command" is neither a command nor a sequence of commands.

`HttpSessionProofs`: `SocketsBounded` is not inductive, as several sessions may have found the
pool empty; the invariant counts the sockets they are about to open in advance.
`OneResponseEach` and `Acknowledged` (for every kind of request) come with what holds of each
session by itself. `FailuresPaid` counts the stale sockets of the pool, of the sessions and
of the connections that drain: one lemma per step says that they only change places or are
closed, and `FailsStale` that a step in which a request fails closes one.

`BlobStoreProofs`: `ContentAddressed`, `LinkedBlobsStored` and `UploadsAcknowledged` need
`UploadOK`: the file of an upload is the prefix of the body that was hashed, a saved
upload has its master, and the commands it no longer has to send have had their effect.
`RenditionsImmutable` and `ReadsSucceed` need `WorkOK`: a thread that is alone with the
files of a blob finds them as it left them.

`SyncClientProofs`: for any finite collection, any names of its blobs (several may share one)
and any number of slots but zero. `PartsCounted`, `LeftOver` and `Synced` need that a wanted
blob waits, runs or has failed at most once and the others are counted (`InPlace`,
`Counted`), that running and failed requests take every slot while something waits
(`SlotsUsed`), and that a blob with a name of its own that is in none of these places, and
did not go wrong, is in its file (`Arrived`).

Model-checked only: `RoundTrip` and `ReadSeparable` of `URLIntent`, whose `url_decode` and
`trim` are recursive, so that what they compute for every string takes induction over
strings, which the prover does not have; and liveness (`EveryCommandAnswered`,
`CommandsAnswered`, `RunsEnd`), which needs reasoning about fairness that it does not have
either. Every other property of the passing runs is proved.

## 5. Not modelled, and why

- Guests and share links: one command writes a key with its expiry, and one reads it and
  compares it with the clock; nothing is kept in between. What guests may see is in
  `Ownership` (`allow`), and the answers to share and list are in `HttpSession`.
- Threads inside one redis connection: with more than one thread, `m_callbacks` is changed
  without a lock. The outcomes of such a race on a `std::deque` are no states of a model.
  Threads are modelled where the code provides for them: the pool and the files.
- A mapped file that another thread truncates while it is sent: `BlobStore` has such blobs
  as `disturbed`, and ends with the mapping.
- Temporary files that stay in the upload directory when a rename fails: nobody reads them.
- `rename_blob` and the time index are reached by no request; `HRBClient::upload` and
  `scan_collections` not by `hrbsync`.
- The search for similar perceptual hashes, and the hash itself: numerical code, as is all
  image processing.
- The redirect from the HTTP port, static resources, configuration, logging: no state that
  two steps share.
- Cryptography: calls into libraries. Session IDs are fresh and hashes injective.
- The contents of pages and JSON, and the web, Qt, Android and Python user interfaces.
- The third-party headers in `src/thirdparty` (`json.hpp` and `catch.hpp`), which are
  three quarters of the lines under `src/`.
