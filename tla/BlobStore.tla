------------------------------- MODULE BlobStore -------------------------------
(***************************************************************************)
(* The files of the blobs (src/src/server/hrb/BlobFile.cc, UploadFile.cc   *)
(* and BlobDatabase.cc), the uploads that create them and the requests     *)
(* that read them.  Each blob has a directory with the master rendition,   *)
(* meta.json, and the renditions generated on demand; redis records which  *)
(* blobs are in a collection and, for images, their perceptual hashes.     *)
(*                                                                         *)
(* The file operations of a handler are separate steps: the server may     *)
(* crash between any two of them, and the other threads (there are         *)
(* Threads) interleave with them.  Writing a file is opening it, which     *)
(* truncates it, and then writing to it.  A crash ends the server and its  *)
(* requests; files and redis stay.                                         *)
(*                                                                         *)
(* A blob is a sequence of chunks, as they arrive from the client, and its *)
(* ID is the hash of them: Blake2 is taken for injective, so the ID is the *)
(* sequence of the chunks that were hashed.                                *)
(***************************************************************************)
EXTENDS Integers, Sequences, FiniteSets

CONSTANTS
  Bodies,     \* what clients upload, as sequences of chunks
  Images,     \* the blobs that are images, and that imread can read
  Requests,   \* requests in progress
  Threads,    \* threads of the io_context
  DiskErrors, \* whether the disk can fail or be full
  Null        \* no file

ASSUME StoreAssumption ==
  /\ <<>> \in Bodies
  /\ \A b \in Bodies : b \in Seq({b[i] : i \in DOMAIN b})
  /\ \A b \in Bodies : \A n \in 0 .. Len(b) : SubSeq(b, 1, n) \in Bodies
  /\ Null \notin Bodies
  /\ Threads \in Nat \ {0} /\ DiskErrors \in BOOLEAN

VARIABLES
  master,     \* ID -> the content of the file "master"
  meta,       \* ID -> meta.json: none, empty or whole
  thumbnail,  \* ID -> a rendition: none, empty, partial or whole
  linked,     \* redis: the blobs that are in a collection
  phashes,    \* redis: the blobs in the index of perceptual hashes
  req,        \* the requests
  removed,    \* the blobs that were unlinked (history)
  disturbed   \* where the disk failed, two threads met or a crash
              \* met the drawing of the rendition (history)

files == <<master, meta, thumbnail>>

redis == <<linked, phashes>>

history == <<removed, disturbed>>

vars == <<files, redis, req, history>>

-----------------------------------------------------------------------------

\* The blob a request is about: the ID of what was hashed so far, or that asked for.
Blob(r) == IF req[r].kind = "put" THEN req[r].hash ELSE req[r].body

\* A handler that is between two of its file operations has a thread.
Busy == {r \in Requests : req[r].pc \in {"deduce", "meta", "generate", "drawing", "map"}}

Idle == [pc |-> "idle", kind |-> "meta", body |-> <<>>, hash |-> <<>>, file |-> <<>>, todo |-> <<>>, res |-> 0]

Go(r, pc) == req' = [req EXCEPT ![r].pc = pc]

\* The response; the request's temporary file, if it still has one, is removed.
Answer(r, res) == req' = [req EXCEPT ![r] = [Idle EXCEPT !.pc = "answered", !.res = res]]

Disturb(b, isDisturbed) == disturbed' = IF isDisturbed THEN disturbed \union {b} ELSE disturbed

\* The handler of r starts to work at the files of blob b.
Enter(r, b) ==
  /\ Cardinality(Busy) < Threads
  /\ Disturb(b, \E q \in Busy : Blob(q) = b)

-----------------------------------------------------------------------------
(* Receiving an upload *)

\* prepare_upload creates the temporary file the body is written to.
prepare_upload(r, body) ==
  /\ req[r].pc = "idle"
  /\ \/ req' = [req EXCEPT ![r] = [Idle EXCEPT !.pc = "body", !.kind = "put", !.body = body]]
     \/ DiskErrors /\ Answer(r, 500)
  /\ UNCHANGED <<files, redis, history>>

\* A bug: an error of the file is ignored.
WriteErrorIgnored(r, chunk) == req' = [req EXCEPT ![r].hash = Append(@, chunk)]

\* The reader of the body passes the error on, and the request is answered as bad.
WriteError(r, chunk) == Answer(r, 400)

\* UploadFile::write hashes a chunk, and then writes it.
write(r) ==
  /\ req[r].pc = "body"
  /\ Len(req[r].hash) < Len(req[r].body)
  /\ LET chunk == req[r].body[Len(req[r].hash) + 1]
     IN \/ req' = [req EXCEPT ![r].hash = Append(@, chunk), ![r].file = Append(@, chunk)]
        \/ DiskErrors /\ WriteError(r, chunk)
  /\ UNCHANGED <<files, redis, history>>

\* The client goes away before the body is complete.
lose_body(r) ==
  /\ req[r].pc = "body"
  /\ req' = [req EXCEPT ![r] = Idle]
  /\ UNCHANGED <<files, redis, history>>

-----------------------------------------------------------------------------
(* Storing an upload *)

\* UploadFile::move, which may fail.
move(r) ==
  \/ /\ master' = [master EXCEPT ![req[r].hash] = req[r].file]
     /\ Go(r, "deduce")
  \/ /\ DiskErrors
     /\ req' = [req EXCEPT ![r].pc = "deduce", ![r].res = 500]
     /\ UNCHANGED master

\* on_upload and BlobDatabase::save, when the body is complete: an empty file is
\* rejected, and the file may be impossible to stat or map, or the directory to
\* create.
on_upload(r) ==
  /\ req[r].pc = "body" /\ req[r].hash = req[r].body
  /\ \/ req[r].file = <<>> /\ Answer(r, 400) /\ UNCHANGED <<master, disturbed>>
     \/ req[r].file # <<>> /\ DiskErrors /\ Answer(r, 500) /\ UNCHANGED <<master, disturbed>>
     \/ req[r].file # <<>> /\ Enter(r, req[r].hash) /\ move(r)
  /\ UNCHANGED <<meta, thumbnail, redis, removed>>

\* deduce_meta opens meta.json for writing.
deduce_meta(r) ==
  /\ req[r].pc = "deduce"
  /\ meta' = [meta EXCEPT ![Blob(r)] = "empty"]
  /\ Go(r, "meta")
  /\ UNCHANGED <<master, thumbnail, redis, history>>

\* Bugs: the blob is linked whether or not it was saved; it is linked before it
\* is indexed.
StoredAlways(r) ==
  req' = [req EXCEPT ![r].pc = "sent", ![r].todo = <<"phash", "link">>]

StoredLinkFirst(r) ==
  IF req[r].res = 500 THEN Answer(r, 500)
  ELSE req' = [req EXCEPT ![r].pc = "sent", ![r].todo = <<"link", "phash">>]

\* The rest of on_upload: if the file was saved, its perceptual hash, if it has
\* one, is sent to redis, and after it the command that links the blob.
Stored(r) ==
  IF req[r].res = 500 THEN Answer(r, 500)
  ELSE req' = [req EXCEPT ![r].pc = "sent",
                          ![r].todo = IF req[r].hash \in Images THEN <<"phash", "link">> ELSE <<"link">>]

\* A bug: the type is used before update_meta.
IsImageStale(b) == FALSE

\* is_image, after update_meta.
is_image(b) == b \in Images

\* The meta data is written, and the handler that needed it goes on.  An error is
\* not noticed.
save_meta(r) ==
  /\ req[r].pc = "meta"
  /\ \/ meta' = [meta EXCEPT ![Blob(r)] = "whole"] /\ UNCHANGED disturbed
     \/ DiskErrors /\ Disturb(Blob(r), TRUE) /\ UNCHANGED meta
  /\ \/ req[r].kind = "put" /\ Stored(r)
     \/ req[r].kind = "thumbnail" /\ Go(r, IF is_image(Blob(r)) THEN "generate" ELSE "map")
     \/ req[r].kind = "meta" /\ Go(r, "map")
  /\ UNCHANGED <<master, thumbnail, redis, removed>>

\* Redis executes the next command of an upload.
execute(r) ==
  /\ req[r].pc = "sent" /\ req[r].todo # <<>>
  /\ phashes' = IF Head(req[r].todo) = "phash" THEN phashes \union {Blob(r)} ELSE phashes
  /\ linked' = IF Head(req[r].todo) = "link" THEN linked \union {Blob(r)} ELSE linked
  /\ req' = [req EXCEPT ![r].todo = Tail(@)]
  /\ UNCHANGED <<files, history>>

\* The completion of link_blob.  When the connection to redis breaks, the upload
\* fails although redis may have executed its commands.
on_link(r) ==
  /\ req[r].pc = "sent"
  /\ \/ req[r].todo = <<>> /\ Answer(r, 201)
     \/ Answer(r, 500)
  /\ UNCHANGED <<files, redis, history>>

-----------------------------------------------------------------------------
(* Reading a blob *)

\* MMap::open(m_dir/"meta.json"); an empty file cannot be mapped.
MetaOpens(b) == meta[b] = "whole"

\* A bug: meta.json is taken for good when it exists.
ReadyIfExists(kind, b) == IF kind = "meta" THEN meta[b] # "none" ELSE thumbnail[b] # "none"

\* Whether the file need not be made: load_meta tries to map it, rendition asks
\* only whether it exists.
Ready(kind, b) == IF kind = "meta" THEN MetaOpens(b) ELSE thumbnail[b] # "none"

\* SessionHandler::get_blob, when redis has replied: without the blob (or without
\* redis) the answer is 404; otherwise rendition or load_meta begins.  is_image
\* updates the meta data first.
get_blob(r, kind, b) ==
  /\ req[r].pc = "idle"
  /\ \/ Answer(r, 404) /\ UNCHANGED disturbed
     \/ /\ b \in linked
        /\ Enter(r, b)
        /\ req' = [req EXCEPT ![r] = [Idle EXCEPT !.pc = IF Ready(kind, b) THEN "map" ELSE "deduce",
                                                  !.kind = kind, !.body = b]]
  /\ UNCHANGED <<files, redis, removed>>

\* generate_image_rendition, as far as the opening of the file in save_blob.
generate_image_rendition(r) ==
  /\ req[r].pc = "generate"
  /\ \/ /\ thumbnail' = [thumbnail EXCEPT ![Blob(r)] = "empty"]
        /\ Go(r, "drawing")
        /\ UNCHANGED disturbed
     \/ DiskErrors /\ Disturb(Blob(r), TRUE) /\ Go(r, "map") /\ UNCHANGED thumbnail
  /\ UNCHANGED <<master, meta, redis, removed>>

\* save_blob writes the file.  The error of a write that fails is cleared when
\* the file is mapped.
save_blob(r) ==
  /\ req[r].pc = "drawing"
  /\ \/ thumbnail' = [thumbnail EXCEPT ![Blob(r)] = "whole"] /\ UNCHANGED disturbed
     \/ DiskErrors /\ Disturb(Blob(r), TRUE) /\ thumbnail' = [thumbnail EXCEPT ![Blob(r)] = "partial"]
  /\ Go(r, "map")
  /\ UNCHANGED <<master, meta, redis, removed>>

\* The file is mapped for the response: the rendition, or the master if there is
\* none.
map(r) ==
  /\ req[r].pc = "map"
  /\ \/ req[r].kind = "meta" /\ Answer(r, IF MetaOpens(Blob(r)) THEN 200 ELSE 404)
     \/ req[r].kind = "thumbnail" /\ Answer(r, IF thumbnail[Blob(r)] = "empty" THEN 404 ELSE 200)
  /\ UNCHANGED <<files, redis, history>>

-----------------------------------------------------------------------------

\* DELETE removes the blob from its collection; its files stay.
unlink(b) ==
  /\ b \in linked
  /\ linked' = linked \ {b}
  /\ removed' = removed \union {b}
  /\ UNCHANGED <<files, phashes, req, disturbed>>

\* The response is sent.
finish(r) ==
  /\ req[r].pc = "answered"
  /\ req' = [req EXCEPT ![r] = Idle]
  /\ UNCHANGED <<files, redis, history>>

\* The server ends, and is started again.
Crash ==
  LET torn == {Blob(r) : r \in {q \in Requests : req[q].pc = "drawing"}}
  IN /\ req' = [r \in Requests |-> Idle]
     /\ \E drawn \in [torn -> {"empty", "partial", "whole"}] :
          thumbnail' = [b \in Bodies |-> IF b \in torn THEN drawn[b] ELSE thumbnail[b]]
     /\ disturbed' = disturbed \union torn
     /\ UNCHANGED <<master, meta, redis, removed>>

Init ==
  /\ master = [b \in Bodies |-> Null]
  /\ meta = [b \in Bodies |-> "none"]
  /\ thumbnail = [b \in Bodies |-> "none"]
  /\ linked = {} /\ phashes = {}
  /\ req = [r \in Requests |-> Idle]
  /\ removed = {} /\ disturbed = {}

Next ==
  \/ \E r \in Requests :
       \/ \E body \in Bodies : prepare_upload(r, body)
       \/ \E kind \in {"meta", "thumbnail"}, b \in Bodies : get_blob(r, kind, b)
       \/ write(r) \/ lose_body(r) \/ on_upload(r)
       \/ deduce_meta(r) \/ save_meta(r)
       \/ execute(r) \/ on_link(r)
       \/ generate_image_rendition(r) \/ save_blob(r) \/ map(r)
       \/ finish(r)
  \/ \E b \in Bodies : unlink(b)
  \/ Crash

Spec == Init /\ [][Next]_vars

-----------------------------------------------------------------------------
(* Properties *)

\* The same ID always refers to the same content (the directory a file is moved
\* to is named by the hash of what was written to it), whatever uploads run
\* together, fail or are cut off by a crash.
ContentAddressed == \A b \in Bodies : master[b] \in {b, Null}

\* A blob that a collection lists has its file, and an image is in the index of
\* perceptual hashes: redis hears of a blob after its file is in place, and the
\* commands of an upload are executed in the order they were sent.
LinkedBlobsStored == \A b \in linked : master[b] # Null /\ (b \in Images => b \in phashes)

\* A client told 201 has its whole upload stored, under the hash of what it
\* sent, and listed unless somebody removed it.
UploadsAcknowledged ==
  [][\A r \in Requests : on_link(r) /\ req'[r].res = 201 =>
       master[req[r].hash] = req[r].body /\ req[r].hash \in linked \union removed]_vars

\* Renditions are sent as immutable: where the disk worked, no two threads met
\* and no crash cut the drawing short, every response carries the same, the
\* whole rendition of an image, and the master of anything else.
RenditionsImmutable ==
  [][\A r \in Requests : map(r) /\ req[r].kind = "thumbnail" /\ Blob(r) \notin disturbed =>
       thumbnail[Blob(r)] = IF Blob(r) \in Images THEN "whole" ELSE "none"]_vars

\* A blob that redis knows is found by load_meta and rendition, unless the disk
\* failed, threads met or a rendition was cut short: a crash in the middle of
\* writing meta.json is repaired by the next reader.
ReadsSucceed ==
  [][\A r \in Requests : map(r) /\ Blob(r) \notin disturbed => req'[r].res = 200]_vars

=============================================================================
