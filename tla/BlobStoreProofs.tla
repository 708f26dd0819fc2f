---------------------------- MODULE BlobStoreProofs ----------------------------
(***************************************************************************)
(* Proofs about BlobStore, for any bodies, any number of requests and      *)
(* threads, and with or without disk errors and crashes.                   *)
(*                                                                         *)
(* LinkedBlobsStored is not inductive: when redis executes a link it is    *)
(* kept only because the request that sent it had stored its blob, and     *)
(* had its perceptual hash executed before.  UploadOK says so of every     *)
(* upload in progress, from the first chunk on.                            *)
(* What readers get rests on WorkOK: a thread that is alone with the files *)
(* of a blob finds them as it left them.                                   *)
(***************************************************************************)
EXTENDS BlobStore, TLAPS

\* What an upload has still to send to redis.
Todos == {<<>>, <<"link">>, <<"phash", "link">>}

\* The results of a request; 0 while there is none.
Results == {0, 200, 201, 400, 404, 500}

\* The requests.
Request ==
  [pc : {"idle", "body", "deduce", "meta", "sent", "generate", "drawing", "map", "answered"},
   kind : {"put", "meta", "thumbnail"}, body : Bodies, hash : Bodies, file : Bodies,
   todo : Todos, res : Results]

\* What holds of request q when the masters are m, the index is index, and the
\* blobs that are or were in a collection are known: the file of an upload is what
\* was hashed, which is a prefix of its body; an upload that was saved has its master
\* in place; and its commands that were executed have had their effect.
UploadOK(q, m, index, known) ==
  /\ q.pc = "body" => /\ q.kind = "put" /\ q.file = q.hash
                      /\ Len(q.hash) <= Len(q.body)
                      /\ q.hash = SubSeq(q.body, 1, Len(q.hash))
  /\ q.pc \in {"deduce", "meta"} /\ q.kind = "put" /\ q.res # 500 => m[q.hash] = q.hash /\ q.hash = q.body
  /\ q.pc = "sent" =>
       /\ q.kind = "put" /\ m[q.hash] = q.hash /\ q.hash = q.body
       /\ q.todo # <<"phash", "link">> /\ q.hash \in Images => q.hash \in index
       /\ q.todo = <<>> => q.hash \in known

\* What holds of the files and of redis.
StoreOK ==
  /\ master \in [Bodies -> Bodies \union {Null}]
  /\ linked \subseteq Bodies
  /\ ContentAddressed
  /\ LinkedBlobsStored

\* The inductive invariant.
IInv ==
  /\ StoreOK
  /\ req \in [Requests -> Request]
  /\ \A r \in Requests : UploadOK(req[r], master, phashes, linked \union removed)

\* A request at rest is a request.
LEMMA IdleType == Idle \in Request /\ Idle.pc = "idle"
<1>1. <<>> \in Bodies /\ <<>> \in Todos /\ 0 \in Results
  BY StoreAssumption DEF Todos, Results
<1> QED BY <1>1 DEF Idle, Request

\* A chunk more of a body is a longer prefix of it (UploadFile::write).
LEMMA LongerPrefix ==
  ASSUME NEW S, NEW b \in Seq(S), NEW n \in Nat, n < Len(b)
  PROVE  /\ Len(SubSeq(b, 1, n)) = n
         /\ Append(SubSeq(b, 1, n), b[n + 1]) = SubSeq(b, 1, n + 1)
         /\ Len(SubSeq(b, 1, n + 1)) = n + 1
OBVIOUS

\* An upload in progress stays sound while files and redis only gain by the work of
\* others.
LEMMA UploadsUndisturbed ==
  ASSUME NEW q \in Request, NEW m, NEW m2, NEW index, NEW index2, NEW known, NEW known2,
         UploadOK(q, m, index, known),
         \A b \in Bodies : m[b] = b => m2[b] = b,
         index \subseteq index2, known \subseteq known2
  PROVE  UploadOK(q, m2, index2, known2)
BY DEF UploadOK, Request

\* The step of a request that becomes q.
LEMMA RequestStep ==
  ASSUME IInv, NEW r \in Requests, NEW q \in Request,
         req' = [req EXCEPT ![r] = q],
         UploadOK(q, master', phashes', linked' \union removed'),
         StoreOK',
         \A b \in Bodies : master[b] = b => master'[b] = b,
         phashes \subseteq phashes', linked \union removed \subseteq linked' \union removed'
  PROVE  IInv'
<1>1. req \in [Requests -> Request] /\ req' \in [Requests -> Request]
  BY DEF IInv
<1>2. ASSUME NEW p \in Requests PROVE UploadOK(req'[p], master', phashes', linked' \union removed')
  <2>1. CASE p = r
    <3>1. req'[p] = q
      BY <1>1, <2>1
    <3> QED BY <3>1
  <2>2. CASE p # r
    <3>1. req'[p] = req[p] /\ req[p] \in Request
      BY <1>1, <2>2
    <3>2. UploadOK(req[p], master, phashes, linked \union removed)
      BY DEF IInv
    <3>3. UploadOK(req[p], master', phashes', linked' \union removed')
      BY <3>1, <3>2, UploadsUndisturbed
    <3> QED BY <3>1, <3>3
  <2> QED BY <2>1, <2>2
<1> QED BY <1>1, <1>2 DEF IInv

\* Nothing is stored, known or in progress at the start.
LEMMA InitEstablishes == Init => IInv
<1> SUFFICES ASSUME Init PROVE IInv
  OBVIOUS
<1>2. StoreOK
  BY DEF Init, StoreOK, ContentAddressed, LinkedBlobsStored
<1> QED BY <1>2, IdleType DEF Init, IInv, UploadOK

\* A request that changes neither the masters nor redis.
LEMMA QuietStep ==
  ASSUME IInv, NEW r \in Requests, NEW q \in Request,
         req' = [req EXCEPT ![r] = q], UNCHANGED <<master, linked, phashes, removed>>,
         UploadOK(q, master, phashes, linked \union removed)
  PROVE  IInv'
<1>1. StoreOK'
  BY DEF IInv, StoreOK, ContentAddressed, LinkedBlobsStored
<1> QED BY <1>1, RequestStep

\* An answer ends what is to be kept of a request.
LEMMA AnswerOK ==
  ASSUME IInv, NEW r \in Requests, NEW res \in Results, Answer(r, res),
         UNCHANGED <<master, linked, phashes, removed>>
  PROVE  IInv'
<1> DEFINE q1 == [Idle EXCEPT !.pc = "answered"]
           q == [q1 EXCEPT !.res = res]
<1>0. req' = [req EXCEPT ![r] = q]
  BY Zenon DEF Answer
<1>1. q1 \in Request /\ q1.pc = "answered"
  BY IdleType DEF Request
<1> HIDE DEF q1
<1>2. q \in Request /\ q.pc = "answered"
  BY <1>1 DEF Request
<1> HIDE DEF q
<1>3. UploadOK(q, master, phashes, linked \union removed)
  BY <1>2 DEF UploadOK
<1> QED BY <1>0, <1>2, <1>3, QuietStep

\* So does the end of a request.
LEMMA IdleOK ==
  ASSUME IInv, NEW r \in Requests, req' = [req EXCEPT ![r] = Idle],
         UNCHANGED <<master, linked, phashes, removed>>
  PROVE  IInv'
<1>1. UploadOK(Idle, master, phashes, linked \union removed)
  BY IdleType DEF UploadOK
<1> QED BY <1>1, IdleType, QuietStep

\* A request that goes on to another step of the same work.
LEMMA GoOK ==
  ASSUME IInv, NEW r \in Requests, Go(r, "meta") \/ Go(r, "generate") \/ Go(r, "drawing") \/ Go(r, "map"),
         Go(r, "meta") => req[r].pc = "deduce",
         UNCHANGED <<master, linked, phashes, removed>>
  PROVE  IInv'
<1>1. ASSUME NEW pc \in {"meta", "generate", "drawing", "map"}, Go(r, pc) PROVE IInv'
  <2> DEFINE q == [req[r] EXCEPT !.pc = pc]
  <2>0. req[r] \in Request /\ UploadOK(req[r], master, phashes, linked \union removed)
    BY DEF IInv
  <2>1. /\ q \in Request /\ q.pc = pc /\ q.kind = req[r].kind /\ q.hash = req[r].hash
        /\ q.body = req[r].body /\ q.res = req[r].res
    BY <2>0 DEF Request
  <2>2. req' = [req EXCEPT ![r] = q]
    BY <1>1 DEF Go
  <2>3. UploadOK(q, master, phashes, linked \union removed)
    BY <1>1, <2>0, <2>1 DEF UploadOK
  <2> HIDE DEF q
  <2> QED BY <2>1, <2>2, <2>3, QuietStep
<1> QED BY <1>1

\* An upload begins with an empty file, the hash of nothing.
LEMMA PrepareOK ==
  ASSUME IInv, NEW r \in Requests, NEW body \in Bodies, prepare_upload(r, body)
  PROVE  IInv'
<1> DEFINE q == [Idle EXCEPT !.pc = "body", !.kind = "put", !.body = body]
<1>0. UNCHANGED <<master, linked, phashes, removed>>
  BY DEF prepare_upload, files, redis, history
<1>1. CASE Answer(r, 500)
  BY <1>0, <1>1, AnswerOK DEF Results
<1>2. CASE req' = [req EXCEPT ![r] = q]
  <2>1. /\ q \in Request /\ q.pc = "body" /\ q.kind = "put" /\ q.file = <<>> /\ q.hash = <<>> /\ q.body = body
    <3>1. <<>> \in Bodies /\ <<>> \in Todos /\ 0 \in Results
      BY StoreAssumption DEF Todos, Results
    <3> QED BY <3>1 DEF Idle, Request
  <2>2. Len(<<>>) <= Len(body) /\ <<>> = SubSeq(body, 1, 0)
    BY StoreAssumption
  <2>3. UploadOK(q, master, phashes, linked \union removed)
    BY <2>1, <2>2 DEF UploadOK
  <2> HIDE DEF q
  <2> QED BY <1>0, <1>2, <2>1, <2>3, QuietStep
<1> QED BY <1>1, <1>2 DEF prepare_upload

\* A chunk is hashed and written, or the upload ends.
LEMMA WriteOK ==
  ASSUME IInv, NEW r \in Requests, write(r)
  PROVE  IInv'
<1> DEFINE n == Len(req[r].hash)
           body == req[r].body
           more == SubSeq(body, 1, n + 1)
           hashed == [req[r] EXCEPT !.hash = more]
           q == [hashed EXCEPT !.file = more]
<1>0. UNCHANGED <<master, linked, phashes, removed>>
  BY DEF write, files, redis, history
<1>1. /\ req[r] \in Request /\ req[r].pc = "body" /\ body \in Bodies
      /\ UploadOK(req[r], master, phashes, linked \union removed)
  <2>1. req[r] \in Request /\ UploadOK(req[r], master, phashes, linked \union removed)
    BY DEF IInv
  <2>2. req[r].pc = "body"
    BY DEF write
  <2> QED BY <2>1, <2>2 DEF Request
<1>2. /\ req[r].kind = "put" /\ req[r].file = req[r].hash /\ req[r].hash = SubSeq(body, 1, n)
  BY <1>1 DEF UploadOK
<1>3. body \in Seq({body[i] : i \in DOMAIN body})
  BY <1>1, StoreAssumption
<1>4. n \in Nat /\ n < Len(body)
  <2>1. req[r].hash \in Bodies
    BY <1>1 DEF Request
  <2>2. req[r].hash \in Seq({req[r].hash[i] : i \in DOMAIN req[r].hash})
    BY <2>1, StoreAssumption
  <2>3. n \in Nat
    BY <2>2
  <2> QED BY <2>3 DEF write
<1>5. Append(req[r].hash, body[n + 1]) = more /\ Len(more) = n + 1 /\ more \in Bodies
  BY <1>1, <1>2, <1>3, <1>4, LongerPrefix, StoreAssumption, SMTT(30)
<1>6. CASE req' = [req EXCEPT ![r].hash = Append(@, body[n + 1]), ![r].file = Append(@, body[n + 1])]
  <2>1. req' = [req EXCEPT ![r] = [req[r] EXCEPT !.hash = more, !.file = more]]
    BY <1>1, <1>2, <1>5, <1>6 DEF IInv
  <2>2. req' = [req EXCEPT ![r] = q]
    BY <2>1, Zenon
  <2> HIDE DEF more
  <2>3. /\ hashed \in Request /\ hashed.pc = "body" /\ hashed.kind = "put" /\ hashed.hash = more /\ hashed.body = body
    BY <1>1, <1>2, <1>5 DEF Request
  <2> HIDE DEF hashed
  <2>4. /\ q \in Request /\ q.pc = "body" /\ q.kind = "put" /\ q.hash = more /\ q.file = more /\ q.body = body
    BY <1>5, <2>3, SMTT(30) DEF Request
  <2> HIDE DEF q
  <2>5. UploadOK(q, master, phashes, linked \union removed)
    BY <1>3, <1>4, <1>5, <2>4 DEF UploadOK, more
  <2> QED BY <1>0, <2>2, <2>4, <2>5, QuietStep
<1>7. CASE Answer(r, 400)
  BY <1>0, <1>7, AnswerOK DEF Results
<1> QED BY <1>6, <1>7, SMTT(30) DEF write, WriteError

\* The file of a complete upload is moved to the directory of its hash, or that
\* fails.
LEMMA OnUploadOK ==
  ASSUME IInv, NEW r \in Requests, on_upload(r)
  PROVE  IInv'
<1> DEFINE moving == [req[r] EXCEPT !.pc = "deduce"]
           hash == req[r].hash
<1>0. UNCHANGED <<linked, phashes, removed>>
  BY DEF on_upload, redis
<1>1. req[r] \in Request /\ UploadOK(req[r], master, phashes, linked \union removed)
  BY DEF IInv
<1>2. req[r].pc = "body" /\ hash = req[r].body
  BY DEF on_upload
<1>3. hash \in Bodies /\ req[r].kind = "put" /\ req[r].file = hash
  BY <1>1, <1>2 DEF Request, UploadOK
<1>4. /\ moving \in Request /\ moving.pc = "deduce" /\ moving.kind = "put" /\ moving.hash = hash
      /\ moving.body = hash
  BY <1>1, <1>2, <1>3 DEF Request
<1>5. CASE Answer(r, 400) /\ UNCHANGED master
  BY <1>0, <1>5, AnswerOK DEF Results
<1>6. CASE Answer(r, 500) /\ UNCHANGED master
  BY <1>0, <1>6, AnswerOK DEF Results
<1>7. CASE master' = [master EXCEPT ![hash] = req[r].file] /\ Go(r, "deduce")
  <2>1. req' = [req EXCEPT ![r] = moving]
    BY <1>7, Zenon DEF Go
  <2> HIDE DEF moving
  <2>2. master \in [Bodies -> Bodies \union {Null}] /\ linked \subseteq Bodies /\ ContentAddressed /\ LinkedBlobsStored
    BY DEF IInv, StoreOK
  <2>3. master' \in [Bodies -> Bodies \union {Null}]
    BY <1>3, <1>7, <2>2
  <2>4. \A b \in Bodies : master'[b] = IF b = hash THEN b ELSE master[b]
    BY <1>3, <1>7, <2>2
  <2>5. ContentAddressed'
    BY <2>2, <2>4 DEF ContentAddressed
  <2>6. LinkedBlobsStored'
    BY <1>0, <2>2, <2>4, StoreAssumption DEF LinkedBlobsStored
  <2>7. StoreOK'
    BY <1>0, <2>2, <2>3, <2>5, <2>6 DEF StoreOK
  <2>8. UploadOK(moving, master', phashes', linked' \union removed')
    BY <1>3, <1>4, <2>4 DEF UploadOK
  <2> QED BY <1>0, <1>4, <2>1, <2>4, <2>7, <2>8, RequestStep
<1>8. CASE req' = [req EXCEPT ![r].pc = "deduce", ![r].res = 500] /\ UNCHANGED master
  <2> DEFINE q == [moving EXCEPT !.res = 500]
  <2>0. ASSUME NEW res PROVE [req EXCEPT ![r].pc = "deduce", ![r].res = res]
                              = [req EXCEPT ![r] = [req[r] EXCEPT !.pc = "deduce", !.res = res]]
    BY <1>1 DEF IInv
  <2>1. req' = [req EXCEPT ![r] = [req[r] EXCEPT !.pc = "deduce", !.res = 500]]
    BY <1>8, <2>0, Zenon
  <2>2. req' = [req EXCEPT ![r] = q]
    BY <2>1, Zenon
  <2> HIDE DEF moving
  <2>3. q \in Request /\ q.pc = "deduce" /\ q.res = 500
    BY <1>4 DEF Request, Results
  <2> HIDE DEF q
  <2>4. UploadOK(q, master, phashes, linked \union removed)
    BY <2>3 DEF UploadOK
  <2> QED BY <1>0, <1>8, <2>2, <2>3, <2>4, QuietStep
<1> QED BY <1>5, <1>6, <1>7, <1>8 DEF on_upload, move

\* A stored upload goes on to send its commands, the perceptual hash first.
LEMMA StoredOK ==
  ASSUME IInv, NEW r \in Requests, req[r].pc = "meta", req[r].kind = "put", Stored(r),
         UNCHANGED <<master, linked, phashes, removed>>
  PROVE  IInv'
<1> DEFINE todo == IF req[r].hash \in Images THEN <<"phash", "link">> ELSE <<"link">>
           sending == [req[r] EXCEPT !.pc = "sent"]
           q == [sending EXCEPT !.todo = todo]
<1>1. req[r] \in Request /\ UploadOK(req[r], master, phashes, linked \union removed)
  BY DEF IInv
<1>2. CASE req[r].res = 500
  BY <1>2, AnswerOK DEF Stored, Results
<1>3. CASE req[r].res # 500
  <2>1. req' = [req EXCEPT ![r].pc = "sent", ![r].todo = todo]
    BY <1>3 DEF Stored
  <2>2. req' = [req EXCEPT ![r] = [req[r] EXCEPT !.pc = "sent", !.todo = todo]]
    BY <1>1, <2>1 DEF IInv
  <2>3. req' = [req EXCEPT ![r] = q]
    BY <2>2, Zenon
  <2>4. todo \in Todos /\ todo # <<>> /\ (req[r].hash \in Images => todo = <<"phash", "link">>)
    BY DEF Todos
  <2>5. master[req[r].hash] = req[r].hash /\ req[r].hash = req[r].body
    BY <1>1, <1>3 DEF UploadOK
  <2>6. /\ sending \in Request /\ sending.pc = "sent" /\ sending.kind = "put"
        /\ sending.hash = req[r].hash /\ sending.body = req[r].body
    BY <1>1 DEF Request
  <2> HIDE DEF sending, todo
  <2>7. /\ q \in Request /\ q.pc = "sent" /\ q.kind = "put" /\ q.hash = req[r].hash /\ q.body = req[r].body
        /\ q.todo = todo
    BY <2>4, <2>6 DEF Request
  <2> HIDE DEF q
  <2>8. UploadOK(q, master, phashes, linked \union removed)
    BY <2>4, <2>5, <2>7 DEF UploadOK
  <2> QED BY <2>3, <2>7, <2>8, QuietStep
<1> QED BY <1>2, <1>3

\* Meta data is written in the course of an upload or of a request to read.
LEMMA SaveMetaOK ==
  ASSUME IInv, NEW r \in Requests, save_meta(r)
  PROVE  IInv'
<1>1. UNCHANGED <<master, linked, phashes, removed>> /\ req[r].pc = "meta"
  BY DEF save_meta, redis
<1>2. CASE req[r].kind = "put" /\ Stored(r)
  BY <1>1, <1>2, StoredOK
<1>3. CASE Go(r, "generate") \/ Go(r, "map")
  <2>1. req[r] \in Request
    BY DEF IInv
  <2>2. ~ Go(r, "meta")
    BY <1>3, <2>1 DEF Go, Request, IInv
  <2> QED BY <1>1, <1>3, <2>2, GoOK
<1> QED BY <1>2, <1>3 DEF save_meta

\* Redis indexes the hash of an upload before it links the blob, and by then the
\* master is in place.
LEMMA ExecuteOK ==
  ASSUME IInv, NEW r \in Requests, execute(r)
  PROVE  IInv'
<1> DEFINE hash == req[r].hash
           q == [req[r] EXCEPT !.todo = Tail(req[r].todo)]
<1>1. /\ req[r] \in Request /\ UploadOK(req[r], master, phashes, linked \union removed)
      /\ UNCHANGED <<master, removed>> /\ req[r].pc = "sent" /\ req[r].todo # <<>>
  BY DEF IInv, execute, files, history
<1>2. /\ req[r].kind = "put" /\ hash \in Bodies /\ master[hash] = hash /\ hash = req[r].body
      /\ (req[r].todo # <<"phash", "link">> /\ hash \in Images => hash \in phashes)
  BY <1>1 DEF UploadOK, Request
<1>3. req[r].todo = <<"link">> \/ req[r].todo = <<"phash", "link">>
  BY <1>1 DEF Request, Todos
<1>4. req' = [req EXCEPT ![r] = q]
  BY DEF execute
<1>5. StoreOK
  BY DEF IInv
<1>6. CASE req[r].todo = <<"link">>
  <2>1. Head(req[r].todo) = "link" /\ Tail(req[r].todo) = <<>>
    BY <1>6
  <2>2. linked' = linked \union {hash} /\ phashes' = phashes
    BY <1>2, <2>1 DEF execute, Blob
  <2>3. LinkedBlobsStored'
    BY <1>1, <1>2, <1>5, <1>6, <2>2, StoreAssumption DEF StoreOK, LinkedBlobsStored
  <2>4. StoreOK'
    BY <1>1, <1>2, <1>5, <2>2, <2>3 DEF StoreOK, ContentAddressed
  <2>5. <<>> \in Todos
    BY DEF Todos
  <2>6. /\ q \in Request /\ q.pc = "sent" /\ q.kind = "put" /\ q.hash = hash /\ q.body = hash
    BY <1>1, <1>2, <2>1, <2>5 DEF Request
  <2> HIDE DEF q
  <2>7. UploadOK(q, master', phashes', linked' \union removed')
    BY <1>1, <1>2, <1>6, <2>2, <2>6 DEF UploadOK
  <2> QED BY <1>1, <1>4, <2>2, <2>4, <2>6, <2>7, RequestStep
<1>7. CASE req[r].todo = <<"phash", "link">>
  <2>1. Head(req[r].todo) = "phash" /\ Tail(req[r].todo) = <<"link">>
    BY <1>7
  <2>2. linked' = linked /\ phashes' = phashes \union {hash}
    BY <1>2, <2>1 DEF execute, Blob
  <2>4. StoreOK'
    BY <1>1, <1>5, <2>2 DEF StoreOK, ContentAddressed, LinkedBlobsStored
  <2>5. <<"link">> \in Todos /\ <<"link">> # <<>>
    BY DEF Todos
  <2>6. /\ q \in Request /\ q.pc = "sent" /\ q.kind = "put" /\ q.hash = hash /\ q.body = hash
        /\ q.todo = <<"link">>
    BY <1>1, <1>2, <2>1, <2>5 DEF Request
  <2> HIDE DEF q
  <2>7. UploadOK(q, master', phashes', linked' \union removed')
    BY <1>1, <1>2, <2>2, <2>5, <2>6 DEF UploadOK
  <2> QED BY <1>1, <1>4, <2>2, <2>4, <2>6, <2>7, RequestStep
<1> QED BY <1>3, <1>6, <1>7

\* A request to read has nothing in progress that the invariant is about.
LEMMA GetBlobOK ==
  ASSUME IInv, NEW r \in Requests, NEW kind \in {"meta", "thumbnail"}, NEW b \in Bodies, get_blob(r, kind, b)
  PROVE  IInv'
<1> DEFINE pc == IF Ready(kind, b) THEN "map" ELSE "deduce"
           reading == [Idle EXCEPT !.pc = pc]
           asking == [reading EXCEPT !.kind = kind]
           q == [asking EXCEPT !.body = b]
<1>0. UNCHANGED <<master, linked, phashes, removed>>
  BY DEF get_blob, files, redis
<1>1. CASE Answer(r, 404)
  BY <1>0, <1>1, AnswerOK DEF Results
<1>2. CASE req' = [req EXCEPT ![r] = [Idle EXCEPT !.pc = IF Ready(kind, b) THEN "map" ELSE "deduce",
                                                  !.kind = kind, !.body = b]]
  <2>1. req' = [req EXCEPT ![r] = q]
    BY <1>2, Zenon
  <2>2. pc \in {"map", "deduce"}
    OBVIOUS
  <2> HIDE DEF pc
  <2>3. reading \in Request /\ reading.pc = pc
    BY <2>2, IdleType DEF Request
  <2> HIDE DEF reading
  <2>4. asking \in Request /\ asking.pc = pc /\ asking.kind = kind
    BY <2>3 DEF Request
  <2> HIDE DEF asking
  <2>5. q \in Request /\ q.pc = pc /\ q.kind = kind
    BY <2>4 DEF Request
  <2> HIDE DEF q
  <2>6. UploadOK(q, master, phashes, linked \union removed)
    BY <2>2, <2>5 DEF UploadOK
  <2> QED BY <1>0, <2>1, <2>5, <2>6, QuietStep
<1> QED BY <1>1, <1>2 DEF get_blob

\* Removing a blob from its collection leaves it among those that were known.
LEMMA UnlinkOK ==
  ASSUME IInv, NEW b \in Bodies, unlink(b)
  PROVE  IInv'
<1>1. /\ UNCHANGED <<master, phashes, req>>
      /\ linked' = linked \ {b} /\ linked \union removed \subseteq linked' \union removed'
  BY DEF unlink, files
<1>2. StoreOK'
  BY <1>1 DEF IInv, StoreOK, ContentAddressed, LinkedBlobsStored
<1>3. ASSUME NEW r \in Requests PROVE UploadOK(req[r], master', phashes', linked' \union removed')
  <2>1. req[r] \in Request /\ UploadOK(req[r], master, phashes, linked \union removed)
    BY DEF IInv
  <2> QED BY <1>1, <2>1, UploadsUndisturbed
<1> QED BY <1>1, <1>2, <1>3 DEF IInv

\* A crash leaves the masters and redis as they are, and ends every request.
LEMMA CrashOK ==
  ASSUME IInv, Crash
  PROVE  IInv'
<1>1. UNCHANGED <<master, linked, phashes, removed>> /\ req' = [r \in Requests |-> Idle]
  BY DEF Crash, redis
<1>2. StoreOK'
  BY <1>1 DEF IInv, StoreOK, ContentAddressed, LinkedBlobsStored
<1>3. ASSUME NEW r \in Requests PROVE UploadOK(Idle, master', phashes', linked' \union removed')
  BY IdleType DEF UploadOK
<1>4. req' \in [Requests -> Request] /\ \A r \in Requests : req'[r] = Idle
  BY <1>1, IdleType
<1> QED BY <1>2, <1>3, <1>4 DEF IInv

\* The requests that only read, make or map files, or end.
LEMMA OthersOK ==
  ASSUME IInv, NEW r \in Requests,
         \/ lose_body(r) \/ deduce_meta(r) \/ on_link(r) \/ generate_image_rendition(r)
         \/ save_blob(r) \/ map(r) \/ finish(r)
  PROVE  IInv'
<1>0. UNCHANGED <<master, linked, phashes, removed>>
  BY DEF lose_body, deduce_meta, on_link, generate_image_rendition, save_blob, map, finish, files, redis, history
<1>1. CASE lose_body(r) \/ finish(r)
  BY <1>0, <1>1, IdleOK DEF lose_body, finish
<1>2. CASE on_link(r)
  BY <1>0, <1>2, AnswerOK DEF on_link, Results
<1>3. CASE map(r)
  <2>1. \E res \in {200, 404} : Answer(r, res)
    BY <1>3 DEF map
  <2> QED BY <1>0, <2>1, AnswerOK DEF Results
<1>4. CASE deduce_meta(r)
  <2>1. req[r].pc = "deduce" /\ Go(r, "meta")
    BY <1>4 DEF deduce_meta
  <2> QED BY <1>0, <2>1, GoOK
<1>5. CASE generate_image_rendition(r) \/ save_blob(r)
  <2>1. Go(r, "drawing") \/ Go(r, "map")
    BY <1>5 DEF generate_image_rendition, save_blob
  <2>2. ~ Go(r, "meta")
    BY <2>1 DEF Go, IInv, Request
  <2> QED BY <1>0, <2>1, <2>2, GoOK
<1> QED BY <1>1, <1>2, <1>3, <1>4, <1>5

\* Every step preserves the invariant.
LEMMA StepOK == IInv /\ [Next]_vars => IInv'
<1> SUFFICES ASSUME IInv, [Next]_vars PROVE IInv'
  OBVIOUS
<1>1. CASE UNCHANGED vars
  <2>1. UNCHANGED <<master, linked, phashes, removed, req>>
    BY <1>1 DEF vars, files, redis, history
  <2> QED BY <2>1 DEF IInv, StoreOK, ContentAddressed, LinkedBlobsStored
<1>2. CASE \E b \in Bodies : unlink(b)
  BY <1>2, UnlinkOK
<1>3. CASE Crash
  BY <1>3, CrashOK
<1>4. ASSUME NEW r \in Requests, \E body \in Bodies : prepare_upload(r, body) PROVE IInv'
  BY <1>4, PrepareOK
<1>5. ASSUME NEW r \in Requests, \E kind \in {"meta", "thumbnail"}, b \in Bodies : get_blob(r, kind, b) PROVE IInv'
  BY <1>5, GetBlobOK
<1>6. ASSUME NEW r \in Requests, write(r) \/ on_upload(r) \/ save_meta(r) \/ execute(r) PROVE IInv'
  BY <1>6, WriteOK, OnUploadOK, SaveMetaOK, ExecuteOK
<1> QED BY <1>1, <1>2, <1>3, <1>4, <1>5, <1>6, OthersOK DEF Next

\* The invariant holds throughout.
THEOREM Invariance == Spec => []IInv
<1> QED BY InitEstablishes, StepOK, PTL DEF Spec

\* The same ID always refers to the same content: UploadFile::move names the
\* directory by the hash of what UploadFile::write wrote.
THEOREM ContentIsAddressed == Spec => []ContentAddressed
<1>1. IInv => ContentAddressed
  BY DEF IInv, StoreOK
<1> QED BY <1>1, Invariance, PTL

\* A blob that a collection lists has its master, and an image its perceptual hash:
\* on_upload sends the commands to redis after the file was moved, the hash first.
THEOREM LinksAreBacked == Spec => []LinkedBlobsStored
<1>1. IInv => LinkedBlobsStored
  BY DEF IInv, StoreOK
<1> QED BY <1>1, Invariance, PTL

\* A client is told 201 by the completion of link_blob only when its whole upload
\* is stored and was listed.
THEOREM AcknowledgedUploads == Spec => UploadsAcknowledged
<1>1. ASSUME IInv, NEW r \in Requests, on_link(r), req'[r].res = 201
      PROVE  master[req[r].hash] = req[r].body /\ req[r].hash \in linked \union removed
  <2>1. /\ req \in [Requests -> Request] /\ UploadOK(req[r], master, phashes, linked \union removed)
        /\ req[r].pc = "sent"
    BY <1>1 DEF IInv, on_link
  <2>2. ~ Answer(r, 500)
    <3>1. SUFFICES ASSUME Answer(r, 500) PROVE FALSE
      OBVIOUS
    <3>2. req'[r] = [Idle EXCEPT !.pc = "answered", !.res = 500]
      BY <2>1, <3>1 DEF Answer
    <3> QED BY <1>1, <3>2 DEF Idle
  <2>3. req[r].todo = <<>>
    BY <1>1, <2>2 DEF on_link
  <2> QED BY <2>1, <2>3 DEF UploadOK
<1>2. IInv /\ [Next]_vars =>
        [\A r \in Requests : on_link(r) /\ req'[r].res = 201 =>
           master[req[r].hash] = req[r].body /\ req[r].hash \in linked \union removed]_vars
  BY <1>1
<1> QED BY <1>2, Invariance, PTL DEF Spec, UploadsAcknowledged

-----------------------------------------------------------------------------
(* Reading *)

\* Request r is between two operations at the files of its blob.
Working(r) == req[r].pc \in {"deduce", "meta", "generate", "drawing", "map"}

\* Two requests at work on one blob have disturbed it.
Alone ==
  \A p, r \in Requests : Working(p) /\ Working(r) /\ p # r /\ Blob(p) = Blob(r) => Blob(r) \in disturbed

\* An undisturbed rendition is whole or being drawn, and only images have one.
RenditionsOK ==
  \A b \in Bodies \ disturbed :
    /\ b \notin Images => thumbnail[b] = "none"
    /\ \/ thumbnail[b] \in {"none", "whole"}
       \/ \E r \in Requests : req[r].pc = "drawing" /\ Blob(r) = b

\* A request that draws draws an image, and one that is about to map the file of an
\* undisturbed blob finds it.
FileOK(r) ==
  /\ req[r].pc \in {"generate", "drawing"} => req[r].kind = "thumbnail" /\ Blob(r) \in Images
  /\ req[r].pc = "map" /\ Blob(r) \notin disturbed =>
       /\ req[r].kind = "meta" => meta[Blob(r)] = "whole"
       /\ req[r].kind = "thumbnail" => thumbnail[Blob(r)] = IF Blob(r) \in Images THEN "whole" ELSE "none"

\* The files that are made on demand.
FileTypes ==
  /\ meta \in [Bodies -> {"none", "empty", "whole"}]
  /\ thumbnail \in [Bodies -> {"none", "empty", "partial", "whole"}]

\* What holds of the files and of the requests at work on them.
WorkOK == FileTypes /\ Alone /\ RenditionsOK /\ \A r \in Requests : FileOK(r)

\* A request has a blob.
LEMMA BlobType ==
  ASSUME IInv, NEW r \in Requests
  PROVE  Blob(r) \in Bodies
BY DEF IInv, Request, Blob

\* A step of request r that touches at most the files of blob b, which it is at
\* work on or enters, keeps the files in order.
LEMMA WorkStep ==
  ASSUME IInv, WorkOK, NEW r \in Requests, NEW b \in Bodies,
         \A p \in Requests \ {r} : req'[p] = req[p],
         disturbed \subseteq disturbed', FileTypes',
         \A x \in Bodies \ {b} : meta'[x] = meta[x] /\ thumbnail'[x] = thumbnail[x],
         UNCHANGED <<meta, thumbnail>> \/ Working(r),
         Working(r) => Blob(r) = b,
         Working(r)' => Blob(r)' = b,
         Working(r)' /\ ~ Working(r) => \A p \in Requests : Working(p) /\ Blob(p) = b => b \in disturbed',
         FileOK(r)',
         b \notin disturbed' =>
           /\ b \notin Images => thumbnail'[b] = "none"
           /\ \/ thumbnail'[b] \in {"none", "whole"}
              \/ req'[r].pc = "drawing"
              \/ UNCHANGED thumbnail /\ req[r].pc # "drawing"
  PROVE  WorkOK'
<1>1. \A p \in Requests \ {r} : /\ Working(p)' <=> Working(p)
                                /\ Blob(p)' = Blob(p)
  BY DEF Working, Blob
<1>2. Alone'
  <2> SUFFICES ASSUME NEW p \in Requests, NEW o \in Requests, Working(p)', Working(o)', p # o, Blob(p)' = Blob(o)'
               PROVE  Blob(o)' \in disturbed'
    BY DEF Alone
  <2>1. ASSUME NEW q \in Requests \ {r}, Working(q), Blob(q) = b, Working(r)' PROVE b \in disturbed'
    BY <2>1 DEF WorkOK, Alone
  <2>2. CASE p # r /\ o # r
    BY <1>1, <2>2 DEF WorkOK, Alone
  <2>3. CASE p = r \/ o = r
    BY <1>1, <2>1, <2>3
  <2> QED BY <2>2, <2>3
<1>3. RenditionsOK'
  <2> SUFFICES ASSUME NEW x \in Bodies \ disturbed'
               PROVE  /\ x \notin Images => thumbnail'[x] = "none"
                      /\ \/ thumbnail'[x] \in {"none", "whole"}
                         \/ \E q \in Requests : req'[q].pc = "drawing" /\ Blob(q)' = x
    BY DEF RenditionsOK
  <2>0. /\ x \notin Images => thumbnail[x] = "none"
        /\ \/ thumbnail[x] \in {"none", "whole"}
           \/ \E q \in Requests : req[q].pc = "drawing" /\ Blob(q) = x
    BY DEF WorkOK, RenditionsOK
  <2>1. ASSUME NEW q \in Requests \ {r}, req[q].pc = "drawing", Blob(q) = x
        PROVE  req'[q].pc = "drawing" /\ Blob(q)' = x
    BY <1>1, <2>1
  <2>2. CASE x # b
    <3>1. thumbnail'[x] = thumbnail[x] /\ (req[r].pc = "drawing" => Blob(r) # x)
      BY <2>2 DEF Working
    <3> QED BY <2>0, <2>1, <3>1
  <2>3. CASE x = b
    <3>1. req'[r].pc = "drawing" => Blob(r)' = b
      BY DEF Working
    <3> QED BY <2>0, <2>1, <2>3, <3>1
  <2> QED BY <2>2, <2>3
<1>4. ASSUME NEW p \in Requests PROVE FileOK(p)'
  <2>1. CASE p # r
    <3>1. req'[p] = req[p] /\ Blob(p)' = Blob(p) /\ Blob(p) \in Bodies /\ FileOK(p)
      BY <1>1, <2>1, BlobType DEF WorkOK
    <3>2. ASSUME req[p].pc = "map", Blob(p) \notin disturbed'
          PROVE  meta'[Blob(p)] = meta[Blob(p)] /\ thumbnail'[Blob(p)] = thumbnail[Blob(p)]
      <4>1. Working(p) /\ Blob(p) \notin disturbed
        BY <3>2 DEF Working
      <4>2. Working(r) => Blob(p) # b
        BY <2>1, <4>1 DEF WorkOK, Alone
      <4> QED BY <3>1, <4>2
    <3> QED BY <3>1, <3>2 DEF FileOK
  <2> QED BY <2>1
<1> QED BY <1>2, <1>3, <1>4 DEF WorkOK

\* A step of a request that is not at work on files.
LEMMA IdleWork ==
  ASSUME IInv, WorkOK, NEW r \in Requests, \A p \in Requests \ {r} : req'[p] = req[p],
         UNCHANGED <<meta, thumbnail, disturbed>>, ~ Working(r), ~ Working(r)'
  PROVE  WorkOK'
<1>1. <<>> \in Bodies
  BY StoreAssumption
<1>2. FileOK(r)'
  BY DEF FileOK, Working
<1>3. req[r].pc # "drawing" /\ (<<>> \notin disturbed /\ <<>> \notin Images => thumbnail[<<>>] = "none")
  BY <1>1 DEF Working, WorkOK, RenditionsOK
<1>4. FileTypes'
  BY DEF WorkOK, FileTypes
<1> QED BY <1>1, <1>2, <1>3, <1>4, WorkStep

\* How a request goes on.
LEMMA AfterGo ==
  ASSUME IInv, NEW r \in Requests, NEW pc, Go(r, pc)
  PROVE  /\ req'[r].pc = pc /\ req'[r].kind = req[r].kind /\ Blob(r)' = Blob(r)
         /\ \A p \in Requests \ {r} : req'[p] = req[p]
<1>1. req \in [Requests -> Request] /\ req[r] \in Request
  BY DEF IInv
<1>2. req'[r] = [req[r] EXCEPT !.pc = pc] /\ \A p \in Requests \ {r} : req'[p] = req[p]
  BY <1>1 DEF Go
<1> QED BY <1>1, <1>2 DEF Request, Blob

\* How it is answered.
LEMMA AfterAnswer ==
  ASSUME IInv, NEW r \in Requests, NEW res, Answer(r, res)
  PROVE  /\ req'[r].pc = "answered" /\ req'[r].res = res
         /\ \A p \in Requests \ {r} : req'[p] = req[p]
BY DEF IInv, Answer, Idle

\* A step of a request at work on the files of a blob, which it leaves for the next
\* or for the answer.
LEMMA BusyWork ==
  ASSUME IInv, WorkOK, NEW r \in Requests, Working(r),
         \A p \in Requests \ {r} : req'[p] = req[p],
         Working(r)' => Blob(r)' = Blob(r),
         disturbed \subseteq disturbed', FileTypes',
         \A x \in Bodies \ {Blob(r)} : meta'[x] = meta[x] /\ thumbnail'[x] = thumbnail[x],
         FileOK(r)',
         Blob(r) \notin disturbed' =>
           \/ UNCHANGED thumbnail /\ req[r].pc # "drawing"
           \/ Blob(r) \in Images /\ (thumbnail'[Blob(r)] = "whole" \/ req'[r].pc = "drawing")
  PROVE  WorkOK'
<1>1. PICK b \in Bodies : b = Blob(r)
  BY BlobType
<1>2. b \notin disturbed' =>
           /\ b \notin Images => thumbnail'[b] = "none"
           /\ \/ thumbnail'[b] \in {"none", "whole"}
              \/ req'[r].pc = "drawing"
              \/ UNCHANGED thumbnail /\ req[r].pc # "drawing"
  BY <1>1 DEF WorkOK, RenditionsOK
<1> QED BY <1>1, <1>2, WorkStep

\* An upload's steps.
LEMMA UploadWork ==
  ASSUME IInv, WorkOK, NEW r \in Requests,
         (\E body \in Bodies : prepare_upload(r, body)) \/ write(r) \/ lose_body(r) \/ execute(r) \/ on_link(r)
  PROVE  WorkOK'
<1>0. UNCHANGED <<meta, thumbnail, disturbed>>
  BY ZenonT(30) DEF prepare_upload, write, lose_body, execute, on_link, files, redis, history
<1>1. ~ Working(r)
  BY DEF prepare_upload, write, lose_body, execute, on_link, Working
<1>2. \A p \in Requests \ {r} : req'[p] = req[p]
  BY ZenonT(30) DEF IInv, prepare_upload, write, WriteError, lose_body, execute, on_link, Answer
<1>3. req[r] \in Request /\ req \in [Requests -> Request]
  BY DEF IInv
<1>4. req'[r].pc \in {req[r].pc, "body", "idle", "answered"}
  <2>1. CASE \E body \in Bodies : prepare_upload(r, body)
    BY <1>3, <2>1, AfterAnswer, ZenonT(30) DEF prepare_upload, Idle
  <2>2. CASE write(r)
    BY <1>3, <2>2, AfterAnswer DEF write, WriteError, Request
  <2>3. CASE lose_body(r)
    BY <1>3, <2>3 DEF lose_body, Idle
  <2>4. CASE execute(r)
    BY <1>3, <2>4 DEF execute, Request
  <2>5. CASE on_link(r)
    BY <2>5, AfterAnswer DEF on_link
  <2> QED BY <2>1, <2>2, <2>3, <2>4, <2>5
<1>5. ~ Working(r)'
  BY <1>1, <1>4 DEF Working
<1> QED BY <1>0, <1>1, <1>2, <1>5, IdleWork, SMTT(30)

\* The steps that write meta.json.
LEMMA MetaWork ==
  ASSUME IInv, WorkOK, NEW r \in Requests, deduce_meta(r) \/ save_meta(r)
  PROVE  WorkOK'
<1>0. /\ Working(r) /\ req[r].pc # "drawing" /\ thumbnail' = thumbnail /\ Blob(r) \in Bodies
      /\ FileTypes /\ disturbed \subseteq disturbed'
  BY BlobType DEF deduce_meta, save_meta, Working, WorkOK, Disturb, history
<1>1. \/ meta' = meta \/ meta' = [meta EXCEPT ![Blob(r)] = "empty"] \/ meta' = [meta EXCEPT ![Blob(r)] = "whole"]
  BY DEF deduce_meta, save_meta
<1>2. FileTypes' /\ \A x \in Bodies \ {Blob(r)} : meta'[x] = meta[x]
  BY <1>0, <1>1 DEF FileTypes
<1>3. CASE deduce_meta(r)
  <2>1. Go(r, "meta")
    BY <1>3 DEF deduce_meta
  <2>2. FileOK(r)'
    BY <2>1, AfterGo DEF FileOK
  <2> QED BY <1>0, <1>2, <2>1, <2>2, AfterGo, BusyWork
<1>4. CASE save_meta(r) /\ req[r].kind = "put"
  <2>1. Stored(r)
    BY <1>4 DEF save_meta
  <2>2. req'[r].pc \in {"answered", "sent"} /\ \A p \in Requests \ {r} : req'[p] = req[p]
    <3>1. req \in [Requests -> Request] /\ req[r] \in Request
      BY DEF IInv
    <3>2. CASE Answer(r, 500)
      BY <3>2, AfterAnswer
    <3>3. ASSUME NEW todo, req' = [req EXCEPT ![r].pc = "sent", ![r].todo = todo]
          PROVE  req'[r].pc = "sent" /\ \A p \in Requests \ {r} : req'[p] = req[p]
      BY <3>1, <3>3 DEF Request
    <3> QED BY <2>1, <3>2, <3>3 DEF Stored
  <2>3. ~ Working(r)' /\ FileOK(r)'
    BY <2>2 DEF Working, FileOK
  <2> QED BY <1>0, <1>2, <2>2, <2>3, BusyWork
<1>5. CASE save_meta(r) /\ req[r].kind # "put"
  <2>1. \/ Blob(r) \in disturbed'
        \/ meta' = [meta EXCEPT ![Blob(r)] = "whole"]
    BY <1>5 DEF save_meta, Disturb
  <2>2. meta'[Blob(r)] = "whole" \/ Blob(r) \in disturbed'
    BY <1>0, <2>1 DEF FileTypes
  <2>3. \/ req[r].kind = "meta" /\ Go(r, "map")
        \/ req[r].kind = "thumbnail" /\ Blob(r) \in Images /\ Go(r, "generate")
        \/ req[r].kind = "thumbnail" /\ Blob(r) \notin Images /\ Go(r, "map")
    BY <1>5 DEF save_meta, is_image
  <2>4. Blob(r) \notin Images /\ Blob(r) \notin disturbed' => thumbnail'[Blob(r)] = "none"
    BY <1>0 DEF WorkOK, RenditionsOK
  <2>5. /\ req'[r].kind = req[r].kind /\ Blob(r)' = Blob(r) /\ \A p \in Requests \ {r} : req'[p] = req[p]
        /\ \/ req[r].kind = "meta" /\ req'[r].pc = "map"
           \/ req[r].kind = "thumbnail" /\ Blob(r) \in Images /\ req'[r].pc = "generate"
           \/ req[r].kind = "thumbnail" /\ Blob(r) \notin Images /\ req'[r].pc = "map"
    BY <2>3, AfterGo
  <2>6. FileOK(r)'
    BY <2>2, <2>4, <2>5 DEF FileOK
  <2> QED BY <1>0, <1>2, <2>5, <2>6, BusyWork
<1> QED BY <1>3, <1>4, <1>5

\* The steps that make a rendition, and the response.
LEMMA RenditionWork ==
  ASSUME IInv, WorkOK, NEW r \in Requests, generate_image_rendition(r) \/ save_blob(r) \/ map(r)
  PROVE  WorkOK'
<1>0. /\ Working(r) /\ meta' = meta /\ Blob(r) \in Bodies
      /\ FileTypes /\ FileOK(r) /\ disturbed \subseteq disturbed'
  BY BlobType DEF generate_image_rendition, save_blob, map, Working, WorkOK, Disturb, history, files
<1>1. CASE map(r)
  <2>1. UNCHANGED <<meta, thumbnail>> /\ req[r].pc = "map" /\ \E res \in {200, 404} : Answer(r, res)
    BY <1>1 DEF map, files
  <2>2. req'[r].pc = "answered" /\ \A p \in Requests \ {r} : req'[p] = req[p]
    BY <2>1, AfterAnswer
  <2>3. ~ Working(r)' /\ FileOK(r)'
    BY <2>2 DEF Working, FileOK
  <2> QED BY <1>0, <2>1, <2>2, <2>3, BusyWork DEF FileTypes
<1>2. CASE generate_image_rendition(r)
  <2>0. req[r].pc = "generate" /\ req[r].kind = "thumbnail" /\ Blob(r) \in Images
    BY <1>0, <1>2 DEF generate_image_rendition, FileOK
  <2>1. CASE thumbnail' = [thumbnail EXCEPT ![Blob(r)] = "empty"] /\ Go(r, "drawing")
    <3>1. req'[r].pc = "drawing" /\ FileOK(r)'
      BY <2>0, <2>1, AfterGo DEF FileOK
    <3>2. FileTypes' /\ \A x \in Bodies \ {Blob(r)} : thumbnail'[x] = thumbnail[x]
      BY <1>0, <2>1, SMTT(30) DEF FileTypes
    <3> QED BY <1>0, <2>0, <2>1, <3>1, <3>2, AfterGo, BusyWork
  <2>2. CASE Disturb(Blob(r), TRUE) /\ Go(r, "map") /\ UNCHANGED thumbnail
    <3>1. Blob(r) \in disturbed' /\ FileTypes'
      BY <1>0, <2>2, SMTT(30) DEF Disturb, FileTypes
    <3>2. FileOK(r)'
      BY <2>2, <3>1, AfterGo DEF FileOK
    <3> QED BY <1>0, <2>2, <3>1, <3>2, AfterGo, BusyWork
  <2> QED BY <1>2, <2>1, <2>2 DEF generate_image_rendition
<1>3. CASE save_blob(r)
  <2>0. req[r].pc = "drawing" /\ req[r].kind = "thumbnail" /\ Blob(r) \in Images /\ Go(r, "map")
    BY <1>0, <1>3 DEF save_blob, FileOK
  <2>1. \/ thumbnail' = [thumbnail EXCEPT ![Blob(r)] = "whole"]
        \/ Blob(r) \in disturbed' /\ thumbnail' = [thumbnail EXCEPT ![Blob(r)] = "partial"]
    BY <1>3 DEF save_blob, Disturb
  <2>2. /\ FileTypes' /\ \A x \in Bodies \ {Blob(r)} : thumbnail'[x] = thumbnail[x]
        /\ Blob(r) \in disturbed' \/ thumbnail'[Blob(r)] = "whole"
    BY <1>0, <2>1, SMTT(30) DEF FileTypes
  <2>3. FileOK(r)'
    BY <2>0, <2>2, AfterGo DEF FileOK
  <2> QED BY <1>0, <2>0, <2>2, <2>3, AfterGo, BusyWork
<1> QED BY <1>1, <1>2, <1>3

\* A request begins to work on the files of blob b.  If somebody else does, the blob
\* is disturbed.
LEMMA EnterWork ==
  ASSUME IInv, WorkOK, NEW r \in Requests, NEW b \in Bodies, ~ Working(r), Enter(r, b),
         \A p \in Requests \ {r} : req'[p] = req[p], Blob(r)' = b,
         UNCHANGED <<meta, thumbnail>>, FileOK(r)'
  PROVE  WorkOK'
<1>1. disturbed \subseteq disturbed' /\ \A p \in Requests : Working(p) /\ Blob(p) = b => b \in disturbed'
  BY DEF Enter, Disturb, Busy, Working
<1>2. FileTypes' /\ req[r].pc # "drawing"
  BY DEF WorkOK, FileTypes, Working
<1>3. b \notin disturbed' /\ b \notin Images => thumbnail'[b] = "none"
  BY <1>1 DEF WorkOK, RenditionsOK
<1> QED BY <1>1, <1>2, <1>3, WorkStep

\* An upload is moved into place.
LEMMA OnUploadWork ==
  ASSUME IInv, WorkOK, NEW r \in Requests, on_upload(r)
  PROVE  WorkOK'
<1>0. /\ UNCHANGED <<meta, thumbnail>> /\ ~ Working(r) /\ req[r] \in Request /\ req \in [Requests -> Request]
      /\ req[r].kind = "put" /\ req[r].hash \in Bodies
  BY DEF on_upload, Working, IInv, UploadOK, Request
<1>1. CASE UNCHANGED disturbed /\ (Answer(r, 400) \/ Answer(r, 500))
  <2>1. req'[r].pc = "answered" /\ \A p \in Requests \ {r} : req'[p] = req[p]
    BY <1>1, AfterAnswer
  <2>2. ~ Working(r)'
    BY <2>1 DEF Working
  <2> QED BY <1>0, <1>1, <2>1, <2>2, IdleWork
<1>2. CASE Enter(r, req[r].hash) /\ move(r)
  <2>1. ASSUME NEW res, req' = [req EXCEPT ![r].pc = "deduce", ![r].res = res]
        PROVE  req'[r].pc = "deduce" /\ Blob(r)' = req[r].hash /\ \A p \in Requests \ {r} : req'[p] = req[p]
    BY <1>0, <2>1 DEF Request, Blob
  <2>2. ASSUME Go(r, "deduce")
        PROVE  req'[r].pc = "deduce" /\ Blob(r)' = req[r].hash /\ \A p \in Requests \ {r} : req'[p] = req[p]
    BY <1>0, <2>2, AfterGo DEF Blob
  <2>3. req'[r].pc = "deduce" /\ Blob(r)' = req[r].hash /\ \A p \in Requests \ {r} : req'[p] = req[p]
    BY <1>2, <2>1, <2>2 DEF move
  <2>4. FileOK(r)'
    BY <2>3 DEF FileOK
  <2> QED BY <1>0, <1>2, <2>3, <2>4, EnterWork
<1> QED BY <1>1, <1>2, SMTT(30) DEF on_upload

\* A blob is asked for.  What is there is whole, unless somebody is drawing it.
LEMMA GetBlobWork ==
  ASSUME IInv, WorkOK, NEW r \in Requests, NEW kind \in {"meta", "thumbnail"}, NEW b \in Bodies, get_blob(r, kind, b)
  PROVE  WorkOK'
<1>0. UNCHANGED <<meta, thumbnail>> /\ ~ Working(r) /\ req \in [Requests -> Request]
  BY DEF get_blob, Working, IInv, files
<1>1. CASE Answer(r, 404) /\ UNCHANGED disturbed
  <2>1. req'[r].pc = "answered" /\ \A p \in Requests \ {r} : req'[p] = req[p]
    BY <1>1, AfterAnswer
  <2>2. ~ Working(r)'
    BY <2>1 DEF Working
  <2> QED BY <1>0, <1>1, <2>1, <2>2, IdleWork
<1>2. CASE /\ Enter(r, b)
           /\ req' = [req EXCEPT ![r] = [Idle EXCEPT !.pc = IF Ready(kind, b) THEN "map" ELSE "deduce",
                                                     !.kind = kind, !.body = b]]
  <2>1. /\ req'[r].pc = IF Ready(kind, b) THEN "map" ELSE "deduce"
        /\ req'[r].kind = kind /\ req'[r].body = b /\ \A p \in Requests \ {r} : req'[p] = req[p]
    BY <1>0, <1>2 DEF Idle
  <2>2. Blob(r)' = b
    BY <2>1 DEF Blob
  <2>3. disturbed \subseteq disturbed' /\ \A p \in Requests : Working(p) /\ Blob(p) = b => b \in disturbed'
    BY <1>2 DEF Enter, Disturb, Busy, Working
  <2>4. ASSUME kind = "thumbnail", thumbnail[b] # "none", b \notin disturbed'
        PROVE  thumbnail[b] = "whole" /\ b \in Images
    <3>1. \A p \in Requests : ~ (req[p].pc = "drawing" /\ Blob(p) = b)
      BY <2>3, <2>4 DEF Working
    <3> QED BY <2>3, <2>4, <3>1 DEF WorkOK, RenditionsOK
  <2>5. FileOK(r)'
    BY <1>0, <2>1, <2>2, <2>4 DEF FileOK, Ready, MetaOpens
  <2> QED BY <1>0, <1>2, <2>1, <2>2, <2>5, EnterWork
<1> QED BY <1>1, <1>2 DEF get_blob

\* A crash ends the work, and disturbs the renditions that were being drawn.
LEMMA CrashWork ==
  ASSUME IInv, WorkOK, Crash
  PROVE  WorkOK'
<1> DEFINE torn == {Blob(r) : r \in {q \in Requests : req[q].pc = "drawing"}}
<1>1. /\ \A r \in Requests : req'[r].pc = "idle"
      /\ meta' = meta /\ disturbed' = disturbed \union torn
  BY DEF Crash, Idle
<1>2. PICK drawn \in [torn -> {"empty", "partial", "whole"}] :
        thumbnail' = [b \in Bodies |-> IF b \in torn THEN drawn[b] ELSE thumbnail[b]]
  BY DEF Crash
<1>3. \A b \in Bodies \ torn : thumbnail'[b] = thumbnail[b]
  BY <1>2
<1>4. \A r \in Requests : req[r].pc = "drawing" => Blob(r) \in torn
  OBVIOUS
<1> HIDE DEF torn
<1>5. FileTypes'
  BY <1>1, <1>2 DEF WorkOK, FileTypes
<1>6. RenditionsOK'
  BY <1>1, <1>3, <1>4 DEF WorkOK, RenditionsOK
<1>7. Alone' /\ \A r \in Requests : FileOK(r)'
  BY <1>1 DEF Alone, Working, FileOK
<1> QED BY <1>5, <1>6, <1>7 DEF WorkOK

\* The files are in order in every reachable state.
THEOREM FilesInOrder == Spec => []WorkOK
<1>1. Init => WorkOK
  BY DEF Init, WorkOK, FileTypes, Alone, RenditionsOK, FileOK, Working, Idle
<1>2. IInv /\ WorkOK /\ [Next]_vars => WorkOK'
  <2> SUFFICES ASSUME IInv, WorkOK, [Next]_vars PROVE WorkOK'
    BY SMTT(30)
  <2>1. CASE UNCHANGED <<meta, thumbnail, disturbed, req>>
    BY <2>1 DEF WorkOK, FileTypes, Alone, RenditionsOK, FileOK, Working, Blob
  <2>2. CASE UNCHANGED vars
    BY <2>1, <2>2 DEF vars, files, history
  <2>3. CASE \E b \in Bodies : unlink(b)
    BY <2>1, <2>3 DEF unlink, files
  <2>4. ASSUME NEW r \in Requests, finish(r) PROVE WorkOK'
    <3>1. /\ UNCHANGED <<meta, thumbnail, disturbed>> /\ ~ Working(r)
          /\ req'[r].pc = "idle" /\ \A p \in Requests \ {r} : req'[p] = req[p]
      BY <2>4 DEF finish, files, history, Working, IInv, Idle
    <3>2. ~ Working(r)'
      BY <3>1 DEF Working
    <3> QED BY <3>1, <3>2, IdleWork
  <2> QED BY <2>2, <2>3, <2>4, UploadWork, MetaWork, RenditionWork, OnUploadWork, GetBlobWork, CrashWork DEF Next
<1> QED BY <1>1, <1>2, Invariance, PTL DEF Spec

\* Every response with a rendition carries the same, whole one.
THEOREM RenditionsAreImmutable == Spec => RenditionsImmutable
<1>1. IInv /\ WorkOK =>
        \A r \in Requests : map(r) /\ req[r].kind = "thumbnail" /\ Blob(r) \notin disturbed =>
          thumbnail[Blob(r)] = IF Blob(r) \in Images THEN "whole" ELSE "none"
  BY DEF WorkOK, FileOK, map
<1> QED BY <1>1, Invariance, FilesInOrder, PTL DEF RenditionsImmutable

\* A blob that redis knows is found, also after a crash in the middle of meta.json.
THEOREM ReadsAlwaysSucceed == Spec => ReadsSucceed
<1>1. IInv /\ WorkOK =>
        \A r \in Requests : map(r) /\ Blob(r) \notin disturbed => req'[r].res = 200
  <2> SUFFICES ASSUME IInv, WorkOK, NEW r \in Requests, map(r), Blob(r) \notin disturbed
               PROVE  req'[r].res = 200
    BY SMTT(30)
  <2>1. FileOK(r) /\ req[r].pc = "map"
    BY DEF WorkOK, map
  <2>2. Answer(r, 200)
    BY <2>1 DEF map, MetaOpens, FileOK
  <2> QED BY <2>2, AfterAnswer
<1> QED BY <1>1, Invariance, FilesInOrder, PTL DEF ReadsSucceed
=============================================================================
