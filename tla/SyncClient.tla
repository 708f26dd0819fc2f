------------------------------- MODULE SyncClient -------------------------------
(***************************************************************************)
(* hrbsync, which downloads what is missing of a collection into a         *)
(* directory (src/src/client/hrbsync, client/http and common/util/         *)
(* AggregatedCallBack.hh).  It logs in, gets the collection, compares it   *)
(* with the directory, and starts one request for each missing blob, of    *)
(* which the scheduler runs Limit at a time.                               *)
(*                                                                         *)
(* A request that fails to connect, send or receive only prints the error: *)
(* its completion is not called, so its slot is not given back.  The       *)
(* program ends when the io_context has nothing more to wait for, and can  *)
(* be killed at any time; then it is started again.                        *)
(*                                                                         *)
(* A file holds the content of a blob, is empty, or has other content      *)
(* ("other": a part of a blob, a mixture of two, the text of an error, or  *)
(* a file of the user).  The content of a blob is known by its hash.       *)
(***************************************************************************)
EXTENDS Integers, Sequences, FiniteSets, SequencesExt

CONSTANTS
  Blobs,   \* the blobs of the collection on the server
  Names,   \* file names
  Name,    \* the name of each blob in the collection
  Limit    \* how many requests run at a time

ASSUME SyncAssumption ==
  /\ IsFiniteSet(Blobs) /\ Name \in [Blobs -> Names]
  /\ Blobs \intersect {"login", "list"} = {}
  /\ Limit \in Nat \ {0}

VARIABLES
  disk,     \* name -> the file of this name in the directory
  phase,    \* what the program is doing
  pending,  \* RequestScheduler::m_pending
  running,  \* the outstanding requests that go on
  failed,   \* the outstanding requests whose connection has failed
  local,    \* the blobs that were in the directory when the program was started
  wanted,   \* CollectionComparison::download
  count,    \* AggregatedCallBack::m_count
  reported, \* how often the callback of download_collection was called
  faults    \* the blobs whose download went wrong in this run (history)

vars == <<disk, phase, pending, running, failed, local, wanted, count, reported, faults>>

Contents == Blobs \union {"none", "empty", "other"}

-----------------------------------------------------------------------------
(* RequestScheduler *)

\* A bug: one slot is never used.
RoomTooLittle(n) == IF n + 1 < Limit THEN Limit - n - 1 ELSE 0

\* The slots that are free when n are taken.
Room(n) == IF n < Limit THEN Limit - n ELSE 0

\* try_start, with the requests that wait, those that run and those that only keep
\* their slot.
try_start(waiting, going, stuck) ==
  LET n == Room(Cardinality(going) + Cardinality(stuck))
      first == SubSeq(waiting, 1, IF n < Len(waiting) THEN n ELSE Len(waiting))
  IN /\ running' = going \union Range(first)
     /\ pending' = SubSeq(waiting, Len(first) + 1, Len(waiting))

-----------------------------------------------------------------------------
(* hrbsync *)

\* main reads the directory (an empty file cannot be mapped, and is left out) and
\* logs in.
login ==
  /\ phase = "ended"
  /\ phase' = "login"
  /\ local' = {disk[n] : n \in Names} \intersect Blobs
  /\ try_start(<<"login">>, {}, {})
  /\ failed' = {} /\ wanted' = {} /\ count' = 0 /\ reported' = 0 /\ faults' = {}
  /\ UNCHANGED disk

\* The collection is asked for whether or not the login has succeeded.
get_collection ==
  /\ phase = "login" /\ "login" \in running
  /\ phase' = "list"
  /\ try_start(<<"list">>, {}, failed)
  /\ UNCHANGED <<disk, failed, local, wanted, count, reported, faults>>

\* A bug: a file with the name of the blob is taken for it.
MissingByName == {b \in Blobs : disk[Name[b]] = "none"}

\* CollectionComparison: set_difference of the ids.
Missing == Blobs \ local

\* A bug: the callback is called one part early.
LastPartEarly(n, expected) == n + 1 = expected

\* AggregatedCallBack: ++m_count == m_expected_count
LastPart(n, expected) == n = expected

\* The collection has come: download_collection opens all the files, and reports
\* those that cannot be opened; the others are requested.
download_collection ==
  /\ phase = "list" /\ "list" \in running
  /\ phase' = "download"
  /\ wanted' = Missing
  /\ \E closed \in SUBSET Missing :
       /\ disk' = [n \in Names |-> IF \E b \in Missing \ closed : Name[b] = n THEN "empty" ELSE disk[n]]
       /\ try_start(SetToSeq(Missing \ closed), {}, failed)
       /\ count' = Cardinality(closed)
       /\ reported' = IF closed # {} /\ LastPart(Cardinality(closed), Cardinality(Missing)) THEN 1 ELSE 0
       /\ faults' = closed
  /\ UNCHANGED <<failed, local>>

\* The collection was not given: nothing more is requested.
no_collection ==
  /\ phase = "list" /\ "list" \in running
  /\ try_start(<<>>, {}, failed)
  /\ UNCHANGED <<disk, phase, failed, local, wanted, count, reported, faults>>

\* The response to the request for b has been written to its file.  Its status is
\* not looked at.  Another blob of the same name has opened the same file.
on_load(b) ==
  /\ b \in running \intersect Blobs
  /\ LET shared == \E c \in wanted \ {b} : Name[c] = Name[b]
     IN \/ /\ disk' = [disk EXCEPT ![Name[b]] = b]
           /\ UNCHANGED faults
        \/ /\ disk' = [disk EXCEPT ![Name[b]] = "other"]
           /\ faults' = IF shared THEN faults ELSE faults \union {b}
  /\ try_start(pending, running \ {b}, failed)
  /\ count' = count + 1
  /\ reported' = reported + IF LastPart(count + 1, Cardinality(wanted)) THEN 1 ELSE 0
  /\ UNCHANGED <<phase, failed, local, wanted>>

\* fail: the error is printed.
fail(req) ==
  /\ req \in running
  /\ running' = running \ {req}
  /\ failed' = failed \union {req}
  /\ \/ req \in Blobs /\ disk' = [disk EXCEPT ![Name[req]] = "other"]
     \/ UNCHANGED disk
  /\ faults' = faults \union ({req} \intersect Blobs)
  /\ UNCHANGED <<phase, pending, local, wanted, count, reported>>

\* A bug: the program waits for the callback.
ExitReported ==
  /\ phase # "ended" /\ running = {} /\ reported = 1
  /\ phase' = "ended"
  /\ UNCHANGED <<disk, pending, running, failed, local, wanted, count, reported, faults>>

\* io_context::run returns when no request is running.
exit ==
  /\ phase # "ended" /\ running = {}
  /\ phase' = "ended"
  /\ UNCHANGED <<disk, pending, running, failed, local, wanted, count, reported, faults>>

\* The program is killed; files that are being received are left as they are.
kill ==
  /\ phase # "ended"
  /\ phase' = "ended" /\ running' = {}
  /\ \E torn \in SUBSET (running \intersect Blobs) :
       disk' = [n \in Names |-> IF \E b \in torn : Name[b] = n THEN "other" ELSE disk[n]]
  /\ faults' = faults \union (running \intersect Blobs)
  /\ UNCHANGED <<pending, failed, local, wanted, count, reported>>

\* A directory in which the program was not yet run has no empty files of it.
Init ==
  /\ disk \in [Names -> Contents \ {"empty"}]
  /\ phase = "ended" /\ pending = <<>> /\ running = {} /\ failed = {}
  /\ local = {} /\ wanted = {} /\ count = 0 /\ reported = 0 /\ faults = {}

Network == get_collection \/ download_collection \/ no_collection \/ \E b \in Blobs : on_load(b)

Next ==
  \/ login \/ Network
  \/ \E req \in Blobs \union {"login", "list"} : fail(req)
  \/ exit \/ kill

\* Requests end, one way or another, and so does the program.
Spec == Init /\ [][Next]_vars /\ WF_vars(Network) /\ WF_vars(exit)

-----------------------------------------------------------------------------
(* Properties *)

\* Each blob that is wanted is accounted for once: it waits, runs, has failed, or
\* was counted by the callback; and the callback is called exactly when all were.
PartsCounted ==
  phase = "download" =>
     /\ count + Len(pending) + Cardinality((running \union failed) \intersect Blobs) = Cardinality(wanted)
     /\ reported = IF wanted # {} /\ count = Cardinality(wanted) THEN 1 ELSE 0

\* When the program stops with requests that were never started, it is because as
\* many connections have failed as there are slots.
LeftOver == phase = "download" /\ running = {} /\ pending # <<>> => Cardinality(failed) = Limit

\* When the download is reported and nothing went wrong in this run, whatever was
\* left by earlier runs that failed or were killed, each blob with a name of its
\* own that was not in the directory is in its file.
Synced ==
  phase = "download" /\ reported = 1 /\ faults = {} =>
     \A b \in Blobs \ local : (\A c \in Blobs \ {b} : Name[c] # Name[b]) => disk[Name[b]] = b

\* Every run of the program ends.
RunsEnd == phase # "ended" ~> phase = "ended"
=============================================================================
