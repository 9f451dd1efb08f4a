------------------------------ MODULE Evidence ------------------------------
(***************************************************************************)
(* The evidence files of one expected result: uploadEvidence,              *)
(* deleteEvidence, createEvidenceUploadUrl and confirmEvidenceUpload       *)
(* (apps/api/src/services/execution.service.ts).  The rows are in          *)
(* PostgreSQL and the files in S3 or MinIO: no transaction spans both.     *)
(*                                                                         *)
(* A file comes with an upload request, stored first and recorded after,   *)
(* or through a presigned URL: recorded first with size 0, put by the      *)
(* client, then confirmed.  The limit counts rows when a request starts;   *)
(* rows of size 0 that are ten minutes old are not counted for a URL.      *)
(***************************************************************************)
EXTENDS Requests

CONSTANTS Id,      \* evidence ids, each with its file key
          Max      \* MAX_EVIDENCES_PER_RESULT

ASSUME ReqAssumption == IsFiniteSet(Req)
ASSUME MaxAssumption == Max \in Nat \ {0}

VARIABLES
  rows,      \* the rows of executionEvidence
  sized,     \* those with a fileSize above 0
  old,       \* those made ten minutes ago or earlier
  objects,   \* the files in the storage
  urls,      \* the presigned URLs that have not expired
  calls,     \* requests between two awaits
  stale,     \* history: rows that were once too old to count
  torn       \* history: rows whose deletion stopped half-way

evidenceVars == <<rows, sized, old, objects, urls, calls, stale, torn>>

-----------------------------------------------------------------------------
Stmt == {"store", "insert", "insertUrl", "head", "size", "deleteFile", "deleteRow"}
EvidenceCall == [req : Req, stmt : Stmt, id : Id, full : BOOLEAN]

\* fileSize > 0n || createdAt > pendingCutoff
Counted == sized \cup (rows \ old)

\* Mutant: the comparison lets one more in.
UploadAllowedAtMax == Cardinality(rows) <= Max

UploadAllowed == Cardinality(rows) < Max
UrlAllowed    == Cardinality(Counted) < Max

\* randomUUID: an id that nothing refers to.
Fresh(e) == /\ e \notin rows \cup objects \cup urls
            /\ \A c \in calls : c.id # e

Free(q) == \A c \in calls : c.req # q

Begin(q, stmt, e, full) ==
  /\ Free(q)
  /\ calls' = calls \cup {[req |-> q, stmt |-> stmt, id |-> e, full |-> full]}
Continue(c, stmt, full) ==
  calls' = (calls \ {c}) \cup {[c EXCEPT !.stmt = stmt, !.full = full]}
EndCall(c) == calls' = calls \ {c}

EvidenceInit == /\ rows = {}
                /\ sized = {}
                /\ old = {}
                /\ objects = {}
                /\ urls = {}
                /\ calls = {}
                /\ stale = {}
                /\ torn = {}

-----------------------------------------------------------------------------
(***************************************************************************)
(* uploadEvidence                                                          *)
(***************************************************************************)
UploadStart(q, e, full) ==
  /\ UploadAllowed
  /\ Fresh(e)
  /\ Begin(q, "store", e, full)
  /\ UNCHANGED <<rows, sized, old, objects, urls, stale, torn>>

\* Mutant: the row is made before the file.
UploadStoreLater(c) ==
  /\ c.stmt = "store"
  /\ Continue(c, "insert", c.full)
  /\ UNCHANGED <<rows, sized, old, objects, urls, stale, torn>>

UploadStore(c) ==
  /\ c.stmt = "store"
  /\ objects' = objects \cup {c.id}
  /\ Continue(c, "insert", c.full)
  /\ UNCHANGED <<rows, sized, old, urls, stale, torn>>

UploadInsert(c) ==
  /\ c.stmt = "insert"
  /\ rows' = rows \cup {c.id}
  /\ sized' = IF c.full THEN sized \cup {c.id} ELSE sized
  /\ EndCall(c)
  /\ UNCHANGED <<old, objects, urls, stale, torn>>

(***************************************************************************)
(* createEvidenceUploadUrl, and what the client does with the URL          *)
(***************************************************************************)
UrlStart(q, e) ==
  /\ UrlAllowed
  /\ Fresh(e)
  /\ Begin(q, "insertUrl", e, FALSE)
  /\ UNCHANGED <<rows, sized, old, objects, urls, stale, torn>>

\* The URL was signed just before; the client has it once the row is made.
UrlInsert(c) ==
  /\ c.stmt = "insertUrl"
  /\ rows' = rows \cup {c.id}
  /\ urls' = urls \cup {c.id}
  /\ EndCall(c)
  /\ UNCHANGED <<sized, old, objects, stale, torn>>

\* The client puts a file, or puts it again.
Put(e) ==
  /\ objects' = objects \cup {e}
  /\ UNCHANGED <<rows, sized, old, urls, calls, stale, torn>>

(***************************************************************************)
(* confirmEvidenceUpload                                                   *)
(***************************************************************************)
ConfirmStart(q, e) ==
  /\ Begin(q, "head", e, FALSE)
  /\ UNCHANGED <<rows, sized, old, objects, urls, stale, torn>>

\* Mutant: a missing file is not noticed.
ConfirmHeadUnchecked(c) ==
  /\ c.stmt = "head"
  /\ \E full \in BOOLEAN : Continue(c, "size", full)
  /\ UNCHANGED <<rows, sized, old, objects, urls, stale, torn>>

\* getMetadata: the file may be empty.
ConfirmHead(c) ==
  /\ c.stmt = "head"
  /\ IF c.id \in objects THEN \E full \in BOOLEAN : Continue(c, "size", full)
                         ELSE EndCall(c)
  /\ UNCHANGED <<rows, sized, old, objects, urls, stale, torn>>

\* The update fails when the row has gone.
ConfirmUpdate(c) ==
  /\ c.stmt = "size"
  /\ sized' = IF c.full THEN sized \cup ({c.id} \cap rows) ELSE sized \ {c.id}
  /\ stale' = IF c.full THEN stale ELSE stale \cup ({c.id} \cap old)
  /\ EndCall(c)
  /\ UNCHANGED <<rows, old, objects, urls, torn>>

(***************************************************************************)
(* deleteEvidence                                                          *)
(***************************************************************************)
DeleteStart(q, e) ==
  /\ Begin(q, "deleteFile", e, FALSE)
  /\ UNCHANGED <<rows, sized, old, objects, urls, stale, torn>>

DeleteFile(c) ==
  /\ c.stmt = "deleteFile"
  /\ objects' = objects \ {c.id}
  /\ Continue(c, "deleteRow", c.full)
  /\ UNCHANGED <<rows, sized, old, urls, stale, torn>>

DeleteRow(c) ==
  /\ c.stmt = "deleteRow"
  /\ rows' = rows \ {c.id}
  /\ sized' = sized \ {c.id}
  /\ old' = old \ {c.id}
  /\ stale' = stale \ {c.id}
  /\ torn' = torn \ {c.id}
  /\ EndCall(c)
  /\ UNCHANGED <<objects, urls>>

-----------------------------------------------------------------------------
\* The storage or the database fails, or the process dies.
EvidenceAbort(c) ==
  /\ EndCall(c)
  /\ torn' = IF c.stmt = "deleteRow" THEN torn \cup ({c.id} \cap rows) ELSE torn
  /\ UNCHANGED <<rows, sized, old, objects, urls, stale>>

\* Five minutes after the signature.
UrlExpires(e) ==
  /\ urls' = urls \ {e}
  /\ UNCHANGED <<rows, sized, old, objects, calls, stale, torn>>

\* Ten minutes after createdAt: the URL, if any, has expired before.
RowAges(e) ==
  /\ e \notin old \cup urls
  /\ old' = old \cup {e}
  /\ stale' = IF e \in sized THEN stale ELSE stale \cup {e}
  /\ UNCHANGED <<rows, sized, objects, urls, calls, torn>>

EvidenceNext ==
  \/ \E q \in Req, e \in Id, full \in BOOLEAN : UploadStart(q, e, full)
  \/ \E q \in Req, e \in Id : UrlStart(q, e)
  \/ \E q \in Req, e \in rows : ConfirmStart(q, e) \/ DeleteStart(q, e)
  \/ \E c \in calls : \/ UploadStore(c) \/ UploadInsert(c) \/ UrlInsert(c)
                      \/ ConfirmHead(c) \/ ConfirmUpdate(c)
                      \/ DeleteFile(c) \/ DeleteRow(c) \/ EvidenceAbort(c)
  \/ \E e \in urls : Put(e) \/ UrlExpires(e)
  \/ \E e \in rows : RowAges(e)

EvidenceSpec == EvidenceInit /\ [][EvidenceNext]_evidenceVars

-----------------------------------------------------------------------------
\* Type invariant.
EvidenceTypeOK == /\ rows \subseteq Id /\ IsFiniteSet(rows)
                  /\ sized \subseteq rows
                  /\ old \subseteq rows
                  /\ objects \subseteq Id
                  /\ urls \subseteq Id
                  /\ calls \subseteq EvidenceCall
                  /\ stale \subseteq old
                  /\ torn \subseteq rows

\* A file that a deletion has taken away, and whose row is still there.
BeingDeleted(e) == e \in torn \/ \E c \in calls : c.stmt = "deleteRow" /\ c.id = e

\* Evidence with a size has its file, whatever confirmations, deletions and
\* uploads cross: unless a deletion of it is past the file or stopped there.
SizedHasFile == \A e \in sized : e \in objects \/ BeingDeleted(e)

\* The limit is checked before the insert: it can be passed by one row for
\* each other request in flight, and by no more, apart from rows that once
\* were too old to count (uploadEvidence and createEvidenceUploadUrl).
OvershootBounded == Cardinality(rows \ stale) < Max + Cardinality(Req)

\* What docs/architecture/features/test-execution.md:609 says: at most Max
\* files of evidence for an expected result.
EvidenceLimit == Cardinality(sized) <= Max

-----------------------------------------------------------------------------
OneRequestPerSlot == \A c, d \in calls : c.req = d.req => c = d

Inserting == {c \in calls : c.stmt \in {"store", "insert", "insertUrl"}}

\* A request that is to insert has its id for itself.
InsertsFresh ==
  \A c \in Inserting : /\ c.id \notin rows \cup urls
                       /\ \A d \in calls : d.id = c.id => d = c

\* A row that does not count is remembered.
StaleAreRemembered == rows \ Counted \subseteq stale

\* A file that is to be recorded is there.
StoredBeforeInsert == \A c \in calls : c.stmt = "insert" => c.id \in objects

\* A size that is to be written was read from a file, which only a deletion
\* can have taken away since.
SizeSeen == \A c \in calls : c.stmt = "size" =>
              c.id \in objects \/ c.id \notin rows \/ BeingDeleted(c.id)

\* The slots of the requests that will add a row.
Adding == {q \in Req : \E c \in Inserting : c.req = q}

\* A row that counts was added below the limit, or with other requests about
\* to add theirs.
Booked == Cardinality(rows \ stale) + Cardinality(Adding) < Max + Cardinality(Req)

\* The inductive invariant behind both properties.
EvidenceInv == /\ EvidenceTypeOK
               /\ OneRequestPerSlot
               /\ InsertsFresh
               /\ StaleAreRemembered
               /\ StoredBeforeInsert
               /\ SizeSeen
               /\ SizedHasFile
               /\ Booked
=============================================================================
