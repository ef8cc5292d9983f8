------------------------------- MODULE Ingest -------------------------------
(***************************************************************************)
(* The ingest chain of one document: POST /documents registers the row and *)
(* publishes the Celery chain extract -> ocr -> chunk -> embed; each task  *)
(* runs in a worker thread, commits to PostgreSQL several times, moves the *)
(* PDF on disk, and replaces the document's points in Qdrant.              *)
(*                                                                         *)
(* Every statement of the tasks is keyed by (service_code, document_id),   *)
(* so documents share no row, no file and no point; they only compete for  *)
(* threads.  The module therefore follows a single document.               *)
(*                                                                         *)
(* Celery runs with task_acks_late: a message leaves the broker for good   *)
(* only after the task returned and its successor was published.  A worker *)
(* process that dies gives its unacknowledged messages back to the queue;  *)
(* a consumer timeout gives them back while the task is still running.     *)
(***************************************************************************)
EXTENDS Naturals, FiniteSets

CONSTANTS
    CeleryThreads,    \* threads of the worker on queue "celery"
    OcrThreads,       \* threads of the worker on queue "ocr"
    Text,             \* what the chunker cuts out of the markdown
    Images,           \* images whose OCR yields an image or a table chunk
    MaxRetries,       \* max_retries of extract, chunk and embed (3 in the code)
    Faulty,           \* the resources that may fail
    MaxFaults,        \* bound: one of them fails after fewer disturbances
    MaxCrashes,       \* bound: a worker process dies after fewer disturbances
    MaxRedeliveries   \* bound: a running task is redelivered after fewer of them

Threads == CeleryThreads \cup OcrThreads

FaultKind == {"db", "disk", "odl", "paddle", "model", "qdrant", "broker"}

ASSUME IngestAssumption ==
    /\ IsFiniteSet(Threads)
    /\ CeleryThreads \cap OcrThreads = {}
    /\ IsFiniteSet(Text) /\ IsFiniteSet(Images)
    /\ Text \cap Images = {}
    /\ Faulty \subseteq FaultKind
    /\ MaxRetries \in Nat /\ MaxFaults \in Nat
    /\ MaxCrashes \in Nat /\ MaxRedeliveries \in Nat

-----------------------------------------------------------------------------
Task == {"extract", "ocr", "chunk", "embed"}

\* A message of the chain; the successors it carries follow from its task.
Message == [task : Task, retries : 0 .. MaxRetries]

Msg(t, r) == [task |-> t, retries |-> r]

\* task_routes: OCR has a queue, hence threads, of its own.
Pool(t) == IF t = "ocr" THEN OcrThreads ELSE CeleryThreads

Successor(t) == IF t = "extract" THEN "ocr"
                ELSE IF t = "ocr" THEN "chunk" ELSE "embed"

\* StatusCode: the codes some task writes.
Status == {"none", "00", "22", "21", "24", "23", "32", "31", "42", "43",
           "41", "11", "91", "92", "93", "95"}

\* Mutant: the catch-all code for a failed extraction.
ErrorStatusEtc(t) == [extract |-> "99", ocr |-> "92", chunk |-> "93", embed |-> "95"][t]

ErrorStatus(t) == [extract |-> "91", ocr |-> "92", chunk |-> "93", embed |-> "95"][t]

\* A row of tb_document_chunks.  <<gen, copy>> stands for its BIGSERIAL id:
\* rows of one INSERT share gen, copies of one source differ in copy.
Row == [gen : Nat, src : Text \cup Images, copy : Nat]

\* A row of tb_document_contents, its id abridged alike: it serves a chunk row.
ContentsRow == [gen : Nat, chunk : Row]

NewRows(g, texts, copies) ==
    {[gen |-> g, src |-> t, copy |-> 1] : t \in texts}
      \cup UNION {{[gen |-> g, src |-> o, copy |-> k] : k \in 1 .. copies[o]} : o \in Images}

NoCopies == [o \in Images |-> 0]

\* What run_extract leaves in raw_markdown: image tags when there are images.
FreshMarkdown == IF Images = {} THEN "clean" ELSE "tagged"

-----------------------------------------------------------------------------
VARIABLES
    api,        \* POST /documents: idle, the row committed, or answered
    nameOk,     \* document_name holds no directory part
    status,     \* tb_document_status.status_code
    file,       \* directory the PDF is in: input, finished, error; or absent
    markdown,   \* tb_document_extract.raw_markdown: none, tagged or clean
    chunks,     \* committed rows of tb_document_chunks
    contents,   \* committed rows of tb_document_contents
    points,     \* points of the document in Qdrant
    gen,        \* last value drawn from the id sequences
    recognised, \* history: the images whose OCR rows were committed
    mishaps,    \* history: what went wrong that a later step may suffer from
    queue,      \* messages waiting in the broker, a bag
    pc,         \* where each thread stands in its task
    job,        \* the message a thread works on
    owned,      \* the thread's delivery is still the broker's only copy
    broken,     \* threads whose session must roll back before its next use
    keep,       \* copies of each image's OCR text the task holds in memory
    seen,       \* chunk rows a DELETE snapshot or an embedding run has read
    cseen,      \* contents rows a DELETE snapshot has read
    del,        \* chunk rows deleted, not yet committed (row locks)
    cdel,       \* contents rows deleted, not yet committed (row locks)
    noted,      \* threads that hold rows of tb_page_triage not yet committed
    faults, crashes, redeliveries

apiVars == <<api, nameOk>>
dataVars == <<markdown, chunks, contents, gen, recognised>>
deliveryVars == <<queue, job, owned>>
txVars == <<broken, keep, seen, cseen, del, cdel, noted>>
envVars == <<faults, crashes, redeliveries>>
vars == <<apiVars, mishaps, status, file, dataVars, points, deliveryVars, pc, txVars, envVars>>

\* Where a thread can stand: the places of each task and those all tasks share.
ExtractLabel == {"extract", "triage", "recording", "convert", "upsert", "move", "extracted", "discard"}
OcrLabel == {"ocr", "scan", "recognise", "ocrcommit", "ocred"}
ChunkLabel == {"chunk", "preserve", "preserving", "delete", "deleting", "save", "insert",
               "chunked"}
EmbedLabel == {"embed", "embedding", "vectors", "clear", "upload", "serve", "serving", "store",
               "indexed", "complete"}

Label == {"idle", "publish", "ack", "fail", "error"}
           \cup ExtractLabel \cup OcrLabel \cup ChunkLabel \cup EmbedLabel

\* twice: a message went back to the queue although its task goes on or is over;
\* overlap: a thread took up a task beside one that another of its worker was at;
\* exhausted: a task that holds deleted rows was given up, so that the status of
\* its error will commit the deletion; unwritten: a status was not written.
Mishap == {"twice", "overlap", "exhausted", "unwritten"}

\* Every variable keeps its type: a thread stands at a place of its tasks, the
\* queue is a bag of chain messages, what a task holds in memory are rows and
\* counts of OCR copies, and the document has finitely many chunk rows.
TypeOK ==
    /\ api \in {"idle", "created", "done"} /\ nameOk \in BOOLEAN
    /\ status \in Status
    /\ file \in {"absent", "input", "finished", "error"}
    /\ markdown \in {"none", "tagged", "clean"}
    /\ IsFiniteSet(chunks)
    /\ chunks \subseteq Row /\ contents \subseteq ContentsRow /\ points \subseteq Row
    /\ gen \in Nat /\ recognised \subseteq Images /\ mishaps \subseteq Mishap
    /\ queue \in [Message -> Nat]
    /\ pc \in [Threads -> Label]
    /\ job \in [Threads -> Message]
    /\ owned \in [Threads -> BOOLEAN]
    /\ broken \subseteq Threads /\ noted \subseteq Threads
    /\ keep \in [Threads -> [Images -> Nat]]
    /\ seen \in [Threads -> SUBSET Row]
    /\ cseen \in [Threads -> SUBSET ContentsRow]
    /\ del \in [Threads -> SUBSET Row]
    /\ cdel \in [Threads -> SUBSET ContentsRow]
    /\ faults \in Nat /\ crashes \in Nat /\ redeliveries \in Nat

\* The PDF was copied to the input directory before the call, or forgotten.
Init ==
    /\ api = "idle" /\ nameOk \in BOOLEAN
    /\ status = "none"
    /\ file \in {"input", "absent"}
    /\ markdown = "none"
    /\ chunks = {} /\ contents = {} /\ points = {}
    /\ gen = 0 /\ recognised = {} /\ mishaps = {}
    /\ queue = [m \in Message |-> 0]
    /\ pc = [w \in Threads |-> "idle"]
    /\ job = [w \in Threads |-> Msg("extract", 0)]
    /\ owned = [w \in Threads |-> FALSE]
    /\ broken = {} /\ noted = {}
    /\ keep = [w \in Threads |-> NoCopies]
    /\ seen = [w \in Threads |-> {}]
    /\ cseen = [w \in Threads |-> {}]
    /\ del = [w \in Threads |-> {}]
    /\ cdel = [w \in Threads |-> {}]
    /\ faults = 0 /\ crashes = 0 /\ redeliveries = 0

-----------------------------------------------------------------------------
\* Building blocks of the tasks.

At(w, l) == pc[w] = l
Goto(w, l) == pc' = [pc EXCEPT ![w] = l]

\* A resource fails now, behind fewer than MaxFaults disturbances of any kind.
Fault(k) ==
    /\ k \in Faulty /\ faults + crashes + redeliveries < MaxFaults
    /\ faults' = faults + 1 /\ UNCHANGED <<crashes, redeliveries>>

Send(m) == queue' = [queue EXCEPT ![m] = @ + 1]

\* The transaction ends, one way or the other: its row locks are gone.
EndTx(w) ==
    /\ del' = [del EXCEPT ![w] = {}]
    /\ cdel' = [cdel EXCEPT ![w] = {}]
    /\ noted' = noted \ {w}

\* Page rows are committed whose keys (uq_page_triage) others are about to insert:
\* their INSERT fails, and their session is unusable.
Collide(w) ==
    broken' = broken \cup (IF w \in noted THEN {v \in Threads : At(v, "recording")} ELSE {})

\* session.commit(): the pending deletes take effect.
CommitPending(w) ==
    /\ chunks' = chunks \ del[w]
    /\ contents' = contents \ cdel[w]
    /\ Collide(w)
    /\ EndTx(w)

\* An exception of the database aborts the transaction and leaves the session
\* unusable until somebody rolls it back.
Poison(w) ==
    /\ broken' = broken \cup {w}
    /\ EndTx(w)
    /\ UNCHANGED <<keep, seen, cseen>>

\* DocumentRepository.update_status: log and snapshot in one commit, which also
\* commits whatever else the session holds.  An error is rolled back, logged
\* and returned as False, which no caller looks at.
WriteStatus(w, code) ==
    /\ \/ /\ w \notin broken
          /\ status' = code
          /\ CommitPending(w)
          /\ UNCHANGED <<mishaps, envVars>>
       \/ /\ \/ w \in broken /\ UNCHANGED envVars
             \/ w \notin broken /\ Fault("db")
          /\ broken' = broken \ {w}
          /\ EndTx(w)
          /\ mishaps' = mishaps \cup {"unwritten"}
          /\ UNCHANGED <<status, chunks, contents>>
    /\ UNCHANGED <<apiVars, file, markdown, gen, recognised, points, deliveryVars,
                   keep, seen, cseen>>

\* A statement of the database fails: the task's handler takes over.
DbFails(w, handler) ==
    /\ Fault("db") /\ Poison(w) /\ Goto(w, handler)
    /\ UNCHANGED <<apiVars, mishaps, status, file, dataVars, points, deliveryVars>>

\* Anything else the task relies on fails; the session keeps what it holds.
ResourceFails(w, k) ==
    /\ Fault(k) /\ Goto(w, "fail")
    /\ UNCHANGED <<apiVars, mishaps, status, file, dataVars, points, deliveryVars, txVars>>

-----------------------------------------------------------------------------
\* The API.  create() commits the row; a second call for the same document is
\* refused by UNIQUE (service_code, document_id).
Register ==
    /\ api = "idle"
    /\ api' = "created" /\ status' = "00"
    /\ UNCHANGED <<nameOk, mishaps, file, dataVars, points, deliveryVars, pc, txVars, envVars>>

Publish ==
    /\ api = "created"
    /\ api' = "done"
    /\ Send(Msg("extract", 0))
    /\ UNCHANGED <<nameOk, mishaps, status, file, dataVars, points, job, owned, pc, txVars, envVars>>

\* apply_async raises: the error is logged and the caller still gets its id.
PublishFails ==
    /\ api = "created" /\ Fault("broker")
    /\ api' = "done"
    /\ UNCHANGED <<nameOk, mishaps, status, file, dataVars, points, deliveryVars, pc, txVars>>

\* A thread is at a task that is not over.
Working(w) == pc[w] \notin {"idle", "ack"}

\* A free thread takes a message of its queue.
Deliver(w, m) ==
    /\ At(w, "idle") /\ w \in Pool(m.task) /\ queue[m] > 0
    /\ queue' = [queue EXCEPT ![m] = @ - 1]
    /\ job' = [job EXCEPT ![w] = m]
    /\ owned' = [owned EXCEPT ![w] = TRUE]
    /\ Goto(w, m.task)
    /\ mishaps' = mishaps \cup
           (IF \E v \in Pool(m.task) \ {w} : Working(v) THEN {"overlap"} ELSE {})
    /\ UNCHANGED <<apiVars, status, file, dataVars, points, txVars, envVars>>

-----------------------------------------------------------------------------
\* extract_pdf

\* The check for a directory part stands outside the try block, so it neither
\* retries nor writes a status; a missing PDF goes to the handler.
ExtractOpen(w) ==
    /\ At(w, "extract")
    /\ \/ /\ ~nameOk
          /\ Goto(w, "ack")
          /\ UNCHANGED <<apiVars, mishaps, status, file, dataVars, points, deliveryVars, txVars, envVars>>
       \/ /\ nameOk /\ file # "input"
          /\ Goto(w, "fail")
          /\ UNCHANGED <<apiVars, mishaps, status, file, dataVars, points, deliveryVars, txVars, envVars>>
       \/ /\ nameOk /\ file = "input"
          /\ WriteStatus(w, "22")
          /\ Goto(w, "triage")

\* _record_triage swallows every exception, and leaves the session as it is.  The
\* DELETE sees what is committed when it starts ...
Triage(w) ==
    /\ At(w, "triage") /\ Goto(w, "recording")
    /\ UNCHANGED <<apiVars, mishaps, status, file, dataVars, points, deliveryVars, txVars, envVars>>

\* ... and waits, as the INSERT does, for those who have written the document's
\* page rows and not ended their transaction.
Recorded(w) ==
    /\ At(w, "recording") /\ Goto(w, "convert")
    /\ \/ /\ w \notin broken /\ noted = {}
          /\ noted' = {w}
          /\ UNCHANGED <<broken, keep, seen, cseen, del, cdel, envVars>>
       \/ w \in broken /\ UNCHANGED <<txVars, envVars>>
       \/ Fault("db") /\ Poison(w)
    /\ UNCHANGED <<apiVars, mishaps, status, file, dataVars, points, deliveryVars>>

\* run_extract, the image clean-up and the checks of its output.
Convert(w) ==
    /\ At(w, "convert")
    /\ \/ /\ file = "input" /\ Goto(w, "upsert")
          /\ UNCHANGED <<apiVars, mishaps, status, file, dataVars, points, deliveryVars, txVars, envVars>>
       \/ /\ file # "input" /\ Goto(w, "fail")
          /\ UNCHANGED <<apiVars, mishaps, status, file, dataVars, points, deliveryVars, txVars, envVars>>
       \/ ResourceFails(w, "odl")

\* Mutant: upsert only flushes, as the chunk repository does.
UpsertNoCommit(w) ==
    /\ At(w, "upsert") /\ Goto(w, "move")
    /\ UNCHANGED <<apiVars, mishaps, status, file, dataVars, points, deliveryVars, txVars, envVars>>

Upsert(w) ==
    /\ At(w, "upsert")
    /\ \/ /\ w \notin broken
          /\ markdown' = FreshMarkdown
          /\ Collide(w) /\ EndTx(w)
          /\ Goto(w, "move")
          /\ UNCHANGED <<apiVars, mishaps, status, file, chunks, contents, gen, recognised, points,
                         deliveryVars, keep, seen, cseen, envVars>>
       \/ /\ w \in broken /\ Goto(w, "fail")
          /\ UNCHANGED <<apiVars, mishaps, status, file, dataVars, points, deliveryVars, txVars, envVars>>
       \/ w \notin broken /\ DbFails(w, "fail")

Move(w) ==
    /\ At(w, "move")
    /\ \/ /\ file = "input" /\ file' = "finished"
          /\ Goto(w, "extracted")
          /\ UNCHANGED <<apiVars, mishaps, status, dataVars, points, deliveryVars, txVars, envVars>>
       \/ /\ file # "input" /\ Goto(w, "fail")
          /\ UNCHANGED <<apiVars, mishaps, status, file, dataVars, points, deliveryVars, txVars, envVars>>
       \/ ResourceFails(w, "disk")

Extracted(w) == At(w, "extracted") /\ WriteStatus(w, "21") /\ Goto(w, "publish")

-----------------------------------------------------------------------------
\* ocr_images

OcrStart(w) == At(w, "ocr") /\ WriteStatus(w, "24") /\ Goto(w, "scan")

\* No markdown: the task returns without touching the status.  No image tag
\* left: there is nothing to recognise.
Scan(w) ==
    /\ At(w, "scan")
    /\ \/ /\ \/ markdown = "none" /\ Goto(w, "publish")
             \/ markdown = "clean" /\ Goto(w, "ocred")
             \/ markdown = "tagged" /\ Goto(w, "recognise")
          /\ UNCHANGED <<apiVars, mishaps, status, file, dataVars, points, deliveryVars, txVars, envVars>>
       \/ DbFails(w, "error")

\* Four threads call paddle; an image whose call fails counts as empty.
Recognise(w) ==
    /\ At(w, "recognise") /\ Goto(w, "ocrcommit")
    /\ \E read \in SUBSET Images :
          /\ \/ read = Images /\ UNCHANGED envVars
             \/ read # Images /\ Fault("paddle")
          /\ keep' = [keep EXCEPT ![w] = [o \in Images |-> IF o \in read THEN 1 ELSE 0]]
    /\ UNCHANGED <<apiVars, mishaps, status, file, dataVars, points, deliveryVars,
                   broken, seen, cseen, del, cdel, noted>>

\* Mutant: the rows are committed, the markdown keeps its image tags.
OcrCommitRowsOnly(w) ==
    /\ At(w, "ocrcommit") /\ Goto(w, "ocred")
    /\ gen' = gen + 1
    /\ chunks' = chunks \cup NewRows(gen', {}, keep[w])
    /\ recognised' = recognised \cup {o \in Images : keep[w][o] > 0}
    /\ UNCHANGED <<apiVars, mishaps, status, file, markdown, contents, points, deliveryVars, txVars, envVars>>

\* insert_chunks only flushes; update_markdown commits rows and tags together.
OcrCommit(w) ==
    /\ At(w, "ocrcommit")
    /\ \/ /\ gen' = gen + 1
          /\ chunks' = chunks \cup NewRows(gen', {}, keep[w])
          /\ markdown' = "clean"
          /\ recognised' = recognised \cup {o \in Images : keep[w][o] > 0}
          /\ Goto(w, "ocred")
          /\ UNCHANGED <<apiVars, mishaps, status, file, contents, points, deliveryVars, txVars, envVars>>
       \/ DbFails(w, "error")

Ocred(w) == At(w, "ocred") /\ WriteStatus(w, "23") /\ Goto(w, "publish")

-----------------------------------------------------------------------------
\* chunk_document

ChunkStart(w) == At(w, "chunk") /\ WriteStatus(w, "32") /\ Goto(w, "preserve")

\* The copies of image o among the chunk rows: what carries image_ocr_texts.
Copies(o) == Cardinality({r \in chunks : r.src = o})

\* _preserve_existing_ocr, first: DELETE of the contents rows, READ COMMITTED:
\* the rows are those committed when the statement starts ...
Preserve(w) ==
    /\ At(w, "preserve") /\ Goto(w, "preserving")
    /\ cseen' = [cseen EXCEPT ![w] = contents]
    /\ UNCHANGED <<apiVars, mishaps, status, file, dataVars, points, deliveryVars,
                   broken, keep, seen, del, cdel, noted, envVars>>

\* ... minus those another transaction deletes before this one gets the lock.
LockContents(w) ==
    /\ \A v \in Threads \ {w} : cdel[v] \cap cseen[w] = {}
    /\ cdel' = [cdel EXCEPT ![w] = cseen[w] \cap contents]
    /\ cseen' = [cseen EXCEPT ![w] = {}]

\* Mutant: the OCR rows are not read before they are deleted.
PreservedNothing(w) ==
    /\ At(w, "preserving") /\ Goto(w, "delete")
    /\ LockContents(w)
    /\ UNCHANGED <<apiVars, mishaps, status, file, dataVars, points, deliveryVars,
                   broken, keep, seen, del, noted, envVars>>

\* Mutant: the contents rows of the old chunks stay.
PreservedContents(w) ==
    /\ At(w, "preserving") /\ Goto(w, "delete")
    /\ keep' = [keep EXCEPT ![w] = [o \in Images |-> Copies(o)]]
    /\ UNCHANGED <<apiVars, mishaps, status, file, dataVars, points, deliveryVars,
                   broken, seen, cseen, del, cdel, noted, envVars>>

\* Then the OCR rows are read.
Preserved(w) ==
    /\ At(w, "preserving")
    /\ \/ /\ LockContents(w)
          /\ keep' = [keep EXCEPT ![w] = [o \in Images |-> Copies(o)]]
          /\ Goto(w, "delete")
          /\ UNCHANGED <<apiVars, mishaps, status, file, dataVars, points, deliveryVars,
                         broken, seen, del, noted, envVars>>
       \/ DbFails(w, "fail")

\* DELETE of the chunk rows, with the same two steps.
DeleteBegin(w) ==
    /\ At(w, "delete") /\ Goto(w, "deleting")
    /\ seen' = [seen EXCEPT ![w] = chunks]
    /\ UNCHANGED <<apiVars, mishaps, status, file, dataVars, points, deliveryVars,
                   broken, keep, cseen, del, cdel, noted, envVars>>

\* Mutant: the DELETE commits on its own.
DeleteEndCommits(w) ==
    /\ At(w, "deleting") /\ Goto(w, "save")
    /\ \A v \in Threads \ {w} : del[v] \cap seen[w] = {}
    /\ chunks' = chunks \ seen[w]
    /\ seen' = [seen EXCEPT ![w] = {}]
    /\ UNCHANGED <<apiVars, mishaps, status, file, markdown, contents, gen, recognised, points,
                   deliveryVars, broken, keep, cseen, del, cdel, noted, envVars>>

DeleteEnd(w) ==
    /\ At(w, "deleting") /\ Goto(w, "save")
    /\ \A v \in Threads \ {w} : del[v] \cap seen[w] = {}
    /\ del' = [del EXCEPT ![w] = seen[w] \cap chunks]
    /\ seen' = [seen EXCEPT ![w] = {}]
    /\ UNCHANGED <<apiVars, mishaps, status, file, dataVars, points, deliveryVars,
                   broken, keep, cseen, cdel, noted, envVars>>

\* _save_chunks_json, in the middle of the transaction.
SaveJson(w) ==
    /\ At(w, "save")
    /\ \/ /\ Goto(w, "insert")
          /\ UNCHANGED <<apiVars, mishaps, status, file, dataVars, points, deliveryVars, txVars, envVars>>
       \/ ResourceFails(w, "disk")

\* Mutant: the old rows are not deleted.
InsertChunksAppend(w) ==
    /\ At(w, "insert") /\ Goto(w, "chunked")
    /\ gen' = gen + 1
    /\ chunks' = chunks \cup NewRows(gen', Text, keep[w])
    /\ contents' = contents \ cdel[w]
    /\ EndTx(w)
    /\ UNCHANGED <<apiVars, mishaps, status, file, markdown, recognised, points, deliveryVars,
                   broken, keep, seen, cseen, envVars>>

InsertChunks(w) ==
    /\ At(w, "insert")
    /\ \/ /\ gen' = gen + 1
          /\ chunks' = (chunks \ del[w]) \cup NewRows(gen', Text, keep[w])
          /\ contents' = contents \ cdel[w]
          /\ EndTx(w)
          /\ Goto(w, "chunked")
          /\ UNCHANGED <<apiVars, mishaps, status, file, markdown, recognised, points, deliveryVars,
                         broken, keep, seen, cseen, envVars>>
       \/ DbFails(w, "fail")

Chunked(w) == At(w, "chunked") /\ WriteStatus(w, "31") /\ Goto(w, "publish")

-----------------------------------------------------------------------------
\* embed_document

\* No chunk: the task returns at once, whatever the status says.
ReadChunks(w) ==
    /\ At(w, "embed")
    /\ \/ /\ seen' = [seen EXCEPT ![w] = chunks]
          /\ Goto(w, IF chunks = {} THEN "ack" ELSE "embedding")
          /\ UNCHANGED <<apiVars, mishaps, status, file, dataVars, points, deliveryVars,
                         broken, keep, cseen, del, cdel, noted, envVars>>
       \/ DbFails(w, "fail")

EmbedStart(w) == At(w, "embedding") /\ WriteStatus(w, "42") /\ Goto(w, "vectors")

\* The models and the Qdrant client are loaded on first use.
Vectors(w) ==
    /\ At(w, "vectors")
    /\ \/ WriteStatus(w, "43") /\ Goto(w, "clear")
       \/ ResourceFails(w, "model")

\* Mutant: re-embedding leaves the old points in Qdrant.
ClearPointsSkipped(w) ==
    /\ At(w, "clear") /\ Goto(w, "upload")
    /\ UNCHANGED <<apiVars, mishaps, status, file, dataVars, points, deliveryVars, txVars, envVars>>

ClearPoints(w) ==
    /\ At(w, "clear")
    /\ \/ /\ points' = {} /\ Goto(w, "upload")
          /\ UNCHANGED <<apiVars, mishaps, status, file, dataVars, deliveryVars, txVars, envVars>>
       \/ ResourceFails(w, "qdrant")

\* The upload goes in batches: a failure leaves any part of it behind.
Upload(w) ==
    /\ At(w, "upload")
    /\ \/ /\ points' = points \cup seen[w] /\ Goto(w, "serve")
          /\ UNCHANGED envVars
       \/ /\ Fault("qdrant") /\ Goto(w, "fail")
          /\ \E part \in SUBSET seen[w] : points' = points \cup part
    /\ UNCHANGED <<apiVars, mishaps, status, file, dataVars, deliveryVars, txVars>>

\* DELETE of the contents rows, with its two steps ...
ServeBegin(w) ==
    /\ At(w, "serve") /\ Goto(w, "serving")
    /\ cseen' = [cseen EXCEPT ![w] = contents]
    /\ UNCHANGED <<apiVars, mishaps, status, file, dataVars, points, deliveryVars,
                   broken, keep, seen, del, cdel, noted, envVars>>

ServeEnd(w) ==
    /\ At(w, "serving")
    /\ \/ /\ LockContents(w)
          /\ Goto(w, "store")
          /\ UNCHANGED <<apiVars, mishaps, status, file, dataVars, points, deliveryVars,
                         broken, keep, seen, del, noted, envVars>>
       \/ DbFails(w, "fail")

\* ... and INSERT and COMMIT of the new ones.
StoreContents(w) ==
    /\ At(w, "store")
    /\ \/ /\ gen' = gen + 1
          /\ contents' = (contents \ cdel[w]) \cup {[gen |-> gen', chunk |-> r] : r \in seen[w]}
          /\ EndTx(w)
          /\ Goto(w, "indexed")
          /\ UNCHANGED <<apiVars, mishaps, status, file, markdown, chunks, recognised, points,
                         deliveryVars, broken, keep, seen, cseen, envVars>>
       \/ DbFails(w, "fail")

Indexed(w) == At(w, "indexed") /\ WriteStatus(w, "41") /\ Goto(w, "complete")

Complete(w) == At(w, "complete") /\ WriteStatus(w, "11") /\ Goto(w, "ack")

-----------------------------------------------------------------------------
\* How a task ends.

Rollback(w) == EndTx(w) /\ broken' = broken \ {w} /\ UNCHANGED <<keep, seen, cseen>>

\* Mutant: the task whose retry is published goes on to its successor.
RetryAndPublish(w) ==
    /\ At(w, "fail") /\ job[w].retries < MaxRetries
    /\ Send(Msg(job[w].task, job[w].retries + 1))
    /\ Rollback(w)
    /\ Goto(w, IF job[w].task = "chunk" THEN "publish" ELSE "ack")
    /\ UNCHANGED <<apiVars, mishaps, status, file, dataVars, points, job, owned, envVars>>

\* The handler of extract, chunk and embed.  self.retry() republishes the task
\* and raises, so task_session rolls back; without a broker the retry is lost.
Retry(w) ==
    /\ At(w, "fail") /\ job[w].retries < MaxRetries
    /\ \/ Send(Msg(job[w].task, job[w].retries + 1)) /\ UNCHANGED envVars
       \/ Fault("broker") /\ UNCHANGED queue
    /\ Rollback(w)
    /\ Goto(w, "ack")
    /\ UNCHANGED <<apiVars, mishaps, status, file, dataVars, points, job, owned>>

\* Mutant: the retries are exhausted and nobody is told.
GiveUpSilently(w) ==
    /\ At(w, "fail") /\ job[w].retries = MaxRetries
    /\ Goto(w, "ack")
    /\ UNCHANGED <<apiVars, mishaps, status, file, dataVars, points, deliveryVars, txVars, envVars>>

GiveUp(w) ==
    /\ At(w, "fail") /\ job[w].retries = MaxRetries
    /\ Goto(w, IF job[w].task = "extract" THEN "discard" ELSE "error")
    /\ mishaps' = mishaps \cup (IF del[w] \cup cdel[w] = {} THEN {} ELSE {"exhausted"})
    /\ UNCHANGED <<apiVars, status, file, dataVars, points, deliveryVars, txVars, envVars>>

\* extract puts the PDF aside; if that fails the status is not written either.
Discard(w) ==
    /\ At(w, "discard")
    /\ \/ /\ file' = IF file = "input" THEN "error" ELSE file
          /\ Goto(w, "error")
          /\ UNCHANGED <<txVars, envVars>>
       \/ /\ Fault("disk") /\ Rollback(w)
          /\ Goto(w, "ack")
          /\ UNCHANGED file
    /\ UNCHANGED <<apiVars, mishaps, status, dataVars, points, deliveryVars>>

ReportError(w) ==
    At(w, "error") /\ WriteStatus(w, ErrorStatus(job[w].task)) /\ Goto(w, "ack")

\* The task returned: Celery publishes what follows in the chain.
PublishNext(w) ==
    /\ At(w, "publish") /\ Goto(w, "ack")
    /\ \/ Send(Msg(Successor(job[w].task), 0)) /\ UNCHANGED envVars
       \/ Fault("broker") /\ UNCHANGED queue
    /\ UNCHANGED <<apiVars, mishaps, status, file, dataVars, points, job, owned, txVars>>

\* The thread is free; what the task held in memory is gone.
Forget(W) ==
    /\ pc' = [w \in Threads |-> IF w \in W THEN "idle" ELSE pc[w]]
    /\ job' = [w \in Threads |-> IF w \in W THEN Msg("extract", 0) ELSE job[w]]
    /\ owned' = [w \in Threads |-> w \notin W /\ owned[w]]
    /\ keep' = [w \in Threads |-> IF w \in W THEN NoCopies ELSE keep[w]]
    /\ seen' = [w \in Threads |-> IF w \in W THEN {} ELSE seen[w]]
    /\ cseen' = [w \in Threads |-> IF w \in W THEN {} ELSE cseen[w]]
    /\ del' = [w \in Threads |-> IF w \in W THEN {} ELSE del[w]]
    /\ cdel' = [w \in Threads |-> IF w \in W THEN {} ELSE cdel[w]]
    /\ broken' = broken \ W /\ noted' = noted \ W

Ack(w) ==
    /\ At(w, "ack") /\ Forget({w})
    /\ UNCHANGED <<apiVars, mishaps, status, file, dataVars, points, queue, envVars>>

\* What the broker still holds as unacknowledged for a worker process.
Unacked(W, m) == {w \in W : pc[w] # "idle" /\ owned[w] /\ job[w] = m}

Requeue(W) == queue' = [m \in Message |-> queue[m] + Cardinality(Unacked(W, m))]

\* A worker process dies, with all its threads.
Crash(W) ==
    /\ crashes + redeliveries < MaxCrashes
    /\ \E w \in W : pc[w] # "idle"
    /\ Requeue(W) /\ Forget(W)
    /\ crashes' = crashes + 1
    /\ mishaps' = mishaps \cup
           (IF \E w \in W : At(w, "ack") /\ owned[w] THEN {"twice"} ELSE {})
    /\ UNCHANGED <<apiVars, status, file, dataVars, points, faults, redeliveries>>

\* The broker loses patience or the connection; the tasks run on.
Redeliver(W) ==
    /\ crashes + redeliveries < MaxRedeliveries
    /\ \E w \in W : pc[w] # "idle" /\ owned[w]
    /\ Requeue(W)
    /\ owned' = [w \in Threads |-> w \notin W /\ owned[w]]
    /\ redeliveries' = redeliveries + 1
    /\ mishaps' = mishaps \cup {"twice"}
    /\ UNCHANGED <<apiVars, status, file, dataVars, points, job, pc, txVars, faults, crashes>>

ExtractStep(w) == \/ ExtractOpen(w) \/ Triage(w) \/ Recorded(w) \/ Convert(w)
                  \/ Upsert(w) \/ Move(w) \/ Extracted(w)

OcrStep(w) == OcrStart(w) \/ Scan(w) \/ Recognise(w) \/ OcrCommit(w) \/ Ocred(w)

ChunkStep(w) == \/ ChunkStart(w) \/ Preserve(w) \/ Preserved(w) \/ DeleteBegin(w)
                \/ DeleteEnd(w) \/ SaveJson(w) \/ InsertChunks(w) \/ Chunked(w)

EmbedStep(w) == \/ ReadChunks(w) \/ EmbedStart(w) \/ Vectors(w) \/ ClearPoints(w)
                \/ Upload(w) \/ ServeBegin(w) \/ ServeEnd(w) \/ StoreContents(w)
                \/ Indexed(w) \/ Complete(w)

EndStep(w) == Retry(w) \/ GiveUp(w) \/ Discard(w) \/ ReportError(w) \/ PublishNext(w) \/ Ack(w)

Step(w) == ExtractStep(w) \/ OcrStep(w) \/ ChunkStep(w) \/ EmbedStep(w) \/ EndStep(w)

Work(w) == Step(w) \/ \E m \in Message : Deliver(w, m)

Disturb == \E W \in {CeleryThreads, OcrThreads} : Crash(W) \/ Redeliver(W)

Next == Register \/ Publish \/ PublishFails \/ Disturb \/ \E w \in Threads : Work(w)

Spec == Init /\ [][Next]_vars

\* A worker that is up runs its tasks to their end and takes what is queued;
\* the API finishes the call it has begun.  Nothing makes crashes happen.
Fairness == WF_vars(Publish) /\ \A w \in Threads : WF_vars(Work(w))

FairSpec == Spec /\ Fairness

-----------------------------------------------------------------------------
\* Properties.

Busy(w) == ~At(w, "idle")

\* What extract_pdf leaves to the tasks after it.
Ready == file = "finished" /\ markdown # "none"

Quiet == api = "done" /\ (\A m \in Message : queue[m] = 0) /\ \A w \in Threads : At(w, "idle")

\* A message of OCR, chunking or embedding exists only for a document whose
\* markdown is stored and whose PDF has reached finished/, whatever crashes,
\* fails or is delivered twice: the move comes after the upsert, and the
\* successor is published after both.  The "no markdown" branches of ocr.py and
\* chunk.py are therefore dead code in the chain.
DownstreamHasMarkdown ==
    ((\E m \in Message : m.task # "extract" /\ queue[m] > 0)
       \/ \E w \in Threads : Busy(w) /\ job[w].task # "extract")
    => Ready

\* Why: a thread that is about to move the PDF has committed the markdown, one
\* that is about to publish a successor has moved the PDF as well, and the
\* places of ocr_images and chunk_document are reached with their own messages.
TaskFits ==
    \A w \in Threads : /\ pc[w] \in OcrLabel => job[w].task = "ocr"
                       /\ pc[w] \in ChunkLabel => job[w].task = "chunk"

ReadyBeforePublish ==
    \A w \in Threads : /\ At(w, "move") => markdown # "none"
                       /\ pc[w] \in {"extracted", "publish"} => Ready

\* The inductive form of DownstreamHasMarkdown: together with where the threads
\* stand, no crash, failure or second delivery of a task undoes the order
\* upsert, move, publish of extract.py.
DownstreamInv == TaskFits /\ ReadyBeforePublish /\ DownstreamHasMarkdown

\* celery_app.py:4-5: tasks may be delivered again because they are idempotent; a
\* rewrite of a document's chunks replaces those of the one before.
RowsUnique == \A r, s \in chunks : r.src = s.src => r = s

\* chunk.py:115: Paddle's text, which no rewrite can make again, is "preserved from
\* permanent loss": no rewrite loses it once its rows are committed.
OcrSurvives == \A o \in recognised : \E r \in chunks : r.src = o

\* embed.py:226: a document reported complete is "in the state to be searched": its
\* points are its chunk rows, and each of these is served by one contents row.
Serves(rows, served) ==
    /\ {c.chunk : c \in served} = rows
    /\ \A c, d \in served : c.chunk = d.chunk => c = d

Searchable == status = "11" => points = chunks /\ Serves(chunks, contents)

\* None of the three holds of every history: run f_rewrite_twice breaks the first,
\* chunk.py:231 breaks the second and embed.py:178 the third.  What follows says
\* which kinds of mishap each depends on, with any number of threads, and that no
\* other failure, retry, crash or second delivery does harm.

\* Two tasks of one worker overlap only where a message was given back although
\* its task was running or had published what follows (task_acks_late): neither
\* failures nor retries, nor a death in the middle of a task, multiply a chain.
OnlySecondDeliveriesOverlap == "overlap" \in mishaps => "twice" \in mishaps

\* No source is in the chunk table twice (chunks of one document are counted,
\* embedded and retrieved per row), unless a task was taken up while another one
\* of the document was running: crashes, retries and second deliveries alone do
\* not double a row, since every rewrite deletes what it replaces.
NoDuplicateRows == "overlap" \notin mishaps => RowsUnique

\* The OCR rows and the markdown without image tags appear in one commit, so a
\* task that is delivered again after a crash finds either both or neither.
OcrRowsCommitWithTags ==
    "overlap" \notin mishaps /\ markdown = "tagged" => \A r \in chunks : r.src \notin Images

\* Paddle's text is never lost again once committed, unless two tasks overlapped
\* or one was given up in the middle of its transaction: failures, retries and
\* deaths of the worker between delete and insert roll the deletion back.
OcrKept == mishaps \cap {"overlap", "exhausted"} = {} => OcrSurvives

\* A document reported complete is searchable, unless two tasks overlapped or a
\* status could not be written: from the first change of a row to the last the
\* status says that work is going on.
CompleteIsSearchable == mishaps \cap {"overlap", "unwritten"} = {} => Searchable

\* Rewriting a document's chunks never leaves it with none, however many threads
\* do so at once, unless one was given up in the middle of its transaction.
RewriteKeepsChunks == [][chunks # {} /\ "exhausted" \notin mishaps => chunks' # {}]_vars

\* Contents rows point at chunk rows that exist, also between two tasks, whose
\* deletes and inserts are in different transactions.
NoDanglingContents == "overlap" \notin mishaps => {c.chunk : c \in contents} \subseteq chunks

Reported == {"11", "91", "92", "93", "95"}

\* Every chain that was published ends, and ends with a status the operator's
\* `cli register --wait` recognises: complete, or the error of the task that
\* gave up.  Threads that wait for each other's row locks do not wait forever.
ChainReports == (api = "done" /\ nameOk) ~> (Quiet /\ status \in Reported)

\* celery_app.py: with acks_late "a worker that dies half-way loses no task".
\* A document whose PDF was extracted, in a system where nothing but worker
\* processes fails, is complete when everything has come to rest.
WorkNotLost == Quiet /\ faults = 0 /\ file = "finished" => status = "11"

-----------------------------------------------------------------------------
\* Inductive invariants.

\* From the delete of the contents rows to the insert of the new chunk rows.
RewriteLabel == {"delete", "deleting", "save", "insert"}

\* A session holds deleted rows only inside a rewrite, in the handler of one whose
\* JSON could not be saved, or, contents rows, at the end of an embedding run; with
\* the retries exhausted, it still does where the status of the error is written.
PendingInRewrite ==
    \A w \in Threads :
        /\ del[w] # {} => pc[w] \in {"save", "insert", "fail", "error"}
        /\ cdel[w] # {} => pc[w] \in RewriteLabel \cup {"store", "fail", "error"}
        /\ pc[w] \in {"fail", "error"} /\ del[w] \cup cdel[w] # {} => job[w].task = "chunk"
        /\ pc[w] = "error" /\ del[w] \cup cdel[w] # {} => "exhausted" \in mishaps

\* Behind OnlySecondDeliveriesOverlap: one message waits or is worked on at a time.
Waiting == {m \in Message : queue[m] > 0}

SingleInv ==
    "twice" \notin mishaps =>
        /\ "overlap" \notin mishaps
        /\ api # "done" => Waiting = {} /\ \A w \in Threads : At(w, "idle")
        /\ \A m \in Message : queue[m] <= 1
        /\ \A m, n \in Waiting : m = n
        /\ \A w \in Threads : Working(w) => Waiting = {}
        /\ \A v, w \in Threads : Working(v) /\ Working(w) => v = w

\* Behind RewriteKeepsChunks: where a status is written, nothing is pending, or a
\* task was given up.
RewriteInv == TaskFits /\ PendingInRewrite

\* One thread of each worker at most is at a task.
Alone ==
    /\ \A v, w \in CeleryThreads : Working(v) /\ Working(w) => v = w
    /\ \A v, w \in OcrThreads : Working(v) /\ Working(w) => v = w

\* A thread works on the messages of its queue, at the places of their task.
Placed ==
    \A w \in Threads :
        /\ Busy(w) => w \in Pool(job[w].task)
        /\ pc[w] \in ExtractLabel => job[w].task = "extract"
        /\ pc[w] \in EmbedLabel => job[w].task = "embed"

\* The markdown is written before the PDF is moved, and rows come after that.
ConvertsFirst ==
    /\ \A w \in CeleryThreads : pc[w] \in {"upsert", "move"} => file = "input"
    /\ file # "finished" => chunks = {} /\ recognised = {}

\* The image tags are there until the OCR rows are, and gone before any task
\* after OCR has a message.
TagsLast ==
    /\ \A w \in OcrThreads : pc[w] \in {"recognise", "ocrcommit"} => markdown = "tagged"
    /\ ((\E m \in Message : m.task \in {"chunk", "embed"} /\ queue[m] > 0)
          \/ (\E w \in Threads : Busy(w) /\ job[w].task \in {"chunk", "embed"})
          \/ (\E w \in OcrThreads : pc[w] \in {"ocred", "publish"}))
       => markdown = "clean"
    /\ markdown = "tagged" => recognised = {}

\* What a rewrite has read, preserved and deleted is what is there.
RewriteReads ==
    \A w \in CeleryThreads :
        /\ pc[w] = "preserving" => cseen[w] = contents
        /\ pc[w] \in RewriteLabel => cdel[w] = contents
        /\ pc[w] \in RewriteLabel /\ "exhausted" \notin mishaps =>
               \A o \in recognised : keep[w][o] > 0
        /\ pc[w] \in RewriteLabel => \A o \in Images : keep[w][o] <= 1
        /\ pc[w] = "deleting" => seen[w] = chunks
        /\ pc[w] \in {"save", "insert"} => del[w] = chunks
        /\ pc[w] \in {"fail", "error"} =>
               \/ del[w] = {} /\ cdel[w] = {}
               \/ del[w] = chunks /\ cdel[w] = contents

ReadOnce == \A w \in OcrThreads : pc[w] = "ocrcommit" => \A o \in Images : keep[w][o] <= 1

\* What an embedding run has read is what is there, and what it has uploaded.
EmbeddingReads ==
    \A w \in CeleryThreads :
        /\ pc[w] \in {"embedding", "vectors", "clear", "upload", "serve", "serving", "store"}
               => seen[w] = chunks
        /\ pc[w] = "upload" => points = {}
        /\ pc[w] \in {"serve", "serving", "store", "indexed", "complete"} => points = chunks
        /\ pc[w] = "serving" => cseen[w] = contents
        /\ pc[w] = "store" => cdel[w] = contents
        /\ pc[w] \in {"indexed", "complete"} => Serves(chunks, contents)

\* Behind the properties of the rows: as long as no tasks overlapped, no two are
\* at work in one worker.
OrderInv == Placed /\ ConvertsFirst /\ TagsLast
RowsInv == /\ RewriteReads /\ ReadOnce /\ EmbeddingReads
           /\ OcrRowsCommitWithTags /\ NoDuplicateRows /\ NoDanglingContents /\ OcrKept
SerialInv == "overlap" \notin mishaps => Alone /\ OrderInv /\ RowsInv

\* Where rows or points change, the status has said that work is going on.
ChangingLabel ==
    RewriteLabel \cup {"preserve", "preserving", "chunked", "vectors", "clear", "upload", "serve",
                      "serving", "store", "indexed", "complete"}

Changing(w) ==
    \/ pc[w] \in ChangingLabel
    \/ pc[w] \in {"fail", "error"} /\ del[w] \cup cdel[w] # {}

CompleteInv ==
    mishaps \cap {"overlap", "unwritten"} = {} =>
        /\ status = "11" => /\ Ready /\ markdown = "clean"
                            /\ points = chunks /\ Serves(chunks, contents)
        /\ \A w \in CeleryThreads : Changing(w) => status # "11"

=============================================================================
