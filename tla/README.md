# docs-rag in TLA+

TLA+ models of docs-rag, the TLC configurations that check them, and theorems
about them that TLAPS proves. docs-rag ingests insurance PDFs (conversion,
OCR, chunking, embedding into Qdrant) and answers questions about them, from
product tables where it can and by retrieval-augmented generation where it
cannot. Paths below are relative to the repository; `v1` is `src/v1`.

## 1. The system

### Components

| Component | Code | State it keeps | Operations |
|---|---|---|---|
| API | `v1/router.py`, `src/api.py` | none of its own; toggles read from the environment | `POST /documents` (row, then Celery chain), `POST /answer`, `POST /retrieve`, table endpoints, feedback |
| Ingest chain | `v1/task/{extract,ocr,chunk,embed}.py`, `src/celery_app.py` | messages in the broker, a SQLAlchemy session per task | four Celery tasks, `acks_late`, queue `celery` (threads) and queue `ocr` |
| Repositories | `v1/repository.py`, `v1/models.py`, `db/schema.sql` | PostgreSQL: status, status log, extract, chunks, contents, product tables | one method per statement or transaction; `update_status` commits whatever the session holds |
| Conversion | `v1/task/extract.py` `run_extract`, `odl/server.py` | output directories, one semaphore per worker process, a Java VM per request | hybrid attempt, quality check, clean-up, Java fallback |
| OCR | `v1/task/ocr.py`, `v1/utils/ocr.py`, `paddle/server.py` | a lazily built engine | filters, one HTTP call per image, four at a time, blocks to rows |
| Chunking | `v1/utils/chunker*.py`, `preprocess.py`, `v1/task/chunk.py` | none | cutting of markdown along headings or in windows, merging of OCR rows |
| Page triage | `v1/utils/triage.py`, `scripts/backfill_triage.py` | `tb_page_triage` | a judgement per page, from the PDF or from the layout tree |
| Embedding | `v1/task/embed.py`, `v1/utils/embedding.py` | a lazily built model and client; Qdrant points | collection set-up, delete and upload of a document's points, contents rows |
| Answer flow | `v1/router.py` `answer`, `v1/rag/*` | one trace record per request | tables, search, rewriting, refusal, context, generation, verification, critic |
| Product tables | `db/schema_insurance.sql`, `scripts/{extract,load,judge}_*.py` | payout rules, waiting periods, coverages, exclusions, terms | extraction from a document's text, one transaction per loading script |
| Policies and articles | `scripts/{parse_clauses,ingest_*,kb_parse,load_*,index_insurance}.py` | products, clauses, references, annexes; Qdrant points of articles | division into policies and articles, loads, index run |
| Staging | `scripts/{blocks,reconstruct_reading_order,stage,gate}.py` | `data/.../processed/` | reading order, text and articles of a document kept side by side, the gate |
| Recovery | `scripts/{reindex,recover_from_artifacts}.py`, `db/schema_reset.sql` | rows, files, points | cutting outside Celery, dropping the tables, rows from what is left |
| Viewer | `v1/inspector/*` | a cache of duplicate groups | which lines reached the index, which chunks say the same |
| Reports | `scripts/trace_summary.py`, `scripts/eval_*.py` | none | numbers from traces, feedback and golden questions |

### How they interact

`POST /documents` commits the row with status 00 and publishes the chain
extract → ocr → chunk → embed. A task reads its message, works through several
commits, file moves and HTTP calls, and its successor is published when it
returns; the message is acknowledged after that. Tasks of one document
communicate through PostgreSQL, the directories `input/`, `finished/`,
`error/`, and Qdrant. The two worker processes share nothing in memory;
the threads of one share the conversion slot and the lazy singletons.
An operator runs the scripts beside the workers, in no order that anything
enforces; each is one transaction or prints one for `psql`.
`POST /answer` reads the product tables in several statements and Qdrant, and
calls the embedding model, the reranker and the LLM; it changes nothing but
its trace, which the reports read later.

### What is hard

* A task is delivered again after a crash (`acks_late`) or while it still runs
  (the broker's consumer timeout), with part of its effects committed.
* Retries re-enter a task whose session still holds what the failed attempt
  wrote; the error handlers commit through that same session.
* Two runs of one task on one document interleave their deletes and inserts
  under READ COMMITTED and wait for each other's row locks.
* The order upsert → move → publish, and delete → insert, delete → upload, is
  what keeps a document whole; a failure may come between any two.
* A client that times out gives its slot away while the server's work runs on.
* Double-checked locking whose builder may fail, or prepares something outside
  the process.
* In the answer flow the state that is told and traced (verdict, hint,
  evidence) must be that of the answer that is finally returned.
* A new edition of a document renumbers its special policies, and reaches the
  tables script by script while requests read them statement by statement.
* A chunker must lose nothing and tear no table from its condition, whatever
  the conversion made of the headings; a document is cut again and again, and
  the OCR rows, which only Paddle could make, must survive every time.
* An article, its entry in the contents, an article of a law that is quoted
  and one of the next policy look alike.

### What makes each component correct

* Ingest: OCR text is never lost once committed; no source twice; a complete
  document is searchable; rows and tags change together; every chain reports.
  The code keeps the first three only while certain mishaps stay away (section
  3); which ones is the content of the properties.
* Conversion: one conversion at a time; a rejected output is not stored; what
  is reported as Java's is Java's.
* Singletons: built once, never seen half-built, no caller left waiting.
* Status: the snapshot is what the log says; `from_status` was real.
* Answer flow: poor results are refused; what is told is about what is
  returned; hints do not contradict themselves; a trace per answer.
* Tables: what is told is the asked product's, with its exclusions, of the
  most specific coverage, and no verdict contradicts it.
* Chunks: each line once, under its heading, tables with header and condition,
  OCR rows kept and numbered among the others.
* Policies: one product each, with its own articles; references resolve; the
  index tells what the tables tell.

## 2. The modules

| Module | Models | Composed of |
|---|---|---|
| `Ingest` | the chain of one document, database, disk, broker, Qdrant | – |
| `Extraction` | `run_extract`, the slot, the ODL server's VMs | – |
| `OnceCell` | abstract: a cell that is filled once, and restarted with the process | – |
| `LazyInit` | the double-checked locking of the four singletons | implements `OnceCell` |
| `QdrantInit` | `_get_qdrant`: the singleton whose builder prepares a collection | extends `LazyInit` |
| `StatusLog` | `update_status` statement by statement, several writers | – |
| `Grading` | `rag/grader.py` as operators on sets of references | – |
| `Context` | sibling expansion and truncation | – |
| `Retrieval` | `classify_query`, the filter, fusion and reranking | – |
| `Answer` | `POST /answer` and `POST /retrieve` | extends the three above |
| `TraceSummary` | what requests leave in traces, and the report on them | – |
| `Judgement` | what the SQL routes conclude from rows (`rag/*_sql.py`) | – |
| `Routing` | score, margin and abstention of the semantic router | – |
| `Facts` | what the scripts read out of a document | extends `Judgement` |
| `Tables` | product tables, loading scripts, requests statement by statement | extends `Facts`, `Routing` |
| `Chunking` | the adaptive chunker and `preprocess.py` | – |
| `Windows`, `FixedChunking` | the windows of the fixed chunker; that chunker | extends `Chunking` |
| `Ocr` | from an image to rows: filters, server, client | extends `Chunking` |
| `Documents` | markdown, rows and points of one document, cut, embedded, dropped, recovered | extends `Ocr`, `FixedChunking` |
| `ReadingOrder` | columns of a page and the order of its blocks | – |
| `Triage` | the judgement of a page, and the backfill script's | – |
| `Inspection` | the viewer: lines that reached the index, groups of like chunks, their cache | – |
| `Clauses` | articles, policies, annexes and references in a text | – |
| `Subitems` | the outline of an article | – |
| `ClauseStore` | the tables of articles, their loads and the index run | extends `Clauses` |
| `Staging` | the staged text and articles, and the gate | extends `Clauses` |
| `DocumentProofs` | theorems about `Documents`, `Windows`, `ReadingOrder`, `Triage` | extends them |
| `LazyInitProofs` | theorems about `LazyInit` and `QdrantInit` | extends `QdrantInit` |
| other `…Proofs` | theorems about the module of that name | extends it |
| `MC…` | instances for TLC, and assumptions TLC evaluates | |

A definition that begins with "Mutant:" is the code with a plausible bug; no
specification uses it. `PROJECT.json` pairs each with the property it breaks.

### Ingest

One document, because every statement is keyed by it. `status`, `markdown`,
`chunks` and `contents` are committed database state; a chunk row is its
generation (the INSERT that made it), its source (a piece of text or an image)
and its copy. `del`, `cdel` and `keep` are what a task's session has deleted,
or preserved, and not committed; `noted` is who has page rows not yet committed; `broken` is the set of threads whose session
a failed statement has poisoned. `queue` is the bag of messages, `owned` says
which thread's message the broker still holds as unacknowledged. An action is
what the code does up to the next commit, call or publication. A delete (of
chunk rows, of contents rows in either task, of page rows) is two actions: a
row lock may have to be waited for, and READ COMMITTED decides by
the rows committed when the statement began. Two deliveries of `extract_pdf`
that write the same page rows collide on their key (`Collide`), and the session
of the second is poisoned. `update_status` is one action
here; its race is the subject of `StatusLog`. `WriteStatus` commits everything
pending in the session, as the shared session of the code does.

Bounds: a resource in `Faulty` fails after fewer than `MaxFaults` disturbances
(failures, deaths, redeliveries); a worker process
dies (with all its threads) after fewer than `MaxCrashes` deaths and
redeliveries, a message whose first delivery still runs is redelivered after
fewer than `MaxRedeliveries` of them. Retries are the
code's own, `MaxRetries`.

`mishaps` is a history of what went wrong and may do harm later: a message was
given back although its task went on or was over (`twice`), a thread took up a
task beside one of the same worker (`overlap`), a task was given up in the
middle of its transaction (`exhausted`), a status was not written
(`unwritten`). No action reads it; properties do.

### Extraction

A document's output directory is described by who wrote it and whether it
passes `check_docling_success`; whether a hybrid conversion is good is open.
A VM is its document, mode, client and the run (retry and crash count) that
asked for it. A timeout takes the client away and leaves the VM, which writes
its output when it is done. Writing is one step.

### LazyInit, OnceCell, QdrantInit

`LazyInit` is the pattern: check, lock, check again, build, assign, release,
return. The refinement mapping to `OnceCell` maps the module variable to the
cell and each thread's last return value to what a caller got. `QdrantInit`
replaces the builder by the requests of `_ensure_collection`; it follows one
process, and requests are synchronous.

### StatusLog

SELECT, UPDATE of the snapshot (takes the row lock), INSERT of the log row
(draws the id), commit; any of them may fail. Two facts about SQLAlchemy are
taken from its documentation, not from this code: mappers without a dependency
are flushed in the order of their names, and an unchanged column is not
written.

### Grading, Context, Retrieval, Answer, TraceSummary

A text is the set of references the patterns of `grader.py` find in it:
articles (with a paragraph), appendices, numbers with a unit, dates. All
arithmetic on them is the code's: amounts in won and days, adjacency of
articles, closeness of numbers. A chunk has a document, a heading path (a
number, in sorting order), its part, its size in tokens, and the references of
its content and of its heading. `Retrieval` has the filter of a request, the
share of the two engines by the kinds of words in the question, and what
fusion and reranking may return for any orders of the engines. `Answer` has
one action per stretch of the handler between two calls of something outside;
the six tables are one pair of actions, `Hit` and `Miss`, over the order they
are asked in (what they say is in `Tables`); `Retrieve` is the other endpoint.
`rec` is the part of the trace record that tells outcomes; `written` is what
reaches `write_trace`. The LLM may write any member of `Drafts`. Not followed:
the 500-point limit of the sibling scroll, the rounding of the token estimate,
and references that cutting a section in the middle would create.
`TraceSummary` builds the full traces of the ways a request can end and the
sections of the report as operators on sequences of them.

### Judgement, Routing, Facts, Tables

A question is the set of names, signals and codes the patterns find; a
document is what the scripts look at: sections, lines of its tables,
sentences. Words are model values with a relation `Within`, because a keyword
that is part of a longer name is the whole difficulty. A script is one action,
since it is one transaction; a request is one action per statement, and
scripts and editions come in between. `MaxOps` bounds the editions and scripts
of a behaviour; the tables start as the scripts leave them (`Start`).

### Chunking, FixedChunking, Windows, Ocr, Documents

A line is what the patterns find in it (kind, length, level, sentence end …),
and lengths are numbers. `Documents` writes a document piece by piece
(`Convert`), then runs OCR, cuts with either chunker, embeds from a snapshot
of rows that any step may overtake, drops the tables and recovers. Bounds:
`MaxPieces` stretches, `MaxImages`, `MaxCuts` cuts, `MaxEmbedded` rows that an
embedding looks at.

### Clauses, ClauseStore, Subitems, Staging

A line is what the patterns find in it: an article in one of three forms, a
section, an annex, an addendum, text, and what it says of policies. An index
run is five actions (two reads, deletion, two uploads) and a crash; a load is
one, because a script prints one transaction. Bounds: `MaxLoads`, `MaxRuns`.

### ReadingOrder, Triage, Inspection

Operators on blocks with whole-number places, on nodes with boxes, and on
short texts over a small alphabet.

## 3. What TLC checks

| Run | Instance | What it shows |
|---|---|---|
| `ingest_rows` | two threads on `celery` as deployed, failures of database, disk, Qdrant or broker, one retry, one crash or one redelivery: two failures and then one of those, or one of those and then one failure | types; the inductive invariant `DownstreamInv`; which mishaps each promise about rows, points and contents depends on, and that nothing else breaks it |
| `ingest_pool` | two threads on `celery`, conversion, Paddle or a model fail twice, one crash | every chain reports |
| `extract_slot` | two threads, three documents, retries, two failures | a rejected hybrid output is not stored; `java` means Java |
| `extract_faults` | a slow conversion, a failure, a crash | two VMs only where one was left behind; every document is settled |
| `singletons` | three threads, two failures, two crashes, three indexes | created once, the abstract cell, every call ends |
| `status_writers` | three writers, three codes, three log ids | the snapshot follows the log, `from_status` was real |
| `answer` | four chunks of two documents, seven drafts, three budgets, two retries | section 1's promises of the answer flow; every request ends |
| `tables` | two insurers, one document in three editions, three scripts or editions, a request at any point | what is told is the asked product's, consistent, most specific |
| `documents` | documents of up to four of eleven stretches, two cuts with either chunker, OCR answers of every kind, embedding, drop and recovery | nothing lost or doubled; tables keep header and condition; rows are numbered |
| `clauses` | four layouts with every combination of contents, law, special policy and annex, two loads, two index runs, a death | one product per policy with its own articles; the index tells what the tables tell |
| `f_rewrite_twice` | violation; two threads, one redelivery | two chunking runs leave every source twice |
| `f_task_lost` | violation; one crash | a crash between move and publication loses the task |

### Assumptions that TLC evaluates

What is a pure function of its input is checked on all small inputs, by an
`ASSUME` of the MC module of the run that uses it:

| In | Assumption | Over | States |
|---|---|---|---|
| `MCAnswer` | `FoundAsAsked`, `WholeRerankerInput` | every filter, all orders of both engines | as many hits as asked for if they exist, all passing the filter; the reranker gets enough |
| | `SummaryCounts`, `SummaryShares`, `SummaryLabels`, `FeedbackJoins` | up to three of eight kinds of traces | sections count every request once; shares are shares; which traces each number is about |
| `MCDocuments` | `WindowsAreCuttings` | texts of up to two windows | windows follow each other |
| | `ColumnsRead` | three blocks in three columns | both reorderings keep every block and agree |
| | `ColumnsSeen`, `BackfillTrustsMore` | small pages | two columns are seen; judged from the layout tree a page is trusted no less than from the PDF, where fonts are known |
| | `LinesJudged`, `PiecesOverlooked`, `PageCounted` | texts of up to five characters | what a "reached" and a "missing" line means, and where it misleads |
| | `GroupsPartition`, `ContainedUnseen`, `CacheFollowsCount` | up to four chunks, two cuttings | like chunks share one group; what the viewer does not see, and when it shows old groups |
| `MCClauses` | `OutlineKept`, `OutlineInOrder`, `MarksCounted` | all short sequences of marks | an outline has the lines behind its first mark, numbered in order |
| | `GateTellsOnePolicy`, `GateBlocksGaps`, `SidecarRestores` | all editions | what the gate lets through is one whole policy; an article lost is blocked |

### Why the bounds are enough

One text and one image are the least with which OCR rows can be lost or doubled
apart from the text's; two threads are what is
deployed and the least that race. Two faults are one in the task and one in its
handler, or one per attempt: with `MaxRetries = 1` they exhaust the retries. In
`ingest_rows` one crash (in the middle of a task or behind its end) or one
redelivery is enough to have chunking run beside chunking, embedding or
extraction; every mishap occurs, and each property has states with it and
without. Deaths and redeliveries share a count, so that a behaviour has one or
the other: `MaxCrashes` and `MaxRedeliveries` each bound their sum. They also
leave room for one failure less behind them, so that the retries are exhausted
in behaviours where any death or redelivery comes last. The theorems
hold for any number of all three. The corpus of
`MCAnswer` has a section of two parts, a section of one, and two documents
that share a heading, so that siblings, foreign siblings and truncation all
occur; its drafts cite what is there, next to it, far from it, in a claim that
cannot be measured, or nothing. In `tables` three operations are a new
edition, its ingestion and one script that is late, the least with which
tables of different editions meet; a request may begin anywhere. Four
stretches of a document are a heading, something before it, something after
it and a page break; two cuts are the least in which the second must keep what
the first left, and a third repeats the second. Two loads of two editions and
two index runs are the least that overlap twice.

### Conditions worth knowing

The promises about rows do not hold of every history of `Ingest`: `RowsUnique`,
`OcrSurvives` and `Searchable` are stated as the code's comments state them and
are false: the first is violated in `f_rewrite_twice`, the second when retries
are used up, the third by an embedding run beside a chunking run (section 6; TLC
finds both with the bounds of `ingest_rows`). `ingest_rows` checks, with the deployed threads, what is true instead:

| Property | holds unless |
|---|---|
| `NoDuplicateRows`, `OcrRowsCommitWithTags`, `NoDanglingContents` | two tasks of one worker overlapped |
| `OcrKept` | they did, or a task was given up with deletions pending |
| `CompleteIsSearchable` | they did, or a status was not written |
| `RewriteKeepsChunks` (also when tasks overlap) | a task was given up with deletions pending |
| `OnlySecondDeliveriesOverlap`: no two tasks overlap | a message was given back although its task went on or was over |

An `extract_pdf` that runs beside its own OCR task resets the markdown, hence
the condition on `OcrRowsCommitWithTags`. In `clauses`
each edition is loaded with the script that suits it (`Suited` in `MCClauses`
says which). `CHECK_DEADLOCK FALSE` stands where the system comes to rest: a
document that is done, a log that is full, a request that is answered.

### Fairness

In `Ingest` every worker thread works on while it can, and the API
finishes its call; deaths and failures are never forced. The code justifies
it: a Celery thread pool runs its threads, calls to the OCR and conversion
servers carry timeouts, PostgreSQL grants a row lock when its holder ends and
breaks deadlocks. `ChainReports` speaks of a working broker, database and
disk; with a broken database no status can be written. In `Extraction` the
worker's threads are fair, and the server is fair to conversions that are not
slow; a slow one may hang for ever. In `QdrantInit` a thread inside a call
goes on; none has to call. In `Answer` the handler's thread goes on: what it
calls answers or raises (an assumption about the database, Qdrant and the
LLM's client). Operators run scripts when they like: `Tables`, `Documents` and
`ClauseStore` have no fairness and no liveness property.

## 4. What TLAPS proves

For every value of the constants, with the assumptions named in each module
(finite sets of threads and chunks, numbers for the bounds):

Ingest:

* `IngestProofs!Typing`: the type invariant, including that chunk rows stay
  finite and message counts natural. One lemma per building block of the
  actions (commit, rollback, failure), then one per task.
* `DownstreamInvariant`, `DownstreamOrder`: no task after `extract_pdf` has a
  message or runs before the markdown is stored and the PDF moved. Not
  inductive alone: a thread about to publish must already be ready, and a
  place of a task must be reached with that task's message. `DownstreamInv`
  adds both.
* `Placement`, `RewriteInvariant`, `RewriteKeepsRows`: no step empties the
  document, unless a task was given up in its transaction. `RewriteInv` says
  where a session may hold deleted rows: between the delete and the insert, in
  the handler behind them, and where an error's status is written only if the
  retries were exhausted. The one hypothesis is `Text # {}`: a document without
  text has no rows to keep.
* `SingleInvariant`, `OverlapsComeFromRedelivery`: as long as no message was
  given back although its task went on or was over, the chain has one message
  at most, waiting or worked on. A crash in the middle of a task gives back the
  message of a task that is gone; a retry replaces its message; so does a
  successor. Only a second delivery makes two tasks of one worker overlap.
* `SerialInvariant` and, from it, `OcrRowsWithTags`, `NoDuplicates`,
  `NothingDangles`, `OcrIsKept`: the promises about rows, with their conditions.
  History only grows (`MishapsGrow`), so that a step into a state without an
  overlap comes from one; there, no thread of a worker is at a task beside
  another (`StepAlone`). `OrderInv` says that
  no two tasks of the document are under way in the wrong order, also after a
  redelivery that waited its turn; `RowsInv` relates what each task has read,
  deleted or preserved to what is committed, which is what the four need to
  survive a commit. No hypothesis is made of threads, retries or failures.
* `CompleteInvariant`, `CompleteIsFound`: a complete document is searchable.
  While rows, points or contents change, the status says that work is going on,
  as long as each status was written.

They hold for any number of threads, retries, failures of every resource,
crashes and redeliveries. The conditions are in the properties and say when a
promise ends: each is needed (`f_rewrite_twice`, section 6).

Conversion, singletons, status:

* `ExtractionProofs!SlotInvariant`, `AwaitedAlone`: two conversions with
  waiting clients never overlap. `SlotInv`: a VM with a client belongs to the
  thread in the slot, which waits and has no answer yet.
* `ExtractionProofs!OneJvmUnlessLeft`: a second VM runs only beside one whose
  client was lost.
* `ExtractionProofs!NoBadHybridStored`, `JavaWasJava`: what is stored passed
  the check, and what is called Java's is Java's, for documents that convert
  in time while the worker lives. The invariant `OutputInv` follows the output
  directory: between the answer of a conversion and the reading of its files
  they are the thread's own (`OwnOutput`) and in the mode that was asked for
  (`AsAsked`), because no VM of that document runs (`OneWorker`).
* `LazyInitProofs!OneObject`, `Implements`: at most one object per process, and
  the implementation of `OnceCell`: each step of the locking maps to a step of
  the cell or to a stutter.
* `LazyInitProofs!QdrantInvariant`, `CollectionOnce`, `PreparedIfQuiet`,
  `QdrantImplements`: two threads never both create the collection; a client
  that is held stands for a prepared one unless a preparation was interrupted;
  with its requests the builder still implements `OnceCell`. `QdrantInv`: a
  request is under way only under the lock, "create" was decided on while
  there was no collection, and indexes are missing only while they are being
  made or after an interruption.
* `StatusLogProofs!SnapshotFollowsLog`: from the update to the commit a writer
  holds the row lock, so ids enter the log in the order of the updates.
  `FromIsReal`: what a writer has read is the `to_status` of a committed row.
Answer flow and layout:

* `AnswerProofs!PoorResultsRefused`, `VerdictIsCurrent`, `TraceIsTrue`,
  `HintIsConsistent`: the four safety properties of the answer flow, by an
  invariant that says, stage by stage, whose verdict is in hand, that nothing
  is told before the end, and that the LLM is reached only past the gate. They
  rest on lemmas about the grader for all sets of references: what is in the
  context is not missing from the evidence (`FoundIsNotMissing`), hence hints
  are consistent and sufficient (`HintConsistent`, `HintSuffices`).
* `AnswerProofs!FilterConfinesContext`: a question that names a document gets
  a context of that document's chunks only. Siblings are fetched without the
  request's filter; the theorem needs that all hits then have one document,
  which is when the code confines the siblings to it.
* `DocumentProofs!WindowsProgress`, `ShortStretchesWhole`: the windows of the
  fixed chunker move on and overlap, and a stretch of text no longer than the
  overlap is whole in one of them, for an overlap of at most half a window.
* `DocumentProofs!ReadingOrderIsTotal`, `ColumnsApart`: the order blocks
  are sorted by is a strict total order; blocks of different columns stand
  more than the gap apart.
* `DocumentProofs!GutterSplitsPage`, `OneGutter`: a gutter has every block on
  one side, and there is at most one.

Documents:

* `DocumentProofs!RowsSound`: for any stretches of lines, any answers of the
  OCR, either chunker and any order of the steps, the invariant `DocInv` holds.
  It says that the markdown stays a list of lines (`AreLines`), and of the rows
  (`RowsInv`): before the OCR there are none; from then on they hold what the
  OCR read, each once, and once the document was cut they are numbered, under
  each heading the text before the images; or they are dropped, and then the
  same is true of the points that the recovery reads.
* `OcrIsKept`, `SectionsAreNumbered` follow from it. What a cut keeps is a
  permutation of exactly the rows of the OCR (`Preserved`); each of them is put
  behind all rows with its heading, so that text stays first (`Place`); the
  numbering counts the rows up to one's own. That the chunkers return a list
  for every text (`CutIsList`) is proved, not assumed: where they go through
  the text piece by piece, the claim is made of every stage, and a stage at
  which it first failed is led to a contradiction.

Tables:

* `TablesProofs!TablesInvariant`: for any documents, keywords, questions and
  schedule of scripts and editions, the tables stay sound and every request's
  intermediate results stay true while scripts run between its statements.
  From it `OnlyItsProduct`, `RateWithExclusions`, `RateIsSpecific`,
  `CoversExclude`, and `OrderSuffices`: scripts run in their order since the
  edition came leave that edition's facts in every table. `TablesSound` says
  of each table what its script guarantees and which later script takes it
  back; `since` (which operations ran since an operation ran last) is what
  makes "in their order" inductive, for every pair of scripts that overwrite
  each other. The
  hypothesis `StartSound` says the same of the tables a behaviour starts with.
  It holds of empty tables whatever the documents (`EmptyIsSound`), and of the
  two states `Start` that the run begins with: `ASSUME StartSound` in `MCTables`
  has TLC say so (it is not left there, because the tables a script with a bug
  leaves are not sound, and the mutants would end at it).
* `RateAgreesWithVerdict`: a reply about a code never refuses a coverage and
  tells its rate, nor tells a rate that has nothing to do with the coverage it
  grants. The verdict is read in one statement and the rate in a later one,
  between which scripts may have loaded another edition. `VerdictInv` carries
  what the verdict says across (`VerdictSound`) and says of the rates that they
  are those of one edition (`RatesSound`). It needs `PartsRated`: a document
  that has a rate for a coverage that can be refused has one for each coverage
  with ranges whose name is a part of that name. Without it the fallback of
  `select_payout` to partial names can tell the rate of the coverage refused.
  `CoveragesAssumption` is what `payout_sql.py:26-31` asks of the list of
  keywords: a coverage whose name contains a keyword is a keyword itself. TLC
  evaluates both on the instance.
* `ToldOfItsOwn`: as long as later editions only add subcontracts, the waiting
  period and the reduction told of a subcontract are what some edition states of
  its name, or of a name akin to it that belonged to no single subcontract
  then. Both halves are needed: `load_waiting.py` gives a fact to partial
  matches where no name matches, a later edition may add the subcontract that
  was meant, and the reductions stay until `load_payout.py` runs again; an
  edition that renumbers gives them to another subcontract (section 6).
  `WaitingInv` says of every table that its subcontracts are those of one
  edition and that what it knows of each is about its name (`FactsSound`).

Policies:

* `ClauseStoreProofs!IndexInvariant`, `IndexIsTold`: the index tells what the
  tables tell, for any overlap of loads and index runs. `RunInv` follows a run:
  what it read of a product not loaded since is what the tables hold (`stale`
  is why), and from the deletion on no product it replaces is called indexed
  or has a point that was not read.
* `StoreInvariant`, `KeysAlwaysHold`: whatever the lines of a document, no
  row's key is there twice for psql to reject, and references to articles, exclusions and what pays name
  articles that are there. The argument follows the parser: where numbers stop
  rising a policy ends, hence an article's number occurs once (`CutDistinct`);
  of the policies found at most one is ordinary, in each of the three layouts
  (`SectionsOneOrdinary`, `RunsOneOrdinary`, `KbOneOrdinary`), hence products
  have numbers of their own (`NumbersDiffer`) and an article's product says
  whose it is (`RowsOfPolicy`); of annexes with one number the first stays
  (`AnnexesListed`). The only assumption about documents is that articles have
  numbers.
* `RefsAlwaysResolve`: references to annexes as well, under `OrdinaryFound`:
  every script finds an article of the ordinary policy in every edition. It is
  needed, as annexes are loaded with that policy (section 6); the documents of
  the run satisfy it.

Every inductive invariant was checked by TLC before it was proved, on the
instance of the run that checks the property it is for. Where a proof needed
induction (a least or greatest element, the n-th of a set, numbers that rise
throughout), it goes by the least counterexample of a set of numbers, which
well-founded induction of the library gives without an operator parameter.

Only model-checked:

* liveness (`ChainReports`, `DocsSettle`, `CallsEnd`, `Answered`), which needs
  fairness and ENABLED;
* `LinesOnce`, `TablesTellCondition`, `PathEncloses` of `Documents`: they
  compare which lines are in a chunk with the headings and tables of the whole
  file. That is induction over the text with what each of the cleaning,
  segmenting and packing steps does to places, far beyond listness;
* `PoliciesKept`, which compares the parser with what a document was written
  as, for documents of the four layouts;
* the assumptions of section 3.

Only proved, as no run names them: the lemmas, `PreparedIfQuiet` and the
theorems about operators.

## 5. What is not modelled

`PROJECT.json` lists every part. Left out with reason:

* the patterns themselves and all wording (input and output guards, prompts,
  formatting of replies): a model checker does not see a missed word;
* model inference (embedding, reranking, OCR, LLM), whose results are open,
  and scores beyond the levels the code compares them with;
* command line, configuration, schemas, logging, Docker: start-up and I/O. The
  constants of `settings.py` are parameters, the statuses the command line
  waits for are those of `ChainReports`;
* of the parts listed as partly modelled: the adapters of `blocks.py` for
  other engines' output and its rendering to markdown, the rows of an annex
  and the facts of a product other than its name, `/embeddings`, the storing of
  feedback (an insert), clients and prompts, the viewer's pages, the evaluation
  against golden questions, and reports over a hundred or more traces, whose
  percentiles are the library's.

## 6. Divergences met while modelling

Two are runs (`f_rewrite_twice`, `f_task_lost`). The others are recorded here; each follows from
a model when the bound or condition named is lifted, or from the definition.

Ingest, status, singletons

* Retries used up between the delete and the insert of the chunk rows: the
  handler's `update_status` (`chunk.py:231`) commits the delete, and the OCR
  rows that `chunk.py:115` promises to keep are gone: `OcrSurvives`
  fails after two failures of the disk.
* With the two threads of `docker-compose.yml:232`, a message that is delivered
  again while its task runs, or whose worker died before the acknowledgement,
  makes two tasks of a document overlap. Two chunking runs leave every chunk
  twice: neither delete sees the other's rows (`f_rewrite_twice`). An embedding
  run indexes rows that a chunking run replaces meanwhile (`embed.py:178`
  against `176-177`, `226`), and the document is complete and not searchable:
  `Searchable` fails after one death of a worker; two embedding runs leave each contents row twice.
* A database error inside `_record_triage` is swallowed and leaves the session
  poisoned (`extract.py:241`); so does the key of `tb_page_triage`
  (`schema.sql:313`) when two deliveries write a document's page rows. After any database error in a task the status
  behind it cannot be written: the document stays in 22, 24, 32 or 42, and
  `cli register --wait` waits on. A document that was complete and is worked on
  again keeps its 11 meanwhile, which is why `CompleteIsSearchable` asks for
  statuses that were written. A broker that is down at `POST /documents`
  (`router.py:197`) leaves the row in 00, one that is down later
  (`extract.py:336`) ends the chain without a word.
* An embedding run that finds no chunk returns at once, with the old points
  and status 31 in place (`embed.py:117`); an image whose OCR call fails counts
  as empty (`ocr.py:161`); a second delivery of `extract_pdf` for a finished
  document overwrites 11 by 91 (`extract.py:342`); a failed move to `error/`
  skips the status (`extract.py:341`); documents with one `document_name`
  share their files (`extract.py:254`).
* A collection whose preparation was interrupted is never completed: the next
  call finds it and skips the indexes. Two processes may both find none
  (`embed.py:63`).
* After a client timeout a second Java VM starts beside the first one
  (`extract.py:141` speaks of one at a time), and the late one overwrites the
  output of the fallback (`extract.py:185`): hybrid output is then stored as
  Java's.
* Concurrent writers break the chain of `from_status` (each was real, two rows
  may name the same; `scripts/reindex.py:15` describes one).
* `ocr.py:152` sends four images at a time to a server whose compose file
  allows one inference at a time.

Answer flow

* The best hit's section may be cut although it fits: sections are put in the
  order of their headings (`sibling.py:71`) before the truncation takes them
  from the front (`tokens.py:52`).
* The trace of a request that raises is handed to `BackgroundTasks`
  (`router.py:770`), which run only after a response: it is never written,
  while `docs/architecture.md:124` promises a line per query. An answer whose
  warnings are about a reference in no claim has no `groundedness`, and
  `router.py:755` raises `KeyError`.
* The evidence counts retrieved chunks that the truncation has cut from the
  context, while `grader.py:548` speaks of what the LLM was conditioned on.
  All dates have the value 0 (`grader.py:206`): a wrong date passes.
  부칙 제N조 is also found as 제N조, and counts as its neighbour. A claim with
  only numbers counts as verifiable and can never be supported, the defect of
  the denominator that `router.py:113-117` argues against; an answer supported
  by siblings only has groundedness 0 with risk "pass".
* Rewriting goes on after a rewritten search below `CRAG_ABORT_THRESHOLD`; only
  the first search is looked at. `clients.py` asks callers of `invoke_clean` to
  handle an empty text; `rewrite_query` does, `answer` returns it.
* If the hits' documents differ, siblings are fetched by heading alone, and a
  part of another document may take the place of the hit's own
  (`sibling.py:34` calls the headings enough); page and service filters do not
  reach siblings at all, and chunks without known pages never match a page.
* `classify_query`: with a reference 절차 beats 비교, without one 비교 beats 절차.
* The report on traces: `low_confidence_answers` ("그 아래인데 답변까지 간 건수",
  shown as candidates of silent failure) counts exactly the refusals with hits
  (`SummaryCounts`), as the gate of `router.py` lets no such answer through;
  `final_below_threshold_count` counts every table answer, whose score is
  missing; `decomposition` is never set; table answers are not timed, and
  `LATENCY_SPANS` names three spans nothing times; scores of exactly 0.3, 0.6
  and 0.7 fall one bin low.

Tables and policies

* A question that names no insurer mixes companies; a 특약's reconciled
  coverage answer attaches the rate without exclusions; `get_terms` takes one
  row without an order, and so does the selection of a rate among equals.
* `load_payout` calls itself repeatable and wipes the rows that another script
  inserted (`kb_table`); `load_coverage` wipes KB's ranges, while
  `load_kb_coverage` keeps the old ranges of a product whose document yields none
  any more (`load_kb_coverage.py:52`); ingesting again
  wipes waiting and cooling periods; `load_clauses` alone empties the exclusion
  map; its `LIKE base\_%` also removes the references of special policies, and
  the underscores of a product's id are not escaped.
* Special policies that a new edition has no longer stay, with their articles,
  and stay indexed; renumbered ones leave reductions of another coverage; a
  main policy without a withdrawal period is given a 준용 note; duplicate
  section names fall to a partial match; `_expand_c` drops finer C codes.
* `split_sections` documents a filter of contents (`parse_clauses.py:165-166`)
  that a region switches off, and `ingest_compound` passes one; half-form
  entries with dots and ten characters pass it; the comment at
  `parse_clauses.py:232` says a number that starts again ends the body, yet the
  last article's runs on; an unbulleted annex entry, or an addendum before a
  section, ends the body; the last clause of a run has the next contract's
  heading; `detect_subcontracts` (262) claims the same rule; `parse_compound`
  takes quoted laws as policies. References to an annex count as resolved
  without it, and those of a special policy to the ordinary policy's articles
  as to its own. KB's parent region starts with its contents unfiltered. If no
  article of the ordinary policy is found, annexes are not loaded, and
  references to them meet those of an earlier edition (`OrdinaryFound`).
* `parse_subitems`: once an item came before any paragraph, ① is never
  recognised; a continuation after a sub-item goes to the item although the
  comment (111) says the deepest node; lines before the first mark are dropped.
* `stage.py` prefers the processed text even if the raw one is newer; the
  `FAIL` of `gate.py` stops nothing, and it cannot see that the last article is
  missing.

Chunks, pages, viewer, recovery

* `task/chunk.py:30-31`: an OCR chunk whose heading no chunk has goes to the
  end, not to its place; fresh OCR rows all have `seq` 0; cutting again can
  change their order; `_strip_toc_from_heading_path` never applies; an oversize
  sentence with a short rest exceeds `TEXT_MAX`.
* A document without headings of which cleaning leaves nothing is kept with its
  raw text (`chunker_adaptive.py:572`): a broken table or page marks become a
  chunk, the exception in `LinesOnce`.
* The fixed chunker keeps a second contents section right after the first,
  swallows deeper headings after one, and a short tail may lie wholly inside
  the window before it; heading and pages of a window are estimates.
* `blocks.reorder` claims the result of the other reordering (209), but puts
  nodes without a page first, where that one drops them. A landscape page whose
  text is narrow is snapped to portrait paper; four tags of the triage need
  signals that neither adapter fills; the backfill trusts more than the PDF.
* Recovery: run twice, it doubles contents and extract rows; its docstring says
  `schema.sql` drops tables (it is `schema_reset.sql`); the id sequence is set
  in a second transaction, and rows registered between drop and recovery
  collide with old ids; contents lose their heading path, a page range is
  dropped unless both ends are known, and a match by text may be the wrong one.
* The viewer's cache is keyed by the number of chunks, "재청킹하면 자동
  무효화된다" (`routes.py:42-43`): a document cut again into as many chunks shows
  the groups of chunks that are gone (`CacheFollowsCount`). Requests run on
  several threads, and the entry found at `routes.py:52` may be evicted before
  it is read at 56. `dup.py:22` says a window cut at a border is caught by the
  next; a short text inside a longer one is seen only at a multiple of the step
  (`ContainedUnseen`), the case that the choice of containment (31-33) is for.
  `coverage.py` may call a line missing whose characters are all there
  (`PiecesOverlooked`), and keeps one that runs from one chunk into the next
  (`PageCounted`), though no chunk has it.

## 7. What is left

* The proofs of `LinesOnce`, `TablesTellCondition` and `PathEncloses`: which
  places of the file each step of the chunkers keeps.
* The adapters of `blocks.py` and its rendering to markdown; the rows of an
  annex; the evaluation against golden questions.
* Several documents in `Ingest`, for those that share a file name.
