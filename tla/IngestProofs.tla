---------------------------- MODULE IngestProofs ----------------------------
(***************************************************************************)
(* Theorems about the ingest chain, for any number of worker threads, any  *)
(* document, any choice of failing resources and any bound on faults,      *)
(* crashes and redeliveries.                                               *)
(***************************************************************************)
EXTENDS Ingest, FiniteSetTheorems, TLAPS

-----------------------------------------------------------------------------
\* Lemmas about the operators.

\* The rows of one INSERT are finitely many: a row per text and a row per copy
\* of each image's OCR text.
LEMMA NewRowsFinite ==
    ASSUME NEW g \in Nat, NEW copies \in [Images -> Nat]
    PROVE  /\ IsFiniteSet(NewRows(g, Text, copies))
           /\ IsFiniteSet(NewRows(g, {}, copies))
           /\ NewRows(g, Text, copies) \subseteq Row
           /\ NewRows(g, {}, copies) \subseteq Row
<1> DEFINE texts == {[gen |-> g, src |-> t, copy |-> 1] : t \in Text}
           ofImage(o) == {[gen |-> g, src |-> o, copy |-> k] : k \in 1 .. copies[o]}
           images == {ofImage(o) : o \in Images}
<1>1. IsFiniteSet(texts)
  <2> DEFINE f == [t \in Text |-> [gen |-> g, src |-> t, copy |-> 1]]
  <2>1. f \in Surjection(Text, texts)
    BY DEF Surjection
  <2>2. QED BY <2>1, IngestAssumption, FS_Surjection
<1>2. ASSUME NEW o \in Images PROVE IsFiniteSet(ofImage(o))
  <2> DEFINE f == [k \in 1 .. copies[o] |-> [gen |-> g, src |-> o, copy |-> k]]
  <2>1. f \in Surjection(1 .. copies[o], ofImage(o))
    BY DEF Surjection
  <2>2. IsFiniteSet(1 .. copies[o])
    <3>1. copies[o] \in Int /\ 1 \in Int OBVIOUS
    <3>2. QED BY <3>1, FS_Interval
  <2>3. QED BY <2>1, <2>2, FS_Surjection
<1>3. IsFiniteSet(images)
  <2> DEFINE f == [o \in Images |-> ofImage(o)]
  <2>1. f \in Surjection(Images, images)
    <3> HIDE DEF ofImage
    <3> QED BY DEF Surjection
  <2>2. QED BY <2>1, IngestAssumption, FS_Surjection
<1>4. IsFiniteSet(UNION images)
  <2>1. \A T \in images : IsFiniteSet(T)
    BY <1>2
  <2> HIDE DEF images
  <2>2. QED BY <2>1, <1>3, FS_UNION
<1>5. NewRows(g, Text, copies) = texts \cup UNION images
  BY DEF NewRows
<1>6. NewRows(g, {}, copies) = UNION images
  <2>1. NewRows(g, {}, copies) = {} \cup UNION images
    BY DEF NewRows
  <2>2. QED BY <2>1
<1>7. texts \subseteq Row
  BY DEF Row
<1>8. UNION images \subseteq Row
  <2>1. ASSUME NEW o \in Images PROVE ofImage(o) \subseteq Row
    BY DEF Row
  <2>2. QED BY <2>1
<1> HIDE DEF texts, images
<1>9. QED BY <1>1, <1>4, <1>5, <1>6, <1>7, <1>8, FS_Union

\* The copies of an image are a number.
LEMMA CopiesType ==
    ASSUME TypeOK
    PROVE  \A o : Copies(o) \in Nat
<1>1. SUFFICES ASSUME NEW o PROVE Copies(o) \in Nat
  OBVIOUS
<1>2. {r \in chunks : r.src = o} \in SUBSET chunks
  OBVIOUS
<1>3. QED BY <1>2, FS_Subset, FS_CardinalityType DEF TypeOK, Copies

\* What goes back to the queue is counted by a number, which is positive only
\* if a busy thread works on that message.
LEMMA UnackedCount ==
    ASSUME NEW W \in SUBSET Threads, NEW m
    PROVE  /\ Cardinality(Unacked(W, m)) \in Nat
           /\ Cardinality(Unacked(W, m)) > 0 =>
                \E w \in W : pc[w] # "idle" /\ job[w] = m
<1>1. Unacked(W, m) \in SUBSET Threads
  BY DEF Unacked
<1>2. IsFiniteSet(Unacked(W, m))
  BY <1>1, IngestAssumption, FS_Subset
<1>3. Cardinality(Unacked(W, m)) \in Nat
  BY <1>2, FS_CardinalityType
<1>4. Unacked(W, m) = {} => Cardinality(Unacked(W, m)) = 0
  BY FS_EmptySet
<1>5. QED BY <1>3, <1>4 DEF Unacked

-----------------------------------------------------------------------------
\* Type correctness.  One lemma per building block, then one per task.

\* A commit ends the transaction and only takes rows away.
LEMMA CommitPendingTyped ==
    ASSUME TypeOK, NEW w \in Threads, CommitPending(w)
    PROVE  /\ IsFiniteSet(chunks') /\ chunks' \subseteq Row /\ contents' \subseteq ContentsRow
           /\ broken' \subseteq Threads /\ noted' \subseteq Threads
           /\ del' \in [Threads -> SUBSET Row] /\ cdel' \in [Threads -> SUBSET ContentsRow]
<1>1. IsFiniteSet(chunks \ del[w])
  <2>1. chunks \ del[w] \in SUBSET chunks
    OBVIOUS
  <2>2. QED BY <2>1, FS_Subset DEF TypeOK
<1>2. QED BY <1>1 DEF TypeOK, CommitPending, Collide, EndTx

\* update_status commits what was pending, or fails.
LEMMA WriteStatusTyped ==
    ASSUME TypeOK, NEW w \in Threads, NEW code \in Status,
           WriteStatus(w, code), pc' \in [Threads -> Label]
    PROVE  TypeOK'
<1> USE DEF apiVars, envVars, deliveryVars
<1>1. CASE status' = code /\ CommitPending(w) /\ UNCHANGED <<mishaps, envVars>>
  <2>1. /\ IsFiniteSet(chunks') /\ chunks' \subseteq Row /\ contents' \subseteq ContentsRow
        /\ broken' \subseteq Threads /\ noted' \subseteq Threads
        /\ del' \in [Threads -> SUBSET Row] /\ cdel' \in [Threads -> SUBSET ContentsRow]
    BY <1>1, CommitPendingTyped
  <2>2. QED BY <1>1, <2>1 DEF TypeOK, WriteStatus
<1>2. CASE /\ UNCHANGED envVars \/ Fault("db")
           /\ broken' = broken \ {w} /\ EndTx(w)
           /\ mishaps' = mishaps \cup {"unwritten"}
           /\ UNCHANGED <<status, chunks, contents>>
  BY <1>2 DEF TypeOK, WriteStatus, EndTx, Fault, Mishap
<1>3. QED BY <1>1, <1>2 DEF WriteStatus

\* A thread that moves on stands at a place of the tasks.
LEMMA GotoTyped ==
    ASSUME TypeOK, NEW w \in Threads, NEW l \in Label, Goto(w, l)
    PROVE  pc' \in [Threads -> Label]
BY DEF TypeOK, Goto

\* A failure is counted up to its bound.
LEMMA FaultTyped ==
    ASSUME TypeOK, UNCHANGED envVars \/ \E k : Fault(k)
    PROVE  faults' \in Nat /\ crashes' \in Nat /\ redeliveries' \in Nat
BY DEF TypeOK, Fault, envVars

\* What a poisoned session or a rollback leaves behind has its types.
LEMMA AbortTyped ==
    ASSUME TypeOK, NEW w \in Threads,
           UNCHANGED txVars \/ Poison(w) \/ Rollback(w)
    PROVE  /\ broken' \subseteq Threads /\ noted' \subseteq Threads
           /\ keep' \in [Threads -> [Images -> Nat]]
           /\ seen' \in [Threads -> SUBSET Row] /\ cseen' \in [Threads -> SUBSET ContentsRow]
           /\ del' \in [Threads -> SUBSET Row] /\ cdel' \in [Threads -> SUBSET ContentsRow]
BY DEF TypeOK, Poison, Rollback, EndTx, txVars

\* A failing statement or resource leads to the error handler.
LEMMA FailureTyped ==
    ASSUME TypeOK, NEW w \in Threads, NEW k, NEW l \in Label,
           DbFails(w, l) \/ ResourceFails(w, k)
    PROVE  TypeOK'
<1>1. "fail" \in Label
  BY DEF Label, ExtractLabel, OcrLabel, ChunkLabel, EmbedLabel
<1>2. pc' \in [Threads -> Label]
  BY <1>1, GotoTyped DEF DbFails, ResourceFails
<1>3. faults' \in Nat /\ crashes' \in Nat /\ redeliveries' \in Nat
  BY FaultTyped DEF DbFails, ResourceFails
<1>4. QED BY <1>2, <1>3, AbortTyped
          DEF TypeOK, DbFails, ResourceFails, apiVars, dataVars, deliveryVars

\* A step that moves one thread on and changes nothing else.
LEMMA MoveOnTyped ==
    ASSUME TypeOK, NEW w \in Threads, NEW l \in Label, Goto(w, l),
           UNCHANGED <<apiVars, mishaps, status, file, dataVars, points, deliveryVars, txVars, envVars>>
    PROVE  TypeOK'
BY GotoTyped DEF TypeOK, apiVars, dataVars, deliveryVars, txVars, envVars

\* A DELETE of the contents rows reads them, then locks those that are left.
LEMMA ContentsReadTyped ==
    ASSUME TypeOK, NEW w \in Threads, NEW l \in Label, Goto(w, l),
           cseen' = [cseen EXCEPT ![w] = contents],
           UNCHANGED <<apiVars, mishaps, status, file, dataVars, points, deliveryVars,
                       broken, keep, seen, del, cdel, noted, envVars>>
    PROVE  TypeOK'
BY GotoTyped DEF TypeOK, apiVars, dataVars, deliveryVars, envVars

LEMMA LockTyped ==
    ASSUME TypeOK, NEW w \in Threads, LockContents(w)
    PROVE  cdel' \in [Threads -> SUBSET ContentsRow] /\ cseen' \in [Threads -> SUBSET ContentsRow]
BY DEF TypeOK, LockContents

\* The steps of extract_pdf.
LEMMA ExtractTyped ==
    ASSUME TypeOK, NEW w \in Threads, ExtractStep(w)
    PROVE  TypeOK'
<1> USE DEF Label, ExtractLabel, OcrLabel, ChunkLabel, EmbedLabel, Status
<1>1. CASE ExtractOpen(w)
  BY <1>1, WriteStatusTyped, MoveOnTyped, GotoTyped DEF ExtractOpen
<1>2. CASE Triage(w)
  BY <1>2, MoveOnTyped DEF Triage
<1>8. CASE Recorded(w)
  <2>1. pc' \in [Threads -> Label]
    BY <1>8, GotoTyped DEF Recorded
  <2>2. CASE noted' = {w} /\ UNCHANGED <<broken, keep, seen, cseen, del, cdel, envVars>>
    BY <1>8, <2>1, <2>2 DEF Recorded, TypeOK, apiVars, dataVars, deliveryVars, envVars
  <2>3. CASE UNCHANGED <<txVars, envVars>> \/ (Fault("db") /\ Poison(w))
    BY <1>8, <2>1, <2>3, FaultTyped, AbortTyped
       DEF Recorded, TypeOK, apiVars, dataVars, deliveryVars
  <2>4. QED BY <1>8, <2>2, <2>3 DEF Recorded
<1>3. CASE Convert(w)
  BY <1>3, MoveOnTyped, FailureTyped DEF Convert
<1>4. CASE Upsert(w)
  <2>1. CASE markdown' = FreshMarkdown /\ Goto(w, "move") /\ Collide(w) /\ EndTx(w)
             /\ UNCHANGED <<apiVars, mishaps, status, file, chunks, contents, gen, recognised,
                            points, deliveryVars, keep, seen, cseen, envVars>>
    BY <2>1, GotoTyped
       DEF TypeOK, FreshMarkdown, Collide, EndTx, apiVars, deliveryVars, envVars
  <2>2. QED BY <1>4, <2>1, MoveOnTyped, FailureTyped DEF Upsert
<1>5. CASE Move(w)
  <2>1. CASE file' = "finished" /\ Goto(w, "extracted")
             /\ UNCHANGED <<apiVars, mishaps, status, dataVars, points, deliveryVars, txVars, envVars>>
    BY <2>1, GotoTyped DEF TypeOK, apiVars, dataVars, deliveryVars, txVars, envVars
  <2>2. QED BY <1>5, <2>1, MoveOnTyped, FailureTyped DEF Move
<1>6. CASE Extracted(w)
  BY <1>6, WriteStatusTyped, GotoTyped DEF Extracted
<1>7. QED BY <1>1, <1>2, <1>3, <1>4, <1>5, <1>6, <1>8 DEF ExtractStep

\* The steps of ocr_images.
LEMMA OcrTyped ==
    ASSUME TypeOK, NEW w \in Threads, OcrStep(w)
    PROVE  TypeOK'
<1> USE DEF Label, ExtractLabel, OcrLabel, ChunkLabel, EmbedLabel, Status
<1>1. CASE OcrStart(w)
  BY <1>1, WriteStatusTyped, GotoTyped DEF OcrStart
<1>2. CASE Scan(w)
  BY <1>2, MoveOnTyped, FailureTyped DEF Scan
<1>3. CASE Recognise(w)
  <2>1. pc' \in [Threads -> Label]
    BY <1>3, GotoTyped DEF Recognise
  <2>2. faults' \in Nat /\ crashes' \in Nat /\ redeliveries' \in Nat
    BY <1>3, FaultTyped DEF Recognise
  <2>3. keep' \in [Threads -> [Images -> Nat]]
    BY <1>3 DEF Recognise, TypeOK
  <2>4. QED BY <1>3, <2>1, <2>2, <2>3 DEF Recognise, TypeOK, apiVars, dataVars, deliveryVars
<1>4. CASE OcrCommit(w)
  <2>1. CASE DbFails(w, "error")
    BY <2>1, FailureTyped
  <2>2. CASE ~DbFails(w, "error")
    <3>1. gen' \in Nat
      BY <1>4, <2>2 DEF OcrCommit, TypeOK
    <3>2. keep[w] \in [Images -> Nat]
      BY DEF TypeOK
    <3>3. IsFiniteSet(chunks') /\ chunks' \subseteq Row
      <4> DEFINE rows == NewRows(gen', {}, keep[w])
      <4>1. chunks' = chunks \cup rows
        BY <1>4, <2>2 DEF OcrCommit
      <4>2. IsFiniteSet(rows) /\ rows \subseteq Row
        BY <3>1, <3>2, NewRowsFinite
      <4> HIDE DEF rows
      <4>3. IsFiniteSet(chunks) /\ chunks \subseteq Row
        BY DEF TypeOK
      <4>4. QED BY <4>1, <4>2, <4>3, FS_Union
    <3>4. pc' \in [Threads -> Label]
      BY <1>4, <2>2, GotoTyped DEF OcrCommit
    <3>5. QED BY <1>4, <2>2, <3>1, <3>3, <3>4
              DEF OcrCommit, TypeOK, apiVars, deliveryVars, txVars, envVars
  <2>3. QED BY <2>1, <2>2
<1>5. CASE Ocred(w)
  BY <1>5, WriteStatusTyped, GotoTyped DEF Ocred
<1>6. QED BY <1>1, <1>2, <1>3, <1>4, <1>5 DEF OcrStep

\* The steps of chunk_document.
LEMMA ChunkTyped ==
    ASSUME TypeOK, NEW w \in Threads, ChunkStep(w)
    PROVE  TypeOK'
<1> USE DEF Label, ExtractLabel, OcrLabel, ChunkLabel, EmbedLabel, Status
<1>1. CASE ChunkStart(w)
  BY <1>1, WriteStatusTyped, GotoTyped DEF ChunkStart
<1>2. CASE Preserve(w)
  BY <1>2, ContentsReadTyped DEF Preserve
<1>9. CASE Preserved(w)
  <2>1. CASE DbFails(w, "fail")
    BY <2>1, FailureTyped
  <2>2. CASE ~DbFails(w, "fail")
    <3>1. pc' \in [Threads -> Label]
      BY <1>9, <2>2, GotoTyped DEF Preserved
    <3>2. [o \in Images |-> Copies(o)] \in [Images -> Nat]
      BY CopiesType
    <3>3. cdel' \in [Threads -> SUBSET ContentsRow] /\ cseen' \in [Threads -> SUBSET ContentsRow]
      BY <1>9, <2>2, LockTyped DEF Preserved
    <3>4. QED BY <1>9, <2>2, <3>1, <3>2, <3>3
              DEF Preserved, TypeOK, apiVars, dataVars, deliveryVars, envVars
  <2>3. QED BY <2>1, <2>2
<1>3. CASE DeleteBegin(w)
  <2>1. pc' \in [Threads -> Label]
    BY <1>3, GotoTyped DEF DeleteBegin
  <2>2. QED BY <1>3, <2>1 DEF DeleteBegin, TypeOK, apiVars, dataVars, deliveryVars, envVars
<1>4. CASE DeleteEnd(w)
  <2>1. pc' \in [Threads -> Label]
    BY <1>4, GotoTyped DEF DeleteEnd
  <2>2. QED BY <1>4, <2>1 DEF DeleteEnd, TypeOK, apiVars, dataVars, deliveryVars, envVars
<1>5. CASE SaveJson(w)
  BY <1>5, MoveOnTyped, FailureTyped DEF SaveJson
<1>6. CASE InsertChunks(w)
  <2>1. CASE DbFails(w, "fail")
    BY <2>1, FailureTyped
  <2>2. CASE ~DbFails(w, "fail")
    <3>1. gen' \in Nat
      BY <1>6, <2>2 DEF InsertChunks, TypeOK
    <3>2. keep[w] \in [Images -> Nat]
      BY DEF TypeOK
    <3>3. chunks \ del[w] \in SUBSET chunks
      OBVIOUS
    <3>4. IsFiniteSet(chunks \ del[w]) /\ chunks \ del[w] \subseteq Row
      BY <3>3, FS_Subset DEF TypeOK
    <3>5. IsFiniteSet(chunks') /\ chunks' \subseteq Row
      <4> DEFINE rows == NewRows(gen', Text, keep[w])
                 left == chunks \ del[w]
      <4>1. chunks' = left \cup rows
        BY <1>6, <2>2 DEF InsertChunks
      <4>2. IsFiniteSet(rows) /\ rows \subseteq Row
        BY <3>1, <3>2, NewRowsFinite
      <4>3. IsFiniteSet(left) /\ left \subseteq Row
        BY <3>4
      <4> HIDE DEF rows, left
      <4>4. QED BY <4>1, <4>2, <4>3, FS_Union
    <3>6. pc' \in [Threads -> Label]
      BY <1>6, <2>2, GotoTyped DEF InsertChunks
    <3>7. QED BY <1>6, <2>2, <3>1, <3>5, <3>6
              DEF InsertChunks, EndTx, TypeOK, apiVars, deliveryVars, envVars
  <2>3. QED BY <2>1, <2>2
<1>7. CASE Chunked(w)
  BY <1>7, WriteStatusTyped, GotoTyped DEF Chunked
<1>8. QED BY <1>1, <1>2, <1>3, <1>4, <1>5, <1>6, <1>7, <1>9 DEF ChunkStep

\* The steps of embed_document.
LEMMA EmbedTyped ==
    ASSUME TypeOK, NEW w \in Threads, EmbedStep(w)
    PROVE  TypeOK'
<1> USE DEF Label, ExtractLabel, OcrLabel, ChunkLabel, EmbedLabel, Status
<1>1. CASE ReadChunks(w)
  <2>1. CASE DbFails(w, "fail")
    BY <2>1, FailureTyped
  <2>2. CASE ~DbFails(w, "fail")
    <3>1. pc' \in [Threads -> Label]
      BY <1>1, <2>2, GotoTyped DEF ReadChunks
    <3>2. QED BY <1>1, <2>2, <3>1
              DEF ReadChunks, TypeOK, apiVars, dataVars, deliveryVars, envVars
  <2>3. QED BY <2>1, <2>2
<1>2. CASE EmbedStart(w)
  BY <1>2, WriteStatusTyped, GotoTyped DEF EmbedStart
<1>3. CASE Vectors(w)
  BY <1>3, WriteStatusTyped, GotoTyped, FailureTyped DEF Vectors
<1>4. CASE ClearPoints(w)
  <2>1. CASE points' = {} /\ Goto(w, "upload")
             /\ UNCHANGED <<apiVars, mishaps, status, file, dataVars, deliveryVars, txVars, envVars>>
    BY <2>1, GotoTyped DEF TypeOK, apiVars, dataVars, deliveryVars, txVars, envVars
  <2>2. QED BY <1>4, <2>1, FailureTyped DEF ClearPoints
<1>5. CASE Upload(w)
  <2>1. pc' \in [Threads -> Label]
    BY <1>5, GotoTyped DEF Upload
  <2>2. points' \subseteq Row
    <3>1. points \subseteq Row /\ seen[w] \subseteq Row
      BY DEF TypeOK
    <3>2. QED BY <1>5, <3>1 DEF Upload
  <2>3. QED BY <1>5, <2>1, <2>2
            DEF Upload, Fault, TypeOK, apiVars, dataVars, deliveryVars, txVars, envVars
<1>6. CASE ServeBegin(w)
  BY <1>6, ContentsReadTyped DEF ServeBegin
<1>10. CASE ServeEnd(w)
  <2>1. CASE LockContents(w) /\ Goto(w, "store")
             /\ UNCHANGED <<apiVars, mishaps, status, file, dataVars, points, deliveryVars,
                            broken, keep, seen, del, noted, envVars>>
    <3>1. cdel' \in [Threads -> SUBSET ContentsRow] /\ cseen' \in [Threads -> SUBSET ContentsRow]
      BY <2>1, LockTyped
    <3>2. QED BY <2>1, <3>1, GotoTyped DEF TypeOK, apiVars, dataVars, deliveryVars, envVars
  <2>2. QED BY <1>10, <2>1, FailureTyped DEF ServeEnd
<1>11. CASE StoreContents(w)
  <2>1. CASE /\ gen' = gen + 1 /\ EndTx(w) /\ Goto(w, "indexed")
             /\ contents' = (contents \ cdel[w])
                              \cup {[gen |-> gen', chunk |-> r] : r \in seen[w]}
             /\ UNCHANGED <<apiVars, mishaps, status, file, markdown, chunks, recognised, points,
                            deliveryVars, broken, keep, seen, cseen, envVars>>
    <3>1. gen' \in Nat
      BY <2>1 DEF TypeOK
    <3>2. contents' \subseteq ContentsRow
      <4>1. contents \subseteq ContentsRow /\ seen[w] \subseteq Row
        BY DEF TypeOK
      <4>2. \A r \in Row : [gen |-> gen', chunk |-> r] \in ContentsRow
        BY <3>1 DEF ContentsRow
      <4>3. QED BY <2>1, <4>1, <4>2
    <3>3. QED BY <2>1, <3>1, <3>2, GotoTyped DEF EndTx, TypeOK, apiVars, deliveryVars, envVars
  <2>2. QED BY <1>11, <2>1, FailureTyped DEF StoreContents
<1>7. CASE Indexed(w)
  BY <1>7, WriteStatusTyped, GotoTyped DEF Indexed
<1>8. CASE Complete(w)
  BY <1>8, WriteStatusTyped, GotoTyped DEF Complete
<1>9. QED BY <1>1, <1>2, <1>3, <1>4, <1>5, <1>6, <1>7, <1>8, <1>10, <1>11 DEF EmbedStep

\* A published message is counted in the queue.
LEMMA SendTyped ==
    ASSUME TypeOK, NEW m \in Message, Send(m)
    PROVE  queue' \in [Message -> Nat]
BY DEF TypeOK, Send

\* A thread that is freed, or dies, remembers nothing.
LEMMA ForgetTyped ==
    ASSUME TypeOK, NEW W \in SUBSET Threads, Forget(W)
    PROVE  /\ pc' \in [Threads -> Label] /\ job' \in [Threads -> Message]
           /\ owned' \in [Threads -> BOOLEAN]
           /\ broken' \subseteq Threads /\ noted' \subseteq Threads
           /\ keep' \in [Threads -> [Images -> Nat]]
           /\ seen' \in [Threads -> SUBSET Row] /\ cseen' \in [Threads -> SUBSET ContentsRow]
           /\ del' \in [Threads -> SUBSET Row] /\ cdel' \in [Threads -> SUBSET ContentsRow]
<1>1. Msg("extract", 0) \in Message /\ NoCopies \in [Images -> Nat] /\ "idle" \in Label
  BY IngestAssumption DEF Msg, Message, Task, NoCopies, Label
<1>2. QED BY <1>1 DEF TypeOK, Forget

\* Retries, error reports, publication and acknowledgement.
LEMMA EndTyped ==
    ASSUME TypeOK, NEW w \in Threads, EndStep(w)
    PROVE  TypeOK'
<1> USE DEF Label, ExtractLabel, OcrLabel, ChunkLabel, EmbedLabel
<1>1. CASE Retry(w)
  <2>1. job[w].task \in Task /\ job[w].retries + 1 \in 0 .. MaxRetries
    BY <1>1, IngestAssumption DEF TypeOK, Message, Retry
  <2>2. queue' \in [Message -> Nat]
    <3>1. Msg(job[w].task, job[w].retries + 1) \in Message
      BY <2>1 DEF Msg, Message
    <3>2. QED BY <1>1, <3>1, SendTyped DEF Retry, TypeOK
  <2>3. pc' \in [Threads -> Label]
    BY <1>1, GotoTyped DEF Retry
  <2>4. QED BY <1>1, <2>2, <2>3, FaultTyped, AbortTyped
            DEF Retry, TypeOK, apiVars, dataVars
<1>2. CASE GiveUp(w)
  <2>1. mishaps' \subseteq Mishap
    BY <1>2 DEF GiveUp, TypeOK, Mishap
  <2>2. pc' \in [Threads -> Label]
    BY <1>2, GotoTyped DEF GiveUp
  <2>3. QED BY <1>2, <2>1, <2>2
            DEF GiveUp, TypeOK, apiVars, dataVars, deliveryVars, txVars, envVars
<1>3. CASE Discard(w)
  <2>1. pc' \in [Threads -> Label]
    BY <1>3, GotoTyped DEF Discard
  <2>2. QED BY <1>3, <2>1, FaultTyped, AbortTyped
            DEF Discard, TypeOK, apiVars, dataVars, deliveryVars
<1>4. CASE ReportError(w)
  <2>1. job[w].task \in Task
    BY DEF TypeOK, Message
  <2>2. ErrorStatus(job[w].task) \in Status
    BY <2>1 DEF ErrorStatus, Status, Task
  <2>3. QED BY <1>4, <2>2, WriteStatusTyped, GotoTyped DEF ReportError
<1>5. CASE PublishNext(w)
  <2>1. Msg(Successor(job[w].task), 0) \in Message
    BY IngestAssumption DEF Msg, Message, Task, Successor
  <2>2. queue' \in [Message -> Nat]
    BY <1>5, <2>1, SendTyped DEF PublishNext, TypeOK
  <2>3. pc' \in [Threads -> Label]
    BY <1>5, GotoTyped DEF PublishNext
  <2>4. QED BY <1>5, <2>2, <2>3
            DEF PublishNext, Fault, TypeOK, apiVars, dataVars, txVars, envVars
<1>6. CASE Ack(w)
  <2>1. Forget({w}) /\ {w} \in SUBSET Threads
    BY <1>6 DEF Ack
  <2>2. QED BY <1>6, <2>1, ForgetTyped DEF Ack, TypeOK, apiVars, dataVars, envVars
<1>7. QED BY <1>1, <1>2, <1>3, <1>4, <1>5, <1>6 DEF EndStep

\* Messages given back to the queue are counted in it.
LEMMA RequeueTyped ==
    ASSUME TypeOK, NEW W \in SUBSET Threads, Requeue(W)
    PROVE  queue' \in [Message -> Nat]
<1>1. \A m \in Message : Cardinality(Unacked(W, m)) \in Nat
  BY UnackedCount
<1>2. QED BY <1>1 DEF TypeOK, Requeue

\* The lemmas together: no step takes the system out of its types.
LEMMA StepTyped ==
    ASSUME TypeOK, [Next]_vars
    PROVE  TypeOK'
<1>1. CASE Register
  BY <1>1 DEF Register, TypeOK, Status, dataVars, deliveryVars, txVars, envVars
<1>2. ASSUME Publish \/ PublishFails PROVE TypeOK'
  <2>1. Msg("extract", 0) \in Message
    BY IngestAssumption DEF Msg, Message, Task
  <2>2. queue' \in [Message -> Nat]
    BY <1>2, <2>1, SendTyped DEF Publish, PublishFails, deliveryVars, TypeOK
  <2>3. QED BY <1>2, <2>2
            DEF Publish, PublishFails, Fault, TypeOK, dataVars, deliveryVars, txVars, envVars
<1>3. ASSUME NEW W \in SUBSET Threads, Crash(W) PROVE TypeOK'
  <2>1. queue' \in [Message -> Nat]
    BY <1>3, RequeueTyped DEF Crash
  <2>2. mishaps' \subseteq Mishap
    BY <1>3 DEF Crash, TypeOK, Mishap
  <2>3. QED BY <1>3, <2>1, <2>2, ForgetTyped DEF Crash, TypeOK, apiVars, dataVars
<1>4. ASSUME NEW W \in SUBSET Threads, Redeliver(W) PROVE TypeOK'
  <2>1. queue' \in [Message -> Nat]
    BY <1>4, RequeueTyped DEF Redeliver
  <2>2. mishaps' \subseteq Mishap
    BY <1>4 DEF Redeliver, TypeOK, Mishap
  <2>3. QED BY <1>4, <2>1, <2>2 DEF Redeliver, TypeOK, apiVars, dataVars, txVars
<1>5. CASE Disturb
  BY <1>3, <1>4, <1>5 DEF Disturb, Threads
<1>6. ASSUME NEW w \in Threads, NEW m \in Message, Deliver(w, m) PROVE TypeOK'
  <2>1. m.task \in Label
    BY DEF Message, Task, Label, ExtractLabel, OcrLabel, ChunkLabel, EmbedLabel
  <2>2. pc' \in [Threads -> Label]
    BY <1>6, <2>1, GotoTyped DEF Deliver
  <2>3. queue' \in [Message -> Nat]
    BY <1>6 DEF Deliver, TypeOK
  <2>4. mishaps' \subseteq Mishap
    BY <1>6 DEF Deliver, TypeOK, Mishap
  <2>5. QED BY <1>6, <2>2, <2>3, <2>4 DEF Deliver, TypeOK, apiVars, dataVars, txVars, envVars
<1>7. ASSUME NEW w \in Threads, Step(w) PROVE TypeOK'
  BY <1>7, ExtractTyped, OcrTyped, ChunkTyped, EmbedTyped, EndTyped DEF Step
<1>8. CASE UNCHANGED vars
  BY <1>8 DEF TypeOK, vars, apiVars, dataVars, deliveryVars, txVars, envVars
<1>9. QED BY <1>1, <1>2, <1>5, <1>6, <1>7, <1>8 DEF Next, Work

\* Every behaviour of the chain stays in its types.
THEOREM Typing == Spec => []TypeOK
<1>1. Init => TypeOK
  <2>1. Msg("extract", 0) \in Message /\ NoCopies \in [Images -> Nat]
    BY IngestAssumption DEF Msg, Message, Task, NoCopies
  <2>2. IsFiniteSet({})
    BY FS_EmptySet
  <2>3. QED BY <2>1, <2>2 DEF Init, TypeOK, Status, Label
<1>2. TypeOK /\ [Next]_vars => TypeOK'
  BY StepTyped
<1>3. QED BY <1>1, <1>2, PTL DEF Spec

-----------------------------------------------------------------------------
\* Markdown and moved PDF before any later task.

\* Writing the status, failing and giving up leave the markdown, the PDF and
\* the messages alone.
LEMMA HarmlessBlocks ==
    ASSUME NEW w, NEW code, NEW k, NEW l,
           WriteStatus(w, code) \/ DbFails(w, l) \/ ResourceFails(w, k)
    PROVE  UNCHANGED <<file, markdown, queue, job>>
BY DEF WriteStatus, DbFails, ResourceFails, dataVars, deliveryVars

\* A step of one thread that keeps its message, sends none, takes nothing back,
\* and arrives at a place whose condition holds.
LEMMA ThreadMoves ==
    ASSUME TypeOK, DownstreamInv,
           NEW w \in Threads, pc[w] # "idle",
           NEW l, Goto(w, l), UNCHANGED <<queue, job>>,
           Ready => Ready', markdown # "none" => markdown' # "none",
           l \in OcrLabel => job[w].task = "ocr",
           l \in ChunkLabel => job[w].task = "chunk",
           l = "move" => markdown' # "none",
           l \in {"extracted", "publish"} => Ready'
    PROVE  DownstreamInv'
<1>1. /\ pc'[w] = l
      /\ \A v \in Threads \ {w} : pc'[v] = pc[v]
  BY DEF TypeOK, Goto
<1>2. TaskFits'
  BY <1>1 DEF DownstreamInv, TaskFits
<1>3. ReadyBeforePublish'
  BY <1>1 DEF DownstreamInv, ReadyBeforePublish, At
<1>4. DownstreamHasMarkdown'
  BY <1>1 DEF DownstreamInv, DownstreamHasMarkdown, Busy, At
<1>5. QED BY <1>2, <1>3, <1>4 DEF DownstreamInv

\* extract_pdf: upsert, then move, then publish.
LEMMA ExtractKeepsOrder ==
    ASSUME TypeOK, DownstreamInv, NEW w \in Threads, ExtractStep(w)
    PROVE  DownstreamInv'
<1> USE DEF OcrLabel, ChunkLabel
<1>1. ASSUME ExtractOpen(w) \/ Triage(w) \/ Recorded(w) \/ Convert(w)
      PROVE  DownstreamInv'
  <2>1. UNCHANGED <<file, markdown, queue, job>>
    BY <1>1, HarmlessBlocks DEF ExtractOpen, Triage, Recorded, Convert, dataVars, deliveryVars
  <2>2. PICK l \in {"ack", "fail", "triage", "recording", "convert", "upsert"} : Goto(w, l)
    BY <1>1 DEF ExtractOpen, Triage, Recorded, Convert, ResourceFails
  <2>3. pc[w] # "idle"
    BY <1>1 DEF ExtractOpen, Triage, Recorded, Convert, At
  <2>4. QED BY <2>1, <2>2, <2>3, ThreadMoves DEF Ready
<1>2. CASE Upsert(w)
  <2>1. CASE markdown' = FreshMarkdown /\ Goto(w, "move")
             /\ UNCHANGED <<file, deliveryVars>>
    BY <1>2, <2>1, ThreadMoves DEF Upsert, At, Ready, FreshMarkdown, deliveryVars
  <2>2. CASE Goto(w, "fail") /\ UNCHANGED <<file, markdown, queue, job>>
    BY <1>2, <2>2, ThreadMoves DEF Upsert, At, Ready
  <2>3. QED BY <1>2, <2>1, <2>2, HarmlessBlocks
            DEF Upsert, DbFails, dataVars, deliveryVars
<1>3. CASE Move(w)
  <2>1. CASE file' = "finished" /\ Goto(w, "extracted")
             /\ UNCHANGED <<dataVars, deliveryVars>>
    <3>1. markdown # "none"
      BY <1>3 DEF Move, DownstreamInv, ReadyBeforePublish
    <3>2. QED BY <1>3, <2>1, <3>1, ThreadMoves DEF Move, At, Ready, dataVars, deliveryVars
  <2>2. CASE Goto(w, "fail") /\ UNCHANGED <<file, markdown, queue, job>>
    BY <1>3, <2>2, ThreadMoves DEF Move, At, Ready
  <2>3. QED BY <1>3, <2>1, <2>2, HarmlessBlocks
            DEF Move, ResourceFails, dataVars, deliveryVars
<1>4. CASE Extracted(w)
  <2>1. UNCHANGED <<file, markdown, queue, job>>
    BY <1>4, HarmlessBlocks DEF Extracted
  <2>2. Ready
    BY <1>4 DEF Extracted, At, DownstreamInv, ReadyBeforePublish
  <2>3. QED BY <1>4, <2>1, <2>2, ThreadMoves DEF Extracted, At, Ready
<1>5. QED BY <1>1, <1>2, <1>3, <1>4 DEF ExtractStep

\* A later task is at work, hence Ready holds and stays.
LEMMA DownstreamIsReady ==
    ASSUME DownstreamInv, NEW w \in Threads, pc[w] # "idle", job[w].task # "extract"
    PROVE  Ready
BY DEF DownstreamInv, DownstreamHasMarkdown, Busy, At

\* ocr_images keeps the markdown and leaves the PDF alone.
LEMMA OcrKeepsOrder ==
    ASSUME TypeOK, DownstreamInv, NEW w \in Threads, OcrStep(w)
    PROVE  DownstreamInv'
<1>1. pc[w] \in OcrLabel /\ pc[w] # "idle" /\ job[w].task = "ocr"
  BY DEF OcrStep, OcrStart, Scan, Recognise, OcrCommit, Ocred, At, OcrLabel,
         DownstreamInv, TaskFits
<1>2. Ready
  BY <1>1, DownstreamIsReady
<1>3. UNCHANGED <<file, queue, job>> /\ markdown' \in {markdown, "clean"}
  BY HarmlessBlocks
     DEF OcrStep, OcrStart, Scan, Recognise, OcrCommit, Ocred, dataVars, deliveryVars
<1>4. PICK l \in OcrLabel \cup {"publish", "error"} : Goto(w, l)
  BY DEF OcrStep, OcrStart, Scan, Recognise, OcrCommit, Ocred, OcrLabel, DbFails
<1>5. QED BY <1>1, <1>2, <1>3, <1>4, ThreadMoves DEF Ready, OcrLabel, ChunkLabel

\* So does chunk_document.
LEMMA ChunkKeepsOrder ==
    ASSUME TypeOK, DownstreamInv, NEW w \in Threads, ChunkStep(w)
    PROVE  DownstreamInv'
<1>1. pc[w] \in ChunkLabel /\ pc[w] # "idle" /\ job[w].task = "chunk"
  BY DEF ChunkStep, ChunkStart, Preserve, Preserved, DeleteBegin, DeleteEnd, SaveJson, InsertChunks,
         Chunked, At, ChunkLabel, DownstreamInv, TaskFits
<1>2. Ready
  BY <1>1, DownstreamIsReady
<1>3. UNCHANGED <<file, markdown, queue, job>>
  BY HarmlessBlocks
     DEF ChunkStep, ChunkStart, Preserve, Preserved, DeleteBegin, DeleteEnd, SaveJson, InsertChunks,
         Chunked, dataVars, deliveryVars
<1>4. PICK l \in ChunkLabel \cup {"publish", "fail"} : Goto(w, l)
  BY DEF ChunkStep, ChunkStart, Preserve, Preserved, DeleteBegin, DeleteEnd, SaveJson, InsertChunks,
         Chunked, ChunkLabel, DbFails, ResourceFails
<1>5. QED BY <1>1, <1>2, <1>3, <1>4, ThreadMoves DEF Ready, OcrLabel, ChunkLabel

\* So does embed_document.
LEMMA EmbedKeepsOrder ==
    ASSUME TypeOK, DownstreamInv, NEW w \in Threads, EmbedStep(w)
    PROVE  DownstreamInv'
<1>1. pc[w] # "idle"
  BY DEF EmbedStep, ReadChunks, EmbedStart, Vectors, ClearPoints, Upload, ServeBegin, ServeEnd,
         StoreContents, Indexed, Complete, At
<1>2. UNCHANGED <<file, markdown, queue, job>>
  BY HarmlessBlocks
     DEF EmbedStep, ReadChunks, EmbedStart, Vectors, ClearPoints, Upload, ServeBegin, ServeEnd,
         StoreContents, Indexed, Complete, dataVars, deliveryVars
<1>3. PICK l \in EmbedLabel \cup {"ack", "fail"} : Goto(w, l)
  BY DEF EmbedStep, ReadChunks, EmbedStart, Vectors, ClearPoints, Upload, ServeBegin, ServeEnd,
         StoreContents, Indexed, Complete, EmbedLabel, DbFails, ResourceFails
<1>4. QED BY <1>1, <1>2, <1>3, ThreadMoves DEF Ready, OcrLabel, ChunkLabel, EmbedLabel

\* Sending a message is harmless when what it needs is there.
LEMMA SendKeepsOrder ==
    ASSUME TypeOK, DownstreamInv, NEW m \in Message, Send(m),
           UNCHANGED <<file, markdown, job>>, m.task # "extract" => Ready,
           NEW w \in Threads, pc[w] # "idle", Goto(w, "ack")
    PROVE  DownstreamInv'
<1>1. /\ pc'[w] = "ack"
      /\ \A v \in Threads \ {w} : pc'[v] = pc[v]
  BY DEF TypeOK, Goto
<1>2. \A n \in Message : n # m => queue'[n] = queue[n]
  BY DEF TypeOK, Send
<1>3. Ready => Ready'
  BY DEF Ready
<1>4. TaskFits' /\ ReadyBeforePublish'
  BY <1>1, <1>3 DEF DownstreamInv, TaskFits, ReadyBeforePublish, At, OcrLabel, ChunkLabel
<1>5. DownstreamHasMarkdown'
  BY <1>1, <1>2, <1>3 DEF DownstreamInv, DownstreamHasMarkdown, Busy, At
<1>6. QED BY <1>4, <1>5 DEF DownstreamInv

\* Threads that forget their message only take obligations away.
LEMMA ForgetKeepsOrder ==
    ASSUME TypeOK, DownstreamInv, NEW W \in SUBSET Threads, Forget(W),
           UNCHANGED <<file, markdown>>,
           \A m \in Message : queue'[m] > 0 =>
              queue[m] > 0 \/ \E w \in W : pc[w] # "idle" /\ job[w] = m
    PROVE  DownstreamInv'
<1>1. \A w \in Threads : \/ pc'[w] = "idle" /\ w \in W
                         \/ pc'[w] = pc[w] /\ job'[w] = job[w] /\ w \notin W
  BY DEF Forget
<1>2. Ready => Ready'
  BY DEF Ready
<1>3. TaskFits' /\ ReadyBeforePublish'
  BY <1>1, <1>2 DEF DownstreamInv, TaskFits, ReadyBeforePublish, At, OcrLabel, ChunkLabel
<1>4. DownstreamHasMarkdown'
  BY <1>1, <1>2 DEF DownstreamInv, DownstreamHasMarkdown, Busy, At
<1>5. QED BY <1>3, <1>4 DEF DownstreamInv

\* A retry repeats its own task, a successor follows a task that is ready.
LEMMA EndKeepsOrder ==
    ASSUME TypeOK, DownstreamInv, NEW w \in Threads, EndStep(w)
    PROVE  DownstreamInv'
<1> USE DEF OcrLabel, ChunkLabel
<1>1. CASE Retry(w)
  <2>1. CASE queue' = queue
    BY <1>1, <2>1, ThreadMoves DEF Retry, At, Ready, dataVars
  <2>2. CASE Send(Msg(job[w].task, job[w].retries + 1))
    <3>1. Msg(job[w].task, job[w].retries + 1) \in Message
      BY <1>1, IngestAssumption DEF TypeOK, Message, Retry, Msg
    <3>2. job[w].task # "extract" => Ready
      BY <1>1, DownstreamIsReady DEF Retry, At
    <3>3. QED BY <1>1, <2>2, <3>1, <3>2, SendKeepsOrder DEF Retry, At, Msg, dataVars
  <2>3. QED BY <1>1, <2>1, <2>2 DEF Retry
<1>2. CASE GiveUp(w)
  BY <1>2, ThreadMoves DEF GiveUp, At, Ready, dataVars, deliveryVars
<1>3. CASE Discard(w)
  <2>1. Ready => Ready'
    BY <1>3 DEF Discard, Ready, dataVars
  <2>2. PICK l \in {"error", "ack"} : Goto(w, l)
    BY <1>3 DEF Discard
  <2>3. QED BY <1>3, <2>1, <2>2, ThreadMoves DEF Discard, At, dataVars, deliveryVars
<1>4. CASE ReportError(w)
  <2>1. UNCHANGED <<file, markdown, queue, job>>
    BY <1>4, HarmlessBlocks DEF ReportError
  <2>2. QED BY <1>4, <2>1, ThreadMoves DEF ReportError, At, Ready
<1>5. CASE PublishNext(w)
  <2>1. Ready
    BY <1>5 DEF PublishNext, At, DownstreamInv, ReadyBeforePublish
  <2>2. CASE queue' = queue
    BY <1>5, <2>2, ThreadMoves DEF PublishNext, At, Ready, dataVars
  <2>3. CASE Send(Msg(Successor(job[w].task), 0))
    <3>1. Msg(Successor(job[w].task), 0) \in Message
      BY IngestAssumption DEF Msg, Message, Task, Successor
    <3>2. QED BY <1>5, <2>1, <2>3, <3>1, SendKeepsOrder DEF PublishNext, At, dataVars
  <2>4. QED BY <1>5, <2>2, <2>3 DEF PublishNext
<1>6. CASE Ack(w)
  <2>1. {w} \in SUBSET Threads /\ Forget({w}) /\ UNCHANGED <<file, markdown, queue>>
    BY <1>6 DEF Ack, dataVars
  <2>2. QED BY <2>1, ForgetKeepsOrder
<1>7. QED BY <1>1, <1>2, <1>3, <1>4, <1>5, <1>6 DEF EndStep

\* A message that is taken up was in the queue.
LEMMA DeliverKeepsOrder ==
    ASSUME TypeOK, DownstreamInv, NEW w \in Threads, NEW m \in Message, Deliver(w, m)
    PROVE  DownstreamInv'
<1>1. /\ pc'[w] = m.task /\ job'[w] = m
      /\ \A v \in Threads \ {w} : pc'[v] = pc[v] /\ job'[v] = job[v]
  BY DEF TypeOK, Deliver, Goto
<1>2. \A n \in Message : queue'[n] > 0 => queue[n] > 0
  BY DEF TypeOK, Deliver
<1>3. (Ready => Ready') /\ (m.task # "extract" => Ready) /\ UNCHANGED markdown
  BY DEF Deliver, Ready, dataVars, DownstreamInv, DownstreamHasMarkdown
<1>4. /\ m.task \in OcrLabel => m.task = "ocr"
      /\ m.task \in ChunkLabel => m.task = "chunk"
      /\ m.task \notin {"move", "extracted", "publish"}
  BY DEF Message, Task, OcrLabel, ChunkLabel
<1>5. TaskFits' /\ ReadyBeforePublish'
  <2>1. TaskFits'
    BY <1>1, <1>4 DEF DownstreamInv, TaskFits
  <2>2. ReadyBeforePublish'
    BY <1>1, <1>3, <1>4 DEF DownstreamInv, ReadyBeforePublish, At
  <2>3. QED BY <2>1, <2>2
<1>6. DownstreamHasMarkdown'
  BY <1>1, <1>2, <1>3 DEF DownstreamInv, DownstreamHasMarkdown, Busy, At
<1>7. QED BY <1>5, <1>6 DEF DownstreamInv

\* A message that is given back was being worked on.
LEMMA RequeueKeepsOrder ==
    ASSUME TypeOK, NEW W \in SUBSET Threads, Requeue(W)
    PROVE  \A m \in Message : queue'[m] > 0 =>
              queue[m] > 0 \/ \E w \in W : pc[w] # "idle" /\ job[w] = m
BY UnackedCount DEF TypeOK, Requeue

\* Every step of a thread keeps the order.
LEMMA StepKeepsOrder ==
    ASSUME TypeOK, DownstreamInv, [Next]_vars
    PROVE  DownstreamInv'
<1>1. ASSUME UNCHANGED <<file, markdown, pc, job>>,
             \A m \in Message : queue'[m] > 0 /\ m.task # "extract" =>
                queue[m] > 0 \/ \E w \in Threads : Busy(w) /\ job[w] = m
      PROVE  DownstreamInv'
  BY <1>1 DEF DownstreamInv, TaskFits, ReadyBeforePublish, DownstreamHasMarkdown, Ready,
              Busy, At
<1>2. CASE Register \/ PublishFails \/ UNCHANGED vars
  BY <1>1, <1>2 DEF Register, PublishFails, vars, dataVars, deliveryVars
<1>3. CASE Publish
  <2>1. \A m \in Message : m.task # "extract" => queue'[m] = queue[m]
    BY <1>3 DEF Publish, Send, Msg, TypeOK
  <2>2. QED BY <1>1, <1>3, <2>1 DEF Publish, dataVars
<1>4. ASSUME NEW W \in SUBSET Threads, Crash(W) PROVE DownstreamInv'
  BY <1>4, RequeueKeepsOrder, ForgetKeepsOrder DEF Crash, dataVars
<1>5. ASSUME NEW W \in SUBSET Threads, Redeliver(W) PROVE DownstreamInv'
  <2>1. \A m \in Message : queue'[m] > 0 =>
           queue[m] > 0 \/ \E w \in W : pc[w] # "idle" /\ job[w] = m
    BY <1>5, RequeueKeepsOrder DEF Redeliver
  <2>2. QED BY <1>1, <1>5, <2>1 DEF Redeliver, dataVars, Busy, At
<1>6. CASE Disturb
  BY <1>4, <1>5, <1>6 DEF Disturb, Threads
<1>7. ASSUME NEW w \in Threads, Work(w) PROVE DownstreamInv'
  BY <1>7, DeliverKeepsOrder, ExtractKeepsOrder, OcrKeepsOrder, ChunkKeepsOrder,
     EmbedKeepsOrder, EndKeepsOrder DEF Work, Step
<1>8. QED BY <1>2, <1>3, <1>6, <1>7 DEF Next

\* The inductive invariant of the order of the chain: whatever is delivered
\* twice, crashes or fails, a thread publishes a successor only behind the commit
\* of the markdown and the move of the PDF.
THEOREM DownstreamInvariant == Spec => []DownstreamInv
<1>1. Init => DownstreamInv
  BY DEF Init, DownstreamInv, TaskFits, ReadyBeforePublish, DownstreamHasMarkdown, Busy, At,
         OcrLabel, ChunkLabel, Message
<1>2. TypeOK /\ DownstreamInv /\ [Next]_vars => DownstreamInv'
  BY StepKeepsOrder
<1>3. QED BY <1>1, <1>2, Typing, PTL DEF Spec

\* So a message of OCR, chunking or embedding exists only once the markdown is
\* committed and the PDF is in finished/.
THEOREM DownstreamOrder == Spec => []DownstreamHasMarkdown
<1>1. DownstreamInv => DownstreamHasMarkdown
  BY DEF DownstreamInv
<1>2. QED BY <1>1, DownstreamInvariant, PTL

-----------------------------------------------------------------------------
\* Where the threads stand.

\* The places between which the steps of a task move; none of them touches a
\* message.
LEMMA TaskMoves ==
    ASSUME NEW w \in Threads
    PROVE  /\ ExtractStep(w) =>
                /\ pc[w] \in ExtractLabel /\ UNCHANGED <<queue, job, owned, keep, seen, cseen>>
                /\ \E l \in ExtractLabel \cup {"ack", "fail", "publish"} : Goto(w, l)
           /\ OcrStep(w) =>
                /\ pc[w] \in OcrLabel /\ UNCHANGED <<queue, job, owned, file, points, seen, cseen>>
                /\ \E l \in OcrLabel \cup {"error", "publish"} : Goto(w, l)
           /\ ChunkStep(w) =>
                /\ pc[w] \in ChunkLabel /\ UNCHANGED <<queue, job, owned, file, markdown, points>>
                /\ \E l \in ChunkLabel \cup {"fail", "publish"} : Goto(w, l)
           /\ EmbedStep(w) =>
                /\ pc[w] \in EmbedLabel /\ UNCHANGED <<queue, job, owned, file, markdown, keep>>
                /\ \E l \in EmbedLabel \cup {"ack", "fail"} : Goto(w, l)
<1> USE DEF At, WriteStatus, DbFails, ResourceFails, Poison, LockContents, dataVars, deliveryVars,
            txVars
<1>1. ASSUME ExtractStep(w)
      PROVE  /\ pc[w] \in ExtractLabel /\ UNCHANGED <<queue, job, owned, keep, seen, cseen>>
             /\ \E l \in ExtractLabel \cup {"ack", "fail", "publish"} : Goto(w, l)
  BY <1>1 DEF ExtractStep, ExtractOpen, Triage, Recorded, Convert, Upsert, Move, Extracted, ExtractLabel
<1>2. ASSUME OcrStep(w)
      PROVE  /\ pc[w] \in OcrLabel /\ UNCHANGED <<queue, job, owned, file, points, seen, cseen>>
             /\ \E l \in OcrLabel \cup {"error", "publish"} : Goto(w, l)
  BY <1>2 DEF OcrStep, OcrStart, Scan, Recognise, OcrCommit, Ocred, OcrLabel
<1>3. ASSUME ChunkStep(w)
      PROVE  /\ pc[w] \in ChunkLabel /\ UNCHANGED <<queue, job, owned, file, markdown, points>>
             /\ \E l \in ChunkLabel \cup {"fail", "publish"} : Goto(w, l)
  BY <1>3 DEF ChunkStep, ChunkStart, Preserve, Preserved, DeleteBegin, DeleteEnd, SaveJson, InsertChunks,
              Chunked, ChunkLabel
<1>4. ASSUME EmbedStep(w)
      PROVE  /\ pc[w] \in EmbedLabel /\ UNCHANGED <<queue, job, owned, file, markdown, keep>>
             /\ \E l \in EmbedLabel \cup {"ack", "fail"} : Goto(w, l)
  BY <1>4 DEF EmbedStep, ReadChunks, EmbedStart, Vectors, ClearPoints, Upload, ServeBegin, ServeEnd,
              StoreContents, Indexed, Complete, EmbedLabel
<1>5. QED BY <1>1, <1>2, <1>3, <1>4

\* A thread that keeps its message and stands at a place of that message's task.
LEMMA PlacedMoves ==
    ASSUME TypeOK, Placed, NEW w \in Threads, pc[w] # "idle", UNCHANGED job,
           NEW l, Goto(w, l),
           l \in ExtractLabel => job[w].task = "extract",
           l \in EmbedLabel => job[w].task = "embed"
    PROVE  Placed'
<1>1. /\ pc'[w] = l
      /\ \A v \in Threads \ {w} : pc'[v] = pc[v]
  BY DEF TypeOK, Goto
<1>2. QED BY <1>1 DEF Placed, Busy, At

\* Threads that forget stand nowhere.
LEMMA PlacedForgets ==
    ASSUME Placed, NEW W \in SUBSET Threads, Forget(W)
    PROVE  Placed'
<1>1. \A w \in Threads : \/ pc'[w] = "idle"
                         \/ pc'[w] = pc[w] /\ job'[w] = job[w]
  BY DEF Forget
<1>2. QED BY <1>1 DEF Placed, Busy, At, ExtractLabel, EmbedLabel

\* A thread takes the messages of its own queue and works at the places of
\* their task.
LEMMA StepPlaced ==
    ASSUME TypeOK, Placed, [Next]_vars
    PROVE  Placed'
<1> USE DEF ExtractLabel, OcrLabel, ChunkLabel, EmbedLabel
<1>1. CASE UNCHANGED <<pc, job>>
  BY <1>1 DEF Placed, Busy, At
<1>2. ASSUME NEW W \in SUBSET Threads, Crash(W) PROVE Placed'
  BY <1>2, PlacedForgets DEF Crash
<1>3. ASSUME NEW w \in Threads, NEW m \in Message, Deliver(w, m) PROVE Placed'
  <2>1. /\ pc'[w] = m.task /\ job'[w] = m /\ w \in Pool(m.task)
        /\ \A v \in Threads \ {w} : pc'[v] = pc[v] /\ job'[v] = job[v]
    BY <1>3 DEF TypeOK, Deliver, Goto
  <2>2. m.task \in Task
    BY DEF Message
  <2>3. QED BY <2>1, <2>2 DEF Placed, Busy, At, Task
<1>4. ASSUME NEW w \in Threads, ExtractStep(w) PROVE Placed'
  BY <1>4, TaskMoves, PlacedMoves DEF Placed
<1>5. ASSUME NEW w \in Threads, OcrStep(w) PROVE Placed'
  BY <1>5, TaskMoves, PlacedMoves
<1>6. ASSUME NEW w \in Threads, ChunkStep(w) PROVE Placed'
  BY <1>6, TaskMoves, PlacedMoves
<1>7. ASSUME NEW w \in Threads, EmbedStep(w) PROVE Placed'
  BY <1>7, TaskMoves, PlacedMoves DEF Placed
<1>8. ASSUME NEW w \in Threads, EndStep(w) PROVE Placed'
  <2>1. CASE Retry(w) \/ ReportError(w) \/ PublishNext(w)
    BY <2>1, PlacedMoves DEF Retry, ReportError, PublishNext, WriteStatus, At, deliveryVars
  <2>2. CASE GiveUp(w)
    BY <2>2, PlacedMoves DEF GiveUp, At, deliveryVars
  <2>3. CASE Discard(w)
    BY <2>3, PlacedMoves DEF Discard, At, deliveryVars
  <2>4. CASE Ack(w)
    <3>1. {w} \in SUBSET Threads /\ Forget({w})
      BY <2>4 DEF Ack
    <3>2. QED BY <3>1, PlacedForgets
  <2>5. QED BY <1>8, <2>1, <2>2, <2>3, <2>4 DEF EndStep
<1>9. CASE Disturb
  <2>1. ASSUME NEW W \in SUBSET Threads, Redeliver(W) PROVE UNCHANGED <<pc, job>>
    BY <2>1 DEF Redeliver
  <2>2. QED BY <1>9, <1>1, <1>2, <2>1 DEF Disturb, Threads
<1>10. CASE Register \/ Publish \/ PublishFails \/ UNCHANGED vars
  BY <1>10, <1>1 DEF Register, Publish, PublishFails, vars, deliveryVars
<1>11. QED BY <1>3, <1>4, <1>5, <1>6, <1>7, <1>8, <1>9, <1>10 DEF Next, Work, Step

\* A worker serves the messages of its queue only, and every place of a task is
\* reached with a message of that task.
THEOREM Placement == Spec => []Placed
<1>1. Init => Placed
  BY DEF Init, Placed, Busy, At, ExtractLabel, EmbedLabel
<1>2. TypeOK /\ Placed /\ [Next]_vars => Placed'
  BY StepPlaced
<1>3. QED BY <1>1, <1>2, Typing, PTL DEF Spec

-----------------------------------------------------------------------------
\* Mishaps.

\* What went wrong is never forgotten, and only a delivery makes tasks overlap.
LEMMA MishapsGrow ==
    ASSUME [Next]_vars
    PROVE  /\ mishaps \subseteq mishaps'
           /\ \/ "overlap" \in mishaps' => "overlap" \in mishaps
              \/ \E w \in Threads, m \in Message : Deliver(w, m)
<1> DEFINE Harmless == mishaps' \in {mishaps, mishaps \cup {"unwritten"}}
<1> USE DEF WriteStatus, DbFails, ResourceFails
<1>1. ASSUME NEW w \in Threads, ExtractStep(w) PROVE Harmless
  BY <1>1 DEF ExtractStep, ExtractOpen, Triage, Recorded, Convert, Upsert, Move, Extracted
<1>2. ASSUME NEW w \in Threads, OcrStep(w) PROVE Harmless
  BY <1>2 DEF OcrStep, OcrStart, Scan, Recognise, OcrCommit, Ocred
<1>3. ASSUME NEW w \in Threads, ChunkStep(w) PROVE Harmless
  BY <1>3 DEF ChunkStep, ChunkStart, Preserve, Preserved, DeleteBegin, DeleteEnd, SaveJson,
              InsertChunks, Chunked
<1>4. ASSUME NEW w \in Threads, EmbedStep(w) PROVE Harmless
  BY <1>4 DEF EmbedStep, ReadChunks, EmbedStart, Vectors, ClearPoints, Upload, ServeBegin,
              ServeEnd, StoreContents, Indexed, Complete
<1>5. ASSUME NEW w \in Threads, EndStep(w), ~GiveUp(w) PROVE Harmless
  BY <1>5 DEF EndStep, Retry, Discard, ReportError, PublishNext, Ack
<1>6. CASE Register \/ Publish \/ PublishFails \/ UNCHANGED vars
  BY <1>6 DEF Register, Publish, PublishFails, vars
<1>7. ASSUME NEW w \in Threads, GiveUp(w)
      PROVE  mishaps \subseteq mishaps' /\ ("overlap" \in mishaps' => "overlap" \in mishaps)
  BY <1>7 DEF GiveUp
<1>8. ASSUME NEW W \in SUBSET Threads, Crash(W) \/ Redeliver(W)
      PROVE  mishaps \subseteq mishaps' /\ ("overlap" \in mishaps' => "overlap" \in mishaps)
  BY <1>8 DEF Crash, Redeliver
<1>9. ASSUME NEW w \in Threads, NEW m \in Message, Deliver(w, m)
      PROVE  mishaps \subseteq mishaps'
  BY <1>9 DEF Deliver
<1>10. QED BY <1>1, <1>2, <1>3, <1>4, <1>5, <1>6, <1>7, <1>8, <1>9
           DEF Next, Disturb, Work, Step, EndStep, Threads

-----------------------------------------------------------------------------
\* A rewrite of the chunks loses no rows: nothing is pending where a status is
\* written, unless a task was given up in its transaction.

\* Where a session may hold deleted rows.
PendingLabel == RewriteLabel \cup {"store", "fail", "error"}

\* Elsewhere it holds none, so that a status is written with nothing pending.
LEMMA NothingPending ==
    ASSUME TypeOK, RewriteInv, NEW w \in Threads, pc[w] \notin PendingLabel
    PROVE  /\ del[w] = {} /\ cdel[w] = {}
           /\ EndTx(w) => UNCHANGED <<del, cdel>>
           /\ \A code : WriteStatus(w, code) => UNCHANGED <<chunks, contents, del, cdel>>
<1>1. del[w] = {} /\ cdel[w] = {}
  BY DEF RewriteInv, PendingInRewrite, RewriteLabel, PendingLabel
<1>2. EndTx(w) => UNCHANGED <<del, cdel>>
  BY <1>1 DEF EndTx, TypeOK
<1>3. ASSUME NEW code, WriteStatus(w, code) PROVE UNCHANGED <<chunks, contents, del, cdel>>
  BY <1>1, <1>2, <1>3 DEF WriteStatus, CommitPending
<1>4. QED BY <1>1, <1>2, <1>3

\* A thread moves on in its task, with what it has pending in its place.
LEMMA RewriteMoves ==
    ASSUME TypeOK, RewriteInv, TaskFits', mishaps \subseteq mishaps',
           NEW w \in Threads, UNCHANGED job, NEW l, Goto(w, l),
           \A v \in Threads \ {w} : del'[v] = del[v] /\ cdel'[v] = cdel[v],
           del'[w] # {} => l \in {"save", "insert", "fail", "error"},
           cdel'[w] # {} => l \in PendingLabel,
           l \in {"fail", "error"} /\ del'[w] \cup cdel'[w] # {} => job[w].task = "chunk",
           l = "error" /\ del'[w] \cup cdel'[w] # {} => "exhausted" \in mishaps'
    PROVE  RewriteInv'
<1>1. /\ pc'[w] = l
      /\ \A v \in Threads \ {w} : pc'[v] = pc[v]
  BY DEF TypeOK, Goto
<1>2. PendingInRewrite'
  BY <1>1 DEF RewriteInv, PendingInRewrite, PendingLabel
<1>3. QED BY <1>2 DEF RewriteInv

\* A failing statement of the database leaves nothing pending behind.
LEMMA FailureKeepsRewrite ==
    ASSUME TypeOK, RewriteInv, TaskFits', NEW w \in Threads, NEW l, DbFails(w, l)
    PROVE  RewriteInv'
<1>1. /\ Goto(w, l) /\ UNCHANGED <<mishaps, job>> /\ del'[w] = {} /\ cdel'[w] = {}
      /\ \A v \in Threads \ {w} : del'[v] = del[v] /\ cdel'[v] = cdel[v]
  BY DEF DbFails, Poison, EndTx, TypeOK, deliveryVars
<1>2. QED BY <1>1, RewriteMoves

\* Conversion and OCR pend nothing.
LEMMA OthersKeepRewrite ==
    ASSUME TypeOK, RewriteInv, TaskFits', [Next]_vars,
           NEW w \in Threads, ExtractStep(w) \/ OcrStep(w)
    PROVE  RewriteInv'
<1> USE DEF ExtractLabel, OcrLabel
<1>1. /\ pc[w] \in ExtractLabel \cup OcrLabel /\ UNCHANGED <<queue, job>>
      /\ \E l : Goto(w, l)
  BY TaskMoves
<1>2. UNCHANGED <<del, cdel>> \/ EndTx(w)
  <2> USE DEF WriteStatus, CommitPending, DbFails, ResourceFails, Poison, txVars
  <2>1. CASE ExtractStep(w)
    BY <2>1 DEF ExtractStep, ExtractOpen, Triage, Recorded, Convert, Upsert, Move, Extracted
  <2>2. CASE OcrStep(w)
    BY <2>2 DEF OcrStep, OcrStart, Scan, Recognise, OcrCommit, Ocred
  <2>3. QED BY <2>1, <2>2
<1>3. del[w] = {} /\ cdel[w] = {} /\ UNCHANGED <<del, cdel>>
  BY <1>1, <1>2, NothingPending DEF RewriteLabel, PendingLabel
<1>4. QED BY <1>1, <1>3, MishapsGrow, RewriteMoves

\* Neither does embedding, up to the delete of the contents rows.
LEMMA EmbedKeepsRewrite ==
    ASSUME TypeOK, RewriteInv, TaskFits', [Next]_vars, NEW w \in Threads, EmbedStep(w)
    PROVE  RewriteInv'
<1> USE DEF EmbedLabel, PendingLabel, RewriteLabel
<1>1. pc[w] \in EmbedLabel /\ UNCHANGED job /\ mishaps \subseteq mishaps'
  BY TaskMoves, MishapsGrow
<1>2. PICK l \in EmbedLabel \cup {"ack", "fail"} : Goto(w, l)
  BY TaskMoves
<1>3. CASE ServeEnd(w) /\ ~DbFails(w, "fail")
  <2>1. /\ Goto(w, "store") /\ UNCHANGED del /\ del[w] = {}
        /\ \A v \in Threads \ {w} : cdel'[v] = cdel[v]
    BY <1>3, NothingPending DEF ServeEnd, LockContents, TypeOK, At
  <2>2. QED BY <1>1, <2>1, RewriteMoves
<1>4. CASE StoreContents(w) /\ ~DbFails(w, "fail")
  <2>1. /\ Goto(w, "indexed") /\ del'[w] = {} /\ cdel'[w] = {}
        /\ \A v \in Threads \ {w} : del'[v] = del[v] /\ cdel'[v] = cdel[v]
    BY <1>4 DEF StoreContents, EndTx, TypeOK
  <2>2. QED BY <1>1, <2>1, RewriteMoves
<1>5. ASSUME ~DbFails(w, "fail"), ~ServeEnd(w), ~StoreContents(w) PROVE RewriteInv'
  <2>1. pc[w] # "store" /\ (UNCHANGED <<del, cdel>> \/ EndTx(w))
    BY <1>5 DEF EmbedStep, ReadChunks, EmbedStart, Vectors, ClearPoints, Upload, ServeBegin,
                Indexed, Complete, WriteStatus, CommitPending, ResourceFails, txVars, At
  <2>2. del[w] = {} /\ cdel[w] = {} /\ UNCHANGED <<del, cdel>>
    BY <1>1, <2>1, NothingPending
  <2>3. QED BY <1>1, <1>2, <2>2, RewriteMoves
<1>6. QED BY <1>3, <1>4, <1>5, FailureKeepsRewrite

\* chunk_document: between the delete and the insert only the disk can fail
\* without rolling the deletion back.
LEMMA ChunkKeepsRewrite ==
    ASSUME TypeOK, RewriteInv, TaskFits', [Next]_vars, NEW w \in Threads, ChunkStep(w)
    PROVE  RewriteInv'
<1> USE DEF RewriteLabel, PendingLabel
<1>1. UNCHANGED job /\ job[w].task = "chunk" /\ mishaps \subseteq mishaps'
  BY TaskMoves, MishapsGrow DEF RewriteInv, TaskFits
<1>2. ASSUME NEW l, Goto(w, l), l # "error", UNCHANGED <<del, cdel>>,
             del[w] # {} => l \in {"save", "insert", "fail"},
             cdel[w] # {} => l \in PendingLabel
      PROVE  RewriteInv'
  BY <1>1, <1>2, RewriteMoves
<1>3. CASE ChunkStart(w) \/ Chunked(w) \/ Preserve(w)
  <2>1. del[w] = {} /\ cdel[w] = {} /\ UNCHANGED <<del, cdel>>
    BY <1>3, NothingPending DEF ChunkStart, Chunked, Preserve, At
  <2>2. PICK l \in {"preserve", "publish", "preserving"} : Goto(w, l)
    BY <1>3 DEF ChunkStart, Chunked, Preserve
  <2>3. QED BY <1>2, <2>1, <2>2
<1>4. CASE Preserved(w) /\ ~DbFails(w, "fail")
  <2>1. del[w] = {} /\ del' = del /\ Goto(w, "delete")
    BY <1>4, NothingPending DEF Preserved, At
  <2>2. \A v \in Threads \ {w} : cdel'[v] = cdel[v]
    BY <1>4 DEF Preserved, LockContents, TypeOK
  <2>3. QED BY <1>1, <2>1, <2>2, RewriteMoves
<1>5. CASE DeleteBegin(w)
  <2>1. del[w] = {}
    BY <1>5 DEF DeleteBegin, At, RewriteInv, PendingInRewrite
  <2>2. QED BY <1>5, <1>2, <2>1 DEF DeleteBegin
<1>6. CASE DeleteEnd(w)
  <2>1. Goto(w, "save") /\ cdel' = cdel /\ \A v \in Threads \ {w} : del'[v] = del[v]
    BY <1>6 DEF DeleteEnd, TypeOK
  <2>2. QED BY <1>1, <2>1, RewriteMoves
<1>7. CASE SaveJson(w)
  BY <1>7, <1>2 DEF SaveJson, ResourceFails, txVars
<1>8. CASE InsertChunks(w) /\ ~DbFails(w, "fail")
  <2>1. Goto(w, "chunked") /\ del'[w] = {} /\ cdel'[w] = {}
    BY <1>8 DEF InsertChunks, EndTx, TypeOK
  <2>2. \A v \in Threads \ {w} : del'[v] = del[v] /\ cdel'[v] = cdel[v]
    BY <1>8 DEF InsertChunks, EndTx, TypeOK
  <2>3. QED BY <1>1, <2>1, <2>2, RewriteMoves
<1>9. QED BY <1>3, <1>4, <1>5, <1>6, <1>7, <1>8, FailureKeepsRewrite DEF ChunkStep

\* How a task ends: a retry rolls back; giving up keeps what is pending, and says so.
LEMMA EndKeepsRewrite ==
    ASSUME TypeOK, RewriteInv, TaskFits, TaskFits', [Next]_vars, NEW w \in Threads,
           Retry(w) \/ GiveUp(w) \/ Discard(w) \/ ReportError(w) \/ PublishNext(w)
    PROVE  RewriteInv'
<1> USE DEF RewriteLabel, PendingLabel
<1>1. mishaps \subseteq mishaps'
  BY MishapsGrow
<1>2. ASSUME Goto(w, "ack"), UNCHANGED job, EndTx(w) PROVE RewriteInv'
  <2>1. /\ del'[w] = {} /\ cdel'[w] = {}
        /\ \A v \in Threads \ {w} : del'[v] = del[v] /\ cdel'[v] = cdel[v]
    BY <1>2 DEF EndTx, TypeOK
  <2>2. QED BY <1>1, <1>2, <2>1, RewriteMoves
<1>3. CASE Retry(w) \/ ReportError(w)
  BY <1>2, <1>3 DEF Retry, Rollback, ReportError, WriteStatus, CommitPending, deliveryVars
<1>4. CASE GiveUp(w)
  <2>1. /\ pc[w] = "fail" /\ UNCHANGED <<del, cdel, job>>
        /\ del[w] \cup cdel[w] # {} => job[w].task = "chunk" /\ "exhausted" \in mishaps'
    BY <1>4 DEF GiveUp, At, txVars, deliveryVars, RewriteInv, PendingInRewrite
  <2>2. CASE job[w].task = "extract"
    <3>1. del[w] = {} /\ cdel[w] = {} /\ Goto(w, "discard")
      BY <1>4, <2>1, <2>2 DEF GiveUp
    <3>2. QED BY <1>1, <2>1, <3>1, RewriteMoves
  <2>3. CASE job[w].task # "extract"
    <3>1. Goto(w, "error")
      BY <1>4, <2>3 DEF GiveUp
    <3>2. QED BY <1>1, <2>1, <3>1, RewriteMoves
  <2>4. QED BY <2>2, <2>3
<1>5. CASE Discard(w) \/ PublishNext(w)
  <2>1. /\ del[w] = {} /\ cdel[w] = {} /\ UNCHANGED <<del, cdel, job>>
        /\ \E l \in {"error", "ack"} : Goto(w, l)
    BY <1>5, NothingPending DEF Discard, PublishNext, Rollback, At, txVars, deliveryVars
  <2>2. QED BY <1>1, <2>1, RewriteMoves
<1>6. QED BY <1>3, <1>4, <1>5

\* A transaction that dies with its thread rolls back.
LEMMA ForgetKeepsRewrite ==
    ASSUME RewriteInv, TaskFits', NEW W \in SUBSET Threads, Forget(W), mishaps \subseteq mishaps'
    PROVE  RewriteInv'
<1>1. \A w \in Threads :
         \/ del'[w] = {} /\ cdel'[w] = {}
         \/ pc'[w] = pc[w] /\ job'[w] = job[w] /\ del'[w] = del[w] /\ cdel'[w] = cdel[w]
  BY DEF Forget
<1>2. QED BY <1>1 DEF RewriteInv, PendingInRewrite

\* Every step keeps RewriteInv.
LEMMA StepKeepsRewrite ==
    ASSUME TypeOK, RewriteInv, TaskFits', [Next]_vars
    PROVE  RewriteInv'
<1>1. mishaps \subseteq mishaps'
  BY MishapsGrow
<1>2. CASE UNCHANGED <<pc, job, del, cdel>>
  BY <1>1, <1>2 DEF RewriteInv, PendingInRewrite
<1>3. CASE Register \/ Publish \/ PublishFails \/ UNCHANGED vars
  BY <1>2, <1>3 DEF Register, Publish, PublishFails, vars, deliveryVars, txVars
<1>4. ASSUME NEW W \in SUBSET Threads, Crash(W) PROVE RewriteInv'
  BY <1>1, <1>4, ForgetKeepsRewrite DEF Crash
<1>5. ASSUME NEW W \in SUBSET Threads, Redeliver(W) PROVE RewriteInv'
  BY <1>2, <1>5 DEF Redeliver, txVars
<1>6. CASE Disturb
  BY <1>4, <1>5, <1>6 DEF Disturb, Threads
<1>7. ASSUME NEW w \in Threads, NEW m \in Message, Deliver(w, m) PROVE RewriteInv'
  <2>1. /\ pc'[w] = m.task /\ UNCHANGED <<del, cdel>> /\ del[w] = {} /\ cdel[w] = {}
        /\ \A v \in Threads \ {w} : pc'[v] = pc[v] /\ job'[v] = job[v]
    BY <1>7, NothingPending
       DEF TypeOK, Deliver, Goto, At, RewriteLabel, PendingLabel, txVars, envVars
  <2>2. QED BY <1>1, <2>1 DEF RewriteInv, PendingInRewrite
<1>8. ASSUME NEW w \in Threads, Ack(w) PROVE RewriteInv'
  <2>1. {w} \in SUBSET Threads /\ Forget({w})
    BY <1>8 DEF Ack
  <2>2. QED BY <1>1, <2>1, ForgetKeepsRewrite
<1>9. ASSUME NEW w \in Threads, Step(w) PROVE RewriteInv'
  BY <1>8, <1>9, OthersKeepRewrite, ChunkKeepsRewrite, EmbedKeepsRewrite, EndKeepsRewrite
     DEF Step, EndStep, RewriteInv
<1>10. QED BY <1>3, <1>6, <1>7, <1>9 DEF Next, Work

\* A status is written with no deleted row pending, or after a task was given up in
\* its transaction, whatever is delivered twice, fails or dies, and however many
\* threads chunk the document at once.
THEOREM RewriteInvariant == Spec => []RewriteInv
<1>1. Init => RewriteInv
  BY DEF Init, RewriteInv, TaskFits, PendingInRewrite, OcrLabel, ChunkLabel, RewriteLabel
<1>2. TypeOK /\ RewriteInv /\ TaskFits' /\ [Next]_vars => RewriteInv'
  BY StepKeepsRewrite
<1>3. DownstreamInv => TaskFits
  BY DEF DownstreamInv
<1>4. QED BY <1>1, <1>2, <1>3, Typing, DownstreamInvariant, PTL DEF Spec

\* A document whose markdown yields at least one chunk never loses its last one,
\* until a task is given up in its transaction: the delete and the insert of a
\* rewrite are one commit, however many threads rewrite the document, fail, die or
\* work on the same message.
THEOREM RewriteKeepsRows ==
    ASSUME Text # {}
    PROVE  Spec => RewriteKeepsChunks
<1>1. ASSUME TypeOK, RewriteInv, [Next]_vars
      PROVE  [chunks # {} /\ "exhausted" \notin mishaps => chunks' # {}]_vars
  <2>1. SUFFICES ASSUME chunks # {}, "exhausted" \notin mishaps, chunks' = {} PROVE FALSE
    OBVIOUS
  <2>2. ASSUME NEW w \in Threads, NEW code, WriteStatus(w, code),
               pc[w] \notin PendingLabel \ {"error"}
        PROVE  FALSE
    <3>1. CASE pc[w] = "error"
      <4>1. del[w] = {}
        BY <2>1, <3>1, <1>1 DEF RewriteInv, PendingInRewrite
      <4>2. QED BY <2>1, <2>2, <4>1 DEF WriteStatus, CommitPending
    <3>2. QED BY <2>1, <2>2, <3>1, <1>1, NothingPending
  <2> USE DEF DbFails, ResourceFails, dataVars, RewriteLabel, PendingLabel
  <2>3. CASE \E w \in Threads : ExtractStep(w)
    BY <2>1, <2>2, <2>3
       DEF ExtractStep, ExtractOpen, Triage, Recorded, Convert, Upsert, Move, Extracted, At
  <2>4. ASSUME NEW w \in Threads, OcrStep(w) PROVE FALSE
    <3>1. ~OcrCommit(w)
      BY <2>1 DEF OcrCommit
    <3>2. QED BY <3>1, <2>1, <2>2, <2>4 DEF OcrStep, OcrStart, Scan, Recognise, Ocred, At
  <2>5. ASSUME NEW w \in Threads, ChunkStep(w) PROVE FALSE
    <3>1. ~InsertChunks(w)
      <4>1. PICK t : t \in Text
        OBVIOUS
      <4>2. \A g, copies : [gen |-> g, src |-> t, copy |-> 1] \in NewRows(g, Text, copies)
        BY <4>1 DEF NewRows
      <4>3. QED BY <2>1, <4>2 DEF InsertChunks
    <3>2. QED BY <3>1, <2>1, <2>2, <2>5
              DEF ChunkStep, ChunkStart, Preserve, Preserved, DeleteBegin, DeleteEnd, SaveJson,
                  Chunked, At
  <2>6. ASSUME NEW w \in Threads, EmbedStep(w) PROVE FALSE
    BY <2>1, <2>2, <2>6
       DEF EmbedStep, ReadChunks, EmbedStart, Vectors, ClearPoints, Upload, ServeBegin,
           ServeEnd, StoreContents, Indexed, Complete, At
  <2>7. ASSUME NEW w \in Threads, EndStep(w) PROVE FALSE
    BY <2>1, <2>2, <2>7
       DEF EndStep, Retry, GiveUp, Discard, ReportError, PublishNext, Ack, At
  <2>8. UNCHANGED chunks
    BY <1>1, <2>3, <2>4, <2>5, <2>6, <2>7
       DEF Next, Work, Step, Register, Publish, PublishFails, Disturb, Crash, Redeliver, Deliver,
           vars
  <2>9. QED BY <2>1, <2>8
<1>2. QED BY <1>1, Typing, RewriteInvariant, PTL DEF Spec, RewriteKeepsChunks

-----------------------------------------------------------------------------
\* How tasks come to overlap.

\* A step of a task, or of its end: the thread was at work and moves on, the others
\* stay where they are.
LEMMA StepMoves ==
    ASSUME NEW w \in Threads, Step(w), ~Ack(w)
    PROVE  /\ Working(w) /\ UNCHANGED <<api, job>>
           /\ \E l \in Label \ {"idle"} : Goto(w, l)
           /\ UNCHANGED queue \/ Retry(w) \/ PublishNext(w)
<1> USE DEF Working, At, Label, ExtractLabel, OcrLabel, ChunkLabel, EmbedLabel
<1>1. CASE ExtractStep(w) \/ OcrStep(w)
  <2>1. UNCHANGED api
    BY <1>1 DEF ExtractStep, ExtractOpen, Triage, Recorded, Convert, Upsert, Move, Extracted,
                OcrStep, OcrStart, Scan, Recognise, OcrCommit, Ocred,
                WriteStatus, DbFails, ResourceFails, apiVars
  <2>2. QED BY <1>1, <2>1, TaskMoves
<1>2. CASE ChunkStep(w) \/ EmbedStep(w)
  <2>1. UNCHANGED api
    BY <1>2 DEF ChunkStep, ChunkStart, Preserve, Preserved, DeleteBegin, DeleteEnd, SaveJson,
                InsertChunks, Chunked, EmbedStep, ReadChunks, EmbedStart, Vectors, ClearPoints,
                Upload, ServeBegin, ServeEnd, StoreContents, Indexed, Complete,
                WriteStatus, DbFails, ResourceFails, apiVars
  <2>2. QED BY <1>2, <2>1, TaskMoves
<1>3. CASE Retry(w) \/ PublishNext(w)
  BY <1>3 DEF Retry, PublishNext, apiVars
<1>4. CASE GiveUp(w)
  <2>1. Goto(w, "discard") \/ Goto(w, "error")
    BY <1>4 DEF GiveUp
  <2>2. QED BY <1>4, <2>1 DEF GiveUp, apiVars, deliveryVars
<1>5. CASE Discard(w) \/ ReportError(w)
  BY <1>5 DEF Discard, ReportError, WriteStatus, apiVars, deliveryVars
<1>6. QED BY <1>1, <1>2, <1>3, <1>4, <1>5 DEF Step, EndStep

\* Only a delivery puts a thread to work.
LEMMA WorkGoesOn ==
    ASSUME TypeOK, [Next]_vars
    PROVE  \/ \A v \in Threads : Working(v)' => Working(v)
           \/ \E w \in Threads, m \in Message : Deliver(w, m)
<1>1. ASSUME NEW w \in Threads, Step(w), ~Ack(w)
      PROVE  \A v \in Threads : Working(v)' => Working(v)
  BY <1>1, StepMoves DEF Goto, TypeOK, Working
<1>2. ASSUME NEW w \in Threads, Ack(w)
      PROVE  \A v \in Threads : Working(v)' => Working(v)
  BY <1>2 DEF Ack, Forget, Working
<1>3. ASSUME NEW W \in SUBSET Threads, Crash(W) \/ Redeliver(W)
      PROVE  \A v \in Threads : Working(v)' => Working(v)
  BY <1>3 DEF Crash, Redeliver, Forget, Working
<1>4. CASE Register \/ Publish \/ PublishFails \/ UNCHANGED vars
  BY <1>4 DEF Register, Publish, PublishFails, vars, Working
<1>5. QED BY <1>1, <1>2, <1>3, <1>4 DEF Next, Disturb, Work, Threads

\* As long as no overlap is recorded, one thread of each worker is at work.
LEMMA StepAlone ==
    ASSUME TypeOK, Alone, [Next]_vars, "overlap" \notin mishaps'
    PROVE  Alone'
<1>1. CASE \A v \in Threads : Working(v)' => Working(v)
  BY <1>1 DEF Alone, Threads
<1>2. ASSUME NEW w \in Threads, NEW m \in Message, Deliver(w, m) PROVE Alone'
  <2>1. /\ \A v \in Threads \ {w} : Working(v)' => Working(v)
        /\ \A v \in Pool(m.task) \ {w} : ~Working(v)
        /\ w \in Pool(m.task)
    BY <1>2 DEF Deliver, Goto, TypeOK, Working
  <2>2. Pool(m.task) \in {CeleryThreads, OcrThreads}
    BY DEF Pool
  <2>3. QED BY <2>1, <2>2, IngestAssumption DEF Alone, Threads
<1>3. QED BY <1>1, <1>2, WorkGoesOn

\* A thread at work leaves what it holds to one message, or to none.
LEMMA SingleSends ==
    ASSUME TypeOK, SingleInv, NEW w \in Threads, Working(w), Goto(w, "ack"),
           UNCHANGED <<api, mishaps>>, UNCHANGED queue \/ \E m \in Message : Send(m)
    PROVE  SingleInv'
<1>1. /\ ~Working(w)'
      /\ \A v \in Threads \ {w} : Working(v)' => Working(v)
  BY DEF Goto, TypeOK, Working
<1>2. SUFFICES ASSUME "twice" \notin mishaps PROVE SingleInv'
  BY DEF SingleInv
<1>3. /\ api = "done" /\ "overlap" \notin mishaps
      /\ \A v \in Threads : ~Working(v)'
  BY <1>1, <1>2 DEF SingleInv, Working, At
<1>4. \A m \in Message : queue[m] = 0
  BY <1>2 DEF SingleInv, Waiting, TypeOK
<1>5. /\ \A m \in Message : queue'[m] <= 1
      /\ \A m, n \in Message : queue'[m] > 0 /\ queue'[n] > 0 => m = n
  <2>1. CASE UNCHANGED queue
    BY <1>4, <2>1
  <2>2. ASSUME NEW k \in Message, Send(k)
        PROVE  /\ \A m \in Message : queue'[m] <= 1
               /\ \A m, n \in Message : queue'[m] > 0 /\ queue'[n] > 0 => m = n
    <3>1. \A m \in Message : queue'[m] = IF m = k THEN 1 ELSE 0
      BY <1>4, <2>2 DEF Send, TypeOK
    <3>2. QED BY <3>1
  <2>3. QED BY <2>1, <2>2
<1>6. QED BY <1>3, <1>5 DEF SingleInv, Waiting

\* A worker that dies gives back the message its thread at work holds; nothing
\* else is, as long as none had come to the end of its task.
LEMMA CrashKeepsSingle ==
    ASSUME TypeOK, SingleInv, NEW W \in SUBSET Threads, Crash(W), "twice" \notin mishaps'
    PROVE  SingleInv'
<1>1. /\ "twice" \notin mishaps /\ ("overlap" \in mishaps' => "overlap" \in mishaps)
      /\ \A v \in W : ~(At(v, "ack") /\ owned[v])
  BY DEF Crash
<1>2. \A v \in Threads : /\ Working(v)' => Working(v) /\ v \notin W
                         /\ pc[v] = "idle" => pc'[v] = "idle"
  BY DEF Crash, Forget, Working
<1>3. \A m : Unacked(W, m) = {v \in W : Working(v) /\ owned[v] /\ job[v] = m}
  BY <1>1 DEF Unacked, Working, At
<1>4. \A m \in Message : queue'[m] = queue[m] + Cardinality(Unacked(W, m))
  BY DEF Crash, Requeue
<1>5. CASE \A v \in W : ~Working(v)
  <2>1. \A m \in Message : Cardinality(Unacked(W, m)) = 0
    BY <1>3, <1>5, FS_EmptySet
  <2>2. \A m \in Message : queue'[m] = queue[m]
    BY <1>4, <2>1 DEF TypeOK
  <2>3. Waiting' = Waiting
    BY <2>2 DEF Waiting
  <2>4. api' = api
    BY DEF Crash, apiVars
  <2>5. QED BY <1>1, <1>2, <2>2, <2>3, <2>4 DEF SingleInv, At
<1>6. ASSUME NEW w \in W, Working(w) PROVE SingleInv'
  <2>1. /\ \A m \in Message : queue[m] = 0
        /\ \A v \in Threads : Working(v) => v = w
        /\ api = "done" /\ "overlap" \notin mishaps
    BY <1>1, <1>6 DEF SingleInv, Waiting, TypeOK, Working, At
  <2>2. \A m \in Message : Cardinality(Unacked(W, m)) = IF owned[w] /\ job[w] = m THEN 1 ELSE 0
    <3>1. \A m : Unacked(W, m) = IF owned[w] /\ job[w] = m THEN {w} ELSE {}
      BY <1>3, <1>6, <2>1
    <3>2. QED BY <3>1, FS_EmptySet, FS_Singleton
  <2>3. /\ \A m \in Message : queue'[m] <= 1
        /\ \A m, n \in Message : queue'[m] > 0 /\ queue'[n] > 0 => m = n
    BY <1>4, <2>1, <2>2
  <2>4. \A v \in Threads : ~Working(v)'
    BY <1>2, <1>6, <2>1
  <2>5. api' = "done" /\ "overlap" \notin mishaps'
    BY <1>1, <2>1 DEF Crash, apiVars
  <2>6. QED BY <2>3, <2>4, <2>5 DEF SingleInv, Waiting
<1>7. QED BY <1>5, <1>6

\* As long as no message comes back that is being worked on or was worked off,
\* every step keeps one message, or one task, of the document.
LEMMA StepKeepsSingle ==
    ASSUME TypeOK, SingleInv, [Next]_vars
    PROVE  SingleInv'
<1>1. SUFFICES ASSUME "twice" \notin mishaps' PROVE SingleInv'
  BY DEF SingleInv
<1>2. "twice" \notin mishaps
  BY <1>1, MishapsGrow
<1>3. ASSUME UNCHANGED <<api, queue>>, "overlap" \notin mishaps',
             \A v \in Threads : (Working(v)' => Working(v)) /\ (pc[v] = "idle" => pc'[v] = "idle")
      PROVE  SingleInv'
  BY <1>2, <1>3 DEF SingleInv, Waiting, At
<1>4. CASE Register
  BY <1>2, <1>4 DEF Register, SingleInv, Waiting, Working, At, deliveryVars
<1>5. CASE Publish
  <2>1. /\ api' = "done" /\ "overlap" \notin mishaps' /\ UNCHANGED pc
        /\ \A m \in Message : queue[m] = 0
        /\ \A v \in Threads : pc[v] = "idle"
    BY <1>2, <1>5 DEF Publish, SingleInv, Waiting, TypeOK, At
  <2>2. \A m \in Message : queue'[m] = IF m = Msg("extract", 0) THEN 1 ELSE 0
    BY <1>5, <2>1 DEF Publish, Send, TypeOK
  <2>3. QED BY <2>1, <2>2 DEF SingleInv, Waiting, Working
<1>6. CASE PublishFails
  BY <1>2, <1>6 DEF PublishFails, SingleInv, Waiting, Working, At, deliveryVars
<1>7. CASE UNCHANGED vars
  BY <1>2, <1>3, <1>7 DEF vars, apiVars, deliveryVars, Working, SingleInv
<1>8. ASSUME NEW W \in SUBSET Threads, Redeliver(W) PROVE FALSE
  BY <1>1, <1>8 DEF Redeliver
<1>9. CASE Disturb
  BY <1>1, <1>8, <1>9, CrashKeepsSingle DEF Disturb, Threads
<1>10. ASSUME NEW w \in Threads, NEW m \in Message, Deliver(w, m) PROVE SingleInv'
  <2>1. /\ queue[m] > 0 /\ m \in Waiting
        /\ \A v \in Threads : ~Working(v)
    BY <1>2, <1>10 DEF Deliver, SingleInv, Waiting
  <2>2. /\ api' = "done" /\ "overlap" \notin mishaps'
    <3>1. Pool(m.task) \subseteq Threads
      BY DEF Pool, Threads
    <3>2. "overlap" \notin mishaps'
      BY <1>2, <1>10, <2>1, <3>1 DEF Deliver, SingleInv
    <3>3. QED BY <1>2, <1>10, <2>1, <3>2 DEF Deliver, SingleInv, apiVars
  <2>3. \A n \in Message : queue'[n] = 0
    <3>1. \A n \in Message : queue[n] > 0 => n = m
      BY <1>2, <2>1 DEF SingleInv, Waiting
    <3>2. queue[m] <= 1
      BY <1>2 DEF SingleInv
    <3>3. QED BY <1>10, <2>1, <3>1, <3>2 DEF Deliver, TypeOK
  <2>4. \A v \in Threads : Working(v)' => v = w
    BY <1>10, <2>1 DEF Deliver, Goto, TypeOK, Working
  <2>5. QED BY <2>2, <2>3, <2>4 DEF SingleInv, Waiting
<1>11. ASSUME NEW w \in Threads, Ack(w) PROVE SingleInv'
  <2>1. /\ UNCHANGED <<api, queue, mishaps>>
        /\ \A v \in Threads : (Working(v)' => Working(v)) /\ (pc[v] = "idle" => pc'[v] = "idle")
    BY <1>11 DEF Ack, Forget, Working, apiVars
  <2>2. QED BY <1>2, <1>3, <2>1 DEF SingleInv
<1>12. ASSUME NEW w \in Threads, Retry(w) \/ PublishNext(w) PROVE SingleInv'
  <2>1. Working(w) /\ Goto(w, "ack") /\ UNCHANGED <<api, mishaps>>
    BY <1>12 DEF Retry, PublishNext, Working, At, apiVars
  <2>2. UNCHANGED queue \/ \E m \in Message : Send(m)
    <3>1. job[w].retries < MaxRetries => Msg(job[w].task, job[w].retries + 1) \in Message
      BY IngestAssumption DEF TypeOK, Message, Msg
    <3>2. Msg(Successor(job[w].task), 0) \in Message
      BY IngestAssumption DEF Msg, Message, Task, Successor
    <3>3. QED BY <1>12, <3>1, <3>2 DEF Retry, PublishNext
  <2>3. QED BY <2>1, <2>2, SingleSends
<1>13. ASSUME NEW w \in Threads, Step(w), ~Ack(w), ~Retry(w), ~PublishNext(w)
       PROVE  SingleInv'
  <2>1. /\ Working(w) /\ UNCHANGED <<api, queue>>
        /\ \E l \in Label \ {"idle"} : Goto(w, l)
    BY <1>13, StepMoves
  <2>2. \A v \in Threads : (Working(v)' => Working(v)) /\ (pc[v] = "idle" => pc'[v] = "idle")
    BY <2>1 DEF Goto, TypeOK, Working
  <2>3. "overlap" \notin mishaps'
    <3>1. \A v \in Threads, m \in Message : ~Deliver(v, m)
      BY <2>1 DEF Deliver, Working, At, Goto, TypeOK
    <3>2. QED BY <1>2, <3>1, MishapsGrow DEF SingleInv
  <2>4. QED BY <1>3, <2>1, <2>2, <2>3
<1>14. QED BY <1>4, <1>5, <1>6, <1>7, <1>9, <1>10, <1>11, <1>12, <1>13 DEF Next, Work

\* At any time one message of the document waits or one task of it runs, unless
\* a message came back twice.
THEOREM SingleInvariant == Spec => []SingleInv
<1>1. Init => SingleInv
  BY DEF Init, SingleInv, Waiting, Working, At
<1>2. TypeOK /\ SingleInv /\ [Next]_vars => SingleInv'
  BY StepKeepsSingle
<1>3. QED BY <1>1, <1>2, Typing, PTL DEF Spec

\* So tasks of one worker overlap only where a message came back although its task
\* was running or had published what follows.
THEOREM OverlapsComeFromRedelivery == Spec => []OnlySecondDeliveriesOverlap
<1>1. SingleInv => OnlySecondDeliveriesOverlap
  BY DEF SingleInv, OnlySecondDeliveriesOverlap
<1>2. QED BY <1>1, SingleInvariant, PTL

-----------------------------------------------------------------------------
\* As long as no tasks overlap: the order in which a document is converted.

\* Which pool, and which message, a place of a task belongs to.
LEMMA Posts ==
    ASSUME Placed, TaskFits, NEW w \in Threads
    PROVE  /\ pc[w] \in ExtractLabel => w \in CeleryThreads /\ job[w].task = "extract"
           /\ pc[w] \in OcrLabel => w \in OcrThreads /\ job[w].task = "ocr"
           /\ pc[w] \in ChunkLabel => w \in CeleryThreads /\ job[w].task = "chunk"
           /\ pc[w] \in EmbedLabel => w \in CeleryThreads /\ job[w].task = "embed"
           /\ w \in OcrThreads /\ pc[w] # "idle" => job[w].task = "ocr"
           /\ w \in CeleryThreads <=> w \notin OcrThreads
<1>1. pc[w] \in ExtractLabel \cup OcrLabel \cup ChunkLabel \cup EmbedLabel => pc[w] # "idle"
  BY DEF ExtractLabel, OcrLabel, ChunkLabel, EmbedLabel
<1>2. /\ w \in CeleryThreads <=> w \notin OcrThreads
      /\ pc[w] # "idle" => w \in Pool(job[w].task)
  BY IngestAssumption DEF Threads, Placed, Busy, At
<1>3. QED BY <1>1, <1>2 DEF Placed, TaskFits, Pool

\* A thread at work is the only one of its worker.
LEMMA OthersRest ==
    ASSUME Alone, NEW w \in Threads, Working(w)
    PROVE  /\ w \in CeleryThreads => \A v \in CeleryThreads \ {w} : pc[v] \in {"idle", "ack"}
           /\ w \in OcrThreads => \A v \in OcrThreads \ {w} : pc[v] \in {"idle", "ack"}
BY DEF Alone, Working

\* A thread moves on and leaves PDF, markdown and messages as they are.
LEMMA OrderMoves ==
    ASSUME TypeOK, OrderInv, Placed', NEW w \in Threads, pc[w] # "idle", NEW l, Goto(w, l),
           UNCHANGED <<file, markdown, recognised, job>>,
           chunks = {} /\ file # "finished" => chunks' = {},
           \A m \in Message : m.task \in {"chunk", "embed"} /\ queue'[m] > 0 =>
              queue[m] > 0 \/ markdown = "clean",
           w \in CeleryThreads /\ l \in {"upsert", "move"} => file = "input",
           w \in OcrThreads /\ l \in {"recognise", "ocrcommit"} => markdown = "tagged",
           w \in OcrThreads /\ l \in {"ocred", "publish"} => markdown = "clean"
    PROVE  OrderInv'
<1>1. /\ pc'[w] = l
      /\ \A v \in Threads \ {w} : pc'[v] = pc[v]
  BY DEF TypeOK, Goto
<1>2. CeleryThreads \subseteq Threads /\ OcrThreads \subseteq Threads
  BY DEF Threads
<1>3. ConvertsFirst'
  BY <1>1, <1>2 DEF OrderInv, ConvertsFirst
<1>4. TagsLast'
  BY <1>1, <1>2 DEF OrderInv, TagsLast, Busy, At
<1>5. QED BY <1>3, <1>4 DEF OrderInv

\* A task that has read an input PDF is the only one at work on its document.
LEMMA InputMeansAlone ==
    ASSUME DownstreamInv, OrderInv, file # "finished"
    PROVE  /\ \A m \in Message : m.task # "extract" => ~(queue[m] > 0)
           /\ \A w \in Threads : Busy(w) => job[w].task = "extract" /\ w \in CeleryThreads
           /\ \A w \in OcrThreads : ~Busy(w)
<1>1. ~Ready
  BY DEF Ready
<1>2. /\ \A m \in Message : m.task # "extract" => ~(queue[m] > 0)
      /\ \A w \in Threads : Busy(w) => job[w].task = "extract"
  BY <1>1 DEF DownstreamInv, DownstreamHasMarkdown
<1>3. \A w \in Threads : Busy(w) => w \in CeleryThreads
  BY <1>2 DEF OrderInv, Placed, Pool
<1>4. QED BY <1>2, <1>3, IngestAssumption DEF Threads

\* extract_pdf converts, stores the markdown and moves the PDF.
LEMMA ExtractKeepsPlan ==
    ASSUME Alone, TypeOK, DownstreamInv, RewriteInv, OrderInv, Placed',
           NEW w \in Threads, ExtractStep(w)
    PROVE  OrderInv'
<1>1. /\ w \in CeleryThreads /\ w \notin OcrThreads /\ pc[w] # "idle" /\ UNCHANGED <<queue, job>>
      /\ \A v \in CeleryThreads \ {w} : pc[v] \in {"idle", "ack"}
      /\ \A code : WriteStatus(w, code) => UNCHANGED <<chunks, contents>>
  <2>1. pc[w] \in ExtractLabel /\ UNCHANGED <<queue, job>>
    BY TaskMoves
  <2>2. Working(w) /\ pc[w] \notin PendingLabel
    BY <2>1 DEF ExtractLabel, Working, PendingLabel, RewriteLabel
  <2>3. QED BY <2>1, <2>2, Posts, NothingPending, OthersRest DEF OrderInv, DownstreamInv, Working
<1> USE DEF At, dataVars, deliveryVars
<1>2. CASE ExtractOpen(w) \/ Triage(w) \/ Recorded(w) \/ Convert(w) \/ Extracted(w)
  <2>1. UNCHANGED <<file, markdown, recognised, chunks>>
    BY <1>1, <1>2 DEF ExtractOpen, Triage, Recorded, Convert, Extracted, WriteStatus, ResourceFails
  <2>2. PICK l : Goto(w, l) /\ l # "move" /\ (l = "upsert" => file = "input")
    BY <1>2 DEF ExtractOpen, Triage, Recorded, Convert, Extracted, ResourceFails
  <2>3. QED BY <1>1, <2>1, <2>2, OrderMoves
<1>3. CASE Upsert(w)
  <2>1. file = "input"
    BY <1>1, <1>3 DEF Upsert, OrderInv, ConvertsFirst
  <2>2. CASE Goto(w, "fail") /\ UNCHANGED <<file, markdown, recognised, chunks>>
    BY <1>1, <2>2, OrderMoves
  <2>3. CASE /\ markdown' = FreshMarkdown /\ Goto(w, "move")
             /\ UNCHANGED <<file, chunks, recognised>>
    <3>1. \A v \in OcrThreads : pc'[v] = "idle"
      BY <1>1, <2>1, <2>3, InputMeansAlone, IngestAssumption DEF Goto, TypeOK, Busy, Threads
    <3>2. ConvertsFirst'
      BY <1>1, <2>1, <2>3 DEF OrderInv, ConvertsFirst
    <3>3. \A v \in Threads : pc'[v] # "idle" => job'[v].task = "extract"
      BY <1>1, <2>1, <2>3, InputMeansAlone DEF Goto, TypeOK, Busy
    <3>4. TagsLast'
      <4>1. recognised' = {}
        BY <2>1, <2>3 DEF OrderInv, ConvertsFirst
      <4>2. QED BY <1>1, <2>1, <3>1, <3>3, <4>1, InputMeansAlone DEF TagsLast, Busy
    <3>5. QED BY <3>2, <3>4 DEF OrderInv
  <2>4. QED BY <1>3, <2>2, <2>3 DEF Upsert, DbFails
<1>4. CASE Move(w)
  <2>1. CASE Goto(w, "fail") /\ UNCHANGED <<file, markdown, recognised, chunks>>
    BY <1>1, <2>1, OrderMoves
  <2>2. CASE file' = "finished" /\ Goto(w, "extracted") /\ UNCHANGED dataVars
    <3>1. /\ pc'[w] = "extracted"
          /\ \A v \in Threads \ {w} : pc'[v] = pc[v]
      BY <2>2 DEF Goto, TypeOK
    <3>2. ConvertsFirst'
      BY <1>1, <2>2, <3>1 DEF OrderInv, ConvertsFirst, Threads
    <3>3. TagsLast'
      BY <1>1, <2>2, <3>1 DEF OrderInv, TagsLast, Busy, Threads
    <3>4. QED BY <3>2, <3>3 DEF OrderInv
  <2>3. QED BY <1>4, <2>1, <2>2 DEF Move, ResourceFails
<1>5. QED BY <1>2, <1>3, <1>4 DEF ExtractStep

\* ocr_images takes the tags out of the markdown when it commits its rows.
LEMMA OcrKeepsPlan ==
    ASSUME Alone, TypeOK, DownstreamInv, RewriteInv, OrderInv, Placed',
           NEW w \in Threads, OcrStep(w)
    PROVE  OrderInv'
<1>1. /\ w \in OcrThreads /\ w \notin CeleryThreads /\ pc[w] # "idle"
      /\ UNCHANGED <<queue, job, file>>
      /\ \A v \in OcrThreads \ {w} : pc[v] \in {"idle", "ack"}
      /\ \A code : WriteStatus(w, code) => UNCHANGED <<chunks, contents>>
  <2>1. pc[w] \in OcrLabel /\ UNCHANGED <<queue, job, file>>
    BY TaskMoves
  <2>2. Working(w) /\ pc[w] \notin PendingLabel
    BY <2>1 DEF OcrLabel, Working, PendingLabel, RewriteLabel
  <2>3. QED BY <2>1, <2>2, Posts, NothingPending, OthersRest DEF OrderInv, DownstreamInv, Working
<1>2. file = "finished" /\ markdown # "none"
  BY <1>1, DownstreamIsReady, Posts DEF OrderInv, DownstreamInv, Ready
<1> USE DEF At, dataVars
<1>3. CASE OcrCommit(w) /\ ~DbFails(w, "error")
  <2>1. Goto(w, "ocred") /\ markdown' = "clean"
    BY <1>3 DEF OcrCommit
  <2>2. ConvertsFirst'
    <3>1. \A v \in CeleryThreads : pc'[v] = pc[v]
      BY <1>1, <2>1 DEF Goto, TypeOK, Threads
    <3>2. QED BY <1>1, <1>2, <3>1 DEF OrderInv, ConvertsFirst
  <2>3. TagsLast'
    BY <1>1, <2>1 DEF TagsLast, Goto, TypeOK
  <2>4. QED BY <2>2, <2>3 DEF OrderInv
<1>4. CASE ~OcrCommit(w) \/ DbFails(w, "error")
  <2>1. UNCHANGED <<markdown, recognised, chunks>>
    BY <1>1, <1>4 DEF OcrStep, OcrStart, Scan, Recognise, Ocred, WriteStatus, DbFails
  <2>2. pc[w] \in {"recognise", "ocrcommit"} => markdown = "tagged"
    BY <1>1 DEF OrderInv, TagsLast
  <2>3. pc[w] = "ocred" => markdown = "clean"
    BY <1>1 DEF OrderInv, TagsLast
  <2>4. PICK l : /\ Goto(w, l)
                 /\ l \in {"recognise", "ocrcommit"} => markdown = "tagged"
                 /\ l \in {"ocred", "publish"} => markdown = "clean"
    BY <1>2, <1>4, <2>2, <2>3 DEF OcrStep, OcrStart, Scan, Recognise, Ocred, DbFails
  <2>5. QED BY <1>1, <2>1, <2>4, OrderMoves
<1>5. QED BY <1>3, <1>4

\* chunk_document and embed_document leave the markdown and the PDF alone.
LEMMA LaterTasksKeepPlan ==
    ASSUME TypeOK, DownstreamInv, RewriteInv, OrderInv, Placed',
           NEW w \in Threads, ChunkStep(w) \/ EmbedStep(w)
    PROVE  OrderInv'
<1>1. /\ w \notin OcrThreads /\ pc[w] # "idle" /\ UNCHANGED <<queue, job, file, markdown>>
      /\ job[w].task # "extract"
      /\ \E l \in ChunkLabel \cup EmbedLabel \cup {"ack", "fail", "publish"} : Goto(w, l)
  BY TaskMoves, Posts DEF OrderInv, DownstreamInv, ChunkLabel, EmbedLabel
<1>2. file = "finished"
  BY <1>1, DownstreamIsReady DEF Ready
<1>3. UNCHANGED recognised
  BY DEF ChunkStep, ChunkStart, Preserve, Preserved, DeleteBegin, DeleteEnd, SaveJson,
         InsertChunks, Chunked, EmbedStep, ReadChunks, EmbedStart, Vectors, ClearPoints, Upload,
         ServeBegin, ServeEnd, StoreContents, Indexed, Complete, WriteStatus, DbFails,
         ResourceFails, dataVars
<1>4. QED BY <1>1, <1>2, <1>3, OrderMoves DEF ChunkLabel, EmbedLabel

\* A task ends: what OCR or chunking publishes finds a markdown without tags.
LEMMA EndKeepsPlan ==
    ASSUME Alone, TypeOK, DownstreamInv, RewriteInv, OrderInv, Placed',
           NEW w \in Threads,
           Retry(w) \/ GiveUp(w) \/ Discard(w) \/ ReportError(w) \/ PublishNext(w)
    PROVE  OrderInv'
<1> USE DEF At, dataVars, deliveryVars
<1>1. CASE Retry(w)
  <2>1. pc[w] = "fail" /\ Goto(w, "ack") /\ UNCHANGED <<file, markdown, recognised, chunks, job>>
    BY <1>1 DEF Retry
  <2>2. ASSUME NEW m \in Message, m.task \in {"chunk", "embed"}, queue'[m] > 0
        PROVE  queue[m] > 0 \/ markdown = "clean"
    <3>1. CASE m = Msg(job[w].task, job[w].retries + 1)
      BY <2>1, <2>2, <3>1 DEF Msg, OrderInv, TagsLast, Busy
    <3>2. CASE m # Msg(job[w].task, job[w].retries + 1)
      BY <1>1, <2>2, <3>2 DEF Retry, Send, TypeOK
    <3>3. QED BY <3>1, <3>2
  <2>3. QED BY <2>1, <2>2, OrderMoves
<1>2. CASE GiveUp(w)
  <2>1. /\ pc[w] = "fail" /\ UNCHANGED <<file, markdown, recognised, chunks, queue, job>>
        /\ \E l \in {"discard", "error"} : Goto(w, l)
    BY <1>2 DEF GiveUp
  <2>2. QED BY <2>1, OrderMoves
<1>3. CASE Discard(w)
  <2>1. /\ pc[w] = "discard" /\ UNCHANGED <<markdown, recognised, chunks, queue, job>>
        /\ file' # file => file = "input" /\ file' = "error"
    BY <1>3 DEF Discard
  <2>2. PICK l : Goto(w, l) /\ l \in {"error", "ack"}
    BY <1>3 DEF Discard
  <2>3. CASE file' = file
    BY <2>1, <2>2, <2>3, OrderMoves
  <2>4. CASE file' # file
    <3>1. /\ pc'[w] = l
          /\ \A v \in Threads \ {w} : pc'[v] = pc[v]
      BY <2>2 DEF Goto, TypeOK
    <3>2. w \in CeleryThreads /\ \A v \in OcrThreads : pc[v] = "idle" /\ v # w
      BY <2>1, <2>4, Posts, InputMeansAlone, IngestAssumption
         DEF OrderInv, DownstreamInv, ExtractLabel, Busy, Threads
    <3>3. ConvertsFirst'
      <4>1. \A v \in CeleryThreads \ {w} : pc[v] \in {"idle", "ack"}
        BY <2>1, <3>2, OthersRest DEF Working
      <4>2. QED BY <2>1, <2>2, <2>4, <3>1, <4>1 DEF OrderInv, ConvertsFirst, Threads
    <3>4. TagsLast'
      BY <2>1, <2>2, <3>1, <3>2 DEF OrderInv, TagsLast, Busy, Threads
    <3>5. QED BY <3>3, <3>4 DEF OrderInv
  <2>5. QED BY <2>3, <2>4
<1>4. CASE ReportError(w)
  <2>1. /\ pc[w] = "error" /\ UNCHANGED <<file, markdown, recognised, queue, job>>
        /\ Goto(w, "ack") /\ chunks' \subseteq chunks
    BY <1>4 DEF ReportError, WriteStatus, CommitPending
  <2>2. QED BY <2>1, OrderMoves
<1>5. CASE PublishNext(w)
  <2>1. /\ pc[w] = "publish" /\ UNCHANGED <<file, markdown, recognised, chunks, job>>
        /\ Goto(w, "ack")
    BY <1>5 DEF PublishNext
  <2>2. ASSUME NEW m \in Message, m.task \in {"chunk", "embed"}, queue'[m] > 0
        PROVE  queue[m] > 0 \/ markdown = "clean"
    <3>1. CASE m = Msg(Successor(job[w].task), 0)
      <4>1. job[w].task \in {"ocr", "chunk", "embed"}
        BY <2>2, <3>1 DEF Msg, Successor, TypeOK, Message, Task
      <4>2. job[w].task = "ocr" => w \in OcrThreads
        BY <2>1 DEF OrderInv, Placed, Pool, Busy
      <4>3. QED BY <2>1, <4>1, <4>2 DEF OrderInv, TagsLast, Busy
    <3>2. CASE m # Msg(Successor(job[w].task), 0)
      BY <1>5, <2>2, <3>2 DEF PublishNext, Send, TypeOK
    <3>3. QED BY <3>1, <3>2
  <2>3. QED BY <2>1, <2>2, OrderMoves
<1>6. QED BY <1>1, <1>2, <1>3, <1>4, <1>5

\* Threads that forget, and messages that come back, ask for nothing new.
LEMMA ForgetKeepsPlan ==
    ASSUME OrderInv, Placed', NEW W \in SUBSET Threads, Forget(W),
           UNCHANGED <<file, markdown, recognised, chunks>>,
           \A m \in Message : queue'[m] > 0 =>
              queue[m] > 0 \/ \E w \in W : pc[w] # "idle" /\ job[w] = m
    PROVE  OrderInv'
<1>1. \A w \in Threads : \/ pc'[w] = "idle"
                         \/ pc'[w] = pc[w] /\ job'[w] = job[w]
  BY DEF Forget
<1>2. ConvertsFirst'
  BY <1>1 DEF OrderInv, ConvertsFirst, Threads
<1>3. TagsLast'
  BY <1>1 DEF OrderInv, TagsLast, Threads, Busy, At
<1>4. QED BY <1>2, <1>3 DEF OrderInv

\* As long as no tasks overlap every step keeps the order of the conversion.
LEMMA StepKeepsPlan ==
    ASSUME Alone, TypeOK, DownstreamInv, RewriteInv, OrderInv, Placed', [Next]_vars
    PROVE  OrderInv'
<1>1. ASSUME UNCHANGED <<pc, job, file, markdown, recognised, chunks>>,
             \A m \in Message : m.task \in {"chunk", "embed"} /\ queue'[m] > 0 =>
                queue[m] > 0 \/ \E w \in Threads : Busy(w) /\ job[w] = m
      PROVE  OrderInv'
  BY <1>1 DEF OrderInv, ConvertsFirst, TagsLast, Busy, At
<1>2. CASE Register \/ PublishFails \/ UNCHANGED vars
  BY <1>1, <1>2 DEF Register, PublishFails, vars, dataVars, deliveryVars
<1>3. CASE Publish
  <2>1. \A m \in Message : m.task # "extract" => queue'[m] = queue[m]
    BY <1>3 DEF Publish, Send, Msg, TypeOK
  <2>2. QED BY <1>1, <1>3, <2>1 DEF Publish, dataVars
<1>4. ASSUME NEW W \in SUBSET Threads, Crash(W) PROVE OrderInv'
  BY <1>4, RequeueKeepsOrder, ForgetKeepsPlan DEF Crash, dataVars
<1>5. ASSUME NEW W \in SUBSET Threads, Redeliver(W) PROVE OrderInv'
  <2>1. \A m \in Message : queue'[m] > 0 =>
           queue[m] > 0 \/ \E w \in W : pc[w] # "idle" /\ job[w] = m
    BY <1>5, RequeueKeepsOrder DEF Redeliver
  <2>2. QED BY <1>1, <1>5, <2>1 DEF Redeliver, dataVars, Busy, At
<1>6. CASE Disturb
  BY <1>4, <1>5, <1>6 DEF Disturb, Threads
<1>7. ASSUME NEW w \in Threads, NEW m \in Message, Deliver(w, m) PROVE OrderInv'
  <2>1. /\ pc'[w] = m.task /\ job'[w] = m /\ queue[m] > 0
        /\ \A v \in Threads \ {w} : pc'[v] = pc[v] /\ job'[v] = job[v]
        /\ UNCHANGED <<file, markdown, recognised, chunks>>
    BY <1>7 DEF TypeOK, Deliver, Goto, dataVars
  <2>2. \A n \in Message : queue'[n] > 0 => queue[n] > 0
    BY <1>7 DEF TypeOK, Deliver
  <2>3. m.task \in Task
    BY DEF Message
  <2>4. ConvertsFirst'
    BY <2>1, <2>3 DEF OrderInv, ConvertsFirst, Task, Threads
  <2>5. TagsLast'
    BY <2>1, <2>2, <2>3 DEF OrderInv, TagsLast, Task, Threads, Busy, At
  <2>6. QED BY <2>4, <2>5 DEF OrderInv
<1>8. ASSUME NEW w \in Threads, Ack(w) PROVE OrderInv'
  <2>1. /\ {w} \in SUBSET Threads /\ Forget({w})
        /\ UNCHANGED <<queue, file, markdown, recognised, chunks>>
    BY <1>8 DEF Ack, dataVars
  <2>2. QED BY <2>1, ForgetKeepsPlan
<1>9. ASSUME NEW w \in Threads, Step(w) PROVE OrderInv'
  BY <1>8, <1>9, ExtractKeepsPlan, OcrKeepsPlan, LaterTasksKeepPlan, EndKeepsPlan
     DEF Step, EndStep
<1>10. QED BY <1>2, <1>3, <1>6, <1>7, <1>9 DEF Next, Work

-----------------------------------------------------------------------------
\* As long as no tasks overlap: the rows.

\* Sources of the rows of one INSERT: a text has one row, an image one per copy.
LEMMA NewRowsSources ==
    ASSUME NEW g \in Nat, NEW texts \in SUBSET Text, NEW copies \in [Images -> Nat]
    PROVE  /\ \A r \in NewRows(g, texts, copies) : r.src \in texts \cup Images
           /\ \A r \in NewRows(g, texts, copies) : r.src \in Images => copies[r.src] > 0
           /\ \A o \in Images : copies[o] > 0 =>
                \E r \in NewRows(g, texts, copies) : r.src = o
           /\ (\A o \in Images : copies[o] <= 1) =>
                \A r, s \in NewRows(g, texts, copies) : r.src = s.src => r = s
<1> DEFINE ofText(t) == [gen |-> g, src |-> t, copy |-> 1]
           ofImage(o, k) == [gen |-> g, src |-> o, copy |-> k]
<1>1. \A r : r \in NewRows(g, texts, copies) <=>
           \/ \E t \in texts : r = ofText(t)
           \/ \E o \in Images : \E k \in 1 .. copies[o] : r = ofImage(o, k)
  BY DEF NewRows
<1>2. /\ \A t : ofText(t).src = t
      /\ \A o, k : ofImage(o, k).src = o
  OBVIOUS
<1>3. /\ \A o \in Images : \A k \in 1 .. copies[o] : copies[o] > 0 /\ k \in Nat /\ 1 <= k /\ k <= copies[o]
      /\ \A o \in Images : copies[o] > 0 => 1 \in 1 .. copies[o]
      /\ \A o \in Images : o \notin texts
  BY IngestAssumption
<1>4. \A r \in NewRows(g, texts, copies) : r.src \in texts \cup Images
  <2> HIDE DEF ofText, ofImage
  <2>1. QED BY <1>1, <1>2
<1>5. \A r \in NewRows(g, texts, copies) : r.src \in Images => copies[r.src] > 0
  <2> HIDE DEF ofText, ofImage
  <2>1. QED BY <1>1, <1>2, <1>3
<1>6. \A o \in Images : copies[o] > 0 => \E r \in NewRows(g, texts, copies) : r.src = o
  <2> HIDE DEF ofText, ofImage
  <2>1. QED BY <1>1, <1>2, <1>3
<1>7. ASSUME \A o \in Images : copies[o] <= 1,
             NEW r \in NewRows(g, texts, copies), NEW s \in NewRows(g, texts, copies),
             r.src = s.src
      PROVE  r = s
  <2>1. \A o \in Images : \A k \in 1 .. copies[o] : k = 1
    BY <1>3, <1>7
  <2> HIDE DEF ofText, ofImage
  <2>2. \/ \E t \in texts : r = ofText(t) /\ r.src = t
        \/ \E o \in Images : r = ofImage(o, 1) /\ r.src = o
    BY <1>1, <1>2, <2>1
  <2>3. \/ \E t \in texts : s = ofText(t) /\ s.src = t
        \/ \E o \in Images : s = ofImage(o, 1) /\ s.src = o
    BY <1>1, <1>2, <2>1
  <2>4. QED BY <1>3, <1>7, <2>2, <2>3
<1>8. QED BY <1>4, <1>5, <1>6, <1>7

\* A table without duplicates has at most one copy of an image, and one of every
\* image that has a row.
LEMMA CopiesOfRows ==
    ASSUME TypeOK, NEW o
    PROVE  /\ Copies(o) \in Nat
           /\ RowsUnique => Copies(o) <= 1
           /\ (\E r \in chunks : r.src = o) => Copies(o) > 0
<1> DEFINE S == {r \in chunks : r.src = o}
<1>1. Copies(o) = Cardinality(S) /\ Copies(o) \in Nat
  BY CopiesType DEF Copies
<1>2. IsFiniteSet(S)
  <2>1. S \in SUBSET chunks
    OBVIOUS
  <2>2. QED BY <2>1, FS_Subset DEF TypeOK
<1>3. ASSUME RowsUnique PROVE Copies(o) <= 1
  <2>1. CASE S = {}
    BY <1>1, <2>1, FS_EmptySet
  <2>2. CASE \E r : r \in S
    <3>1. PICK r : r \in S
      BY <2>2
    <3>2. S = {r}
      BY <1>3, <3>1 DEF RowsUnique
    <3>3. QED BY <1>1, <3>2, FS_Singleton
  <2>3. QED BY <2>1, <2>2
<1>4. ASSUME NEW r \in chunks, r.src = o PROVE Copies(o) > 0
  <2>1. S # {}
    BY <1>4
  <2> HIDE DEF S
  <2>2. QED BY <1>1, <1>2, <2>1, FS_EmptySet
<1>5. QED BY <1>1, <1>3, <1>4

\* Rows that one embedding run stores serve its chunk rows, each of them once.
LEMMA StoredServe ==
    ASSUME NEW g, NEW rows
    PROVE  Serves(rows, {[gen |-> g, chunk |-> r] : r \in rows})
<1> DEFINE stored == {[gen |-> g, chunk |-> r] : r \in rows}
<1>1. \A c : c \in stored <=> \E r \in rows : c = [gen |-> g, chunk |-> r]
  OBVIOUS
<1>2. \A r : [gen |-> g, chunk |-> r].chunk = r
  OBVIOUS
<1>3. {c.chunk : c \in stored} = rows
  <2>1. ASSUME NEW r \in rows PROVE r \in {c.chunk : c \in stored}
    <3>1. [gen |-> g, chunk |-> r] \in stored
      BY <2>1
    <3>2. QED BY <1>2, <3>1
  <2>2. ASSUME NEW c \in stored PROVE c.chunk \in rows
    BY <1>1, <1>2, <2>2
  <2>3. QED BY <2>1, <2>2
<1>4. \A c, d \in stored : c.chunk = d.chunk => c = d
  BY <1>1, <1>2
<1>5. QED BY <1>3, <1>4 DEF Serves

\* What a thread of queue celery that has reached l needs of what it has read,
\* preserved and deleted.
Finds(w, l) ==
    /\ l = "preserving" => cseen[w] = contents
    /\ l \in RewriteLabel => cdel[w] = contents
    /\ l \in RewriteLabel /\ "exhausted" \notin mishaps => \A o \in recognised : keep[w][o] > 0
    /\ l \in RewriteLabel => \A o \in Images : keep[w][o] <= 1
    /\ l = "deleting" => seen[w] = chunks
    /\ l \in {"save", "insert"} => del[w] = chunks
    /\ l \in {"fail", "error"} => \/ del[w] = {} /\ cdel[w] = {}
                                  \/ del[w] = chunks /\ cdel[w] = contents
    /\ l \in {"embedding", "vectors", "clear", "upload", "serve", "serving", "store"}
           => seen[w] = chunks
    /\ l = "upload" => points = {}
    /\ l \in {"serve", "serving", "store", "indexed", "complete"} => points = chunks
    /\ l = "serving" => cseen[w] = contents
    /\ l = "store" => cdel[w] = contents
    /\ l \in {"indexed", "complete"} => Serves(chunks, contents)

\* RewriteReads and EmbeddingReads say that every thread finds what it needs.
LEMMA ReadsAreFinds ==
    /\ RewriteReads /\ EmbeddingReads <=> \A w \in CeleryThreads : Finds(w, pc[w])
    /\ (RewriteReads /\ EmbeddingReads)' <=> \A w \in CeleryThreads : Finds(w, pc[w])'
<1>1. RewriteReads /\ EmbeddingReads <=> \A w \in CeleryThreads : Finds(w, pc[w])
  BY DEF RewriteReads, EmbeddingReads, Finds
<1>2. (RewriteReads /\ EmbeddingReads)' <=> \A w \in CeleryThreads : Finds(w, pc[w])'
  BY DEF RewriteReads, EmbeddingReads, Finds
<1>3. QED BY <1>1, <1>2

\* What RowsInv says of the tables alone.
RowsFit == OcrRowsCommitWithTags /\ NoDuplicateRows /\ NoDanglingContents /\ OcrKept

\* A thread at work leaves the others of its worker at rest, where they need nothing.
LEMMA ActsAlone ==
    ASSUME TypeOK, Alone, RowsInv, NEW w \in CeleryThreads, Working(w), NEW l, Goto(w, l),
           Finds(w, l)', RowsFit',
           \A v \in Threads \ {w} : keep'[v] = keep[v]
    PROVE  RowsInv'
<1>1. /\ pc'[w] = l
      /\ \A v \in Threads \ {w} : pc'[v] = pc[v]
      /\ CeleryThreads \subseteq Threads /\ OcrThreads \subseteq Threads
      /\ w \notin OcrThreads
  BY IngestAssumption DEF TypeOK, Goto, Threads
<1>2. \A v \in CeleryThreads : Finds(v, pc[v])'
  <2>1. ASSUME NEW v \in CeleryThreads, v # w PROVE Finds(v, pc[v])'
    <3>1. pc'[v] \in {"idle", "ack"}
      BY <1>1, <2>1, OthersRest
    <3>2. QED BY <3>1 DEF Finds, RewriteLabel
  <2>2. QED BY <1>1, <2>1
<1>3. ReadOnce'
  BY <1>1 DEF RowsInv, ReadOnce
<1>4. QED BY <1>2, <1>3, ReadsAreFinds DEF RowsInv, RowsFit

\* The tables as they are fit the history as it grows.
LEMMA FitsOn ==
    ASSUME RowsInv, mishaps \subseteq mishaps', "overlap" \notin mishaps',
           UNCHANGED <<markdown, chunks, contents, recognised>>
    PROVE  RowsFit'
BY DEF RowsInv, RowsFit, OcrRowsCommitWithTags, NoDuplicateRows, RowsUnique, NoDanglingContents,
       OcrKept, OcrSurvives

\* A thread of queue ocr moves on and leaves the tables and the other threads alone.
LEMMA OcrMovesOn ==
    ASSUME TypeOK, RowsInv, mishaps \subseteq mishaps', "overlap" \notin mishaps',
           NEW w \in OcrThreads, NEW l, Goto(w, l),
           UNCHANGED <<markdown, chunks, contents, points, recognised>>,
           \A v \in Threads \ {w} : UNCHANGED <<keep[v], seen[v], cseen[v], del[v], cdel[v]>>,
           l = "ocrcommit" => \A o \in Images : keep'[w][o] <= 1
    PROVE  RowsInv'
<1>1. /\ pc'[w] = l
      /\ \A v \in Threads \ {w} : pc'[v] = pc[v]
      /\ CeleryThreads \subseteq Threads \ {w} /\ OcrThreads \subseteq Threads
  BY IngestAssumption DEF TypeOK, Goto, Threads
<1>2. \A v \in CeleryThreads : Finds(v, pc[v])'
  <2>1. \A v \in CeleryThreads : Finds(v, pc[v])
    BY ReadsAreFinds DEF RowsInv
  <2>2. QED BY <1>1, <2>1 DEF Finds
<1>3. ReadOnce'
  BY <1>1 DEF RowsInv, ReadOnce
<1>4. QED BY <1>2, <1>3, ReadsAreFinds, FitsOn DEF RowsInv, RowsFit

\* extract_pdf changes no row, and the markdown only where there is none.
LEMMA ExtractKeepsRows ==
    ASSUME Alone, TypeOK, DownstreamInv, RewriteInv, OrderInv, RowsInv,
           mishaps \subseteq mishaps', "overlap" \notin mishaps',
           NEW w \in Threads, ExtractStep(w)
    PROVE  RowsInv'
<1>1. /\ pc[w] \in ExtractLabel /\ UNCHANGED <<keep, seen, cseen>>
      /\ \E l \in ExtractLabel \cup {"ack", "fail", "publish"} : Goto(w, l)
  BY TaskMoves
<1>2. Working(w) /\ pc[w] \notin PendingLabel
  BY <1>1 DEF ExtractLabel, Working, PendingLabel, RewriteLabel
<1>3. /\ w \in CeleryThreads /\ del[w] = {} /\ cdel[w] = {} /\ (EndTx(w) => UNCHANGED <<del, cdel>>)
      /\ \A code : WriteStatus(w, code) => UNCHANGED <<chunks, contents, del, cdel>>
  BY <1>1, <1>2, Posts, NothingPending DEF OrderInv, DownstreamInv
<1>4. UNCHANGED <<chunks, contents, points, recognised, del, cdel>>
  BY <1>3 DEF ExtractStep, ExtractOpen, Triage, Recorded, Convert, Upsert, Move, Extracted,
              WriteStatus, DbFails, ResourceFails, Poison, dataVars, txVars
<1>5. RowsFit'
  <2>1. CASE UNCHANGED markdown
    BY <1>4, <2>1, FitsOn
  <2>2. CASE markdown' # markdown
    <3>1. Upsert(w)
      BY <2>2 DEF ExtractStep, ExtractOpen, Triage, Recorded, Convert, Upsert, Move, Extracted,
                  WriteStatus, DbFails, ResourceFails, dataVars
    <3>2. chunks = {} /\ recognised = {}
      BY <1>3, <3>1 DEF Upsert, At, OrderInv, ConvertsFirst
    <3>3. QED BY <1>4, <3>2
              DEF RowsInv, RowsFit, OcrRowsCommitWithTags, NoDuplicateRows, RowsUnique,
                  NoDanglingContents, OcrKept, OcrSurvives
  <2>3. QED BY <2>1, <2>2
<1>6. PICK l \in ExtractLabel \cup {"ack", "fail", "publish"} : Goto(w, l)
  BY <1>1
<1>7. Finds(w, l)'
  BY <1>3, <1>4 DEF Finds, RewriteLabel, ExtractLabel
<1>8. QED BY <1>1, <1>2, <1>3, <1>5, <1>6, <1>7, ActsAlone

\* ocr_images adds the rows of its images in the commit that cleans the markdown.
LEMMA OcrKeepsRows ==
    ASSUME Alone, TypeOK, DownstreamInv, RewriteInv, OrderInv, RowsInv,
           mishaps \subseteq mishaps', "overlap" \notin mishaps',
           NEW w \in Threads, OcrStep(w)
    PROVE  RowsInv'
<1>1. pc[w] \in OcrLabel /\ UNCHANGED <<points, seen, cseen>>
  BY TaskMoves
<1>2. /\ w \in OcrThreads
      /\ del[w] = {} /\ cdel[w] = {} /\ (EndTx(w) => UNCHANGED <<del, cdel>>)
      /\ \A code : WriteStatus(w, code) => UNCHANGED <<chunks, contents, del, cdel>>
  BY <1>1, Posts, NothingPending
     DEF OrderInv, DownstreamInv, OcrLabel, PendingLabel, RewriteLabel
<1>3. /\ w \notin CeleryThreads /\ CeleryThreads \subseteq Threads
      /\ \A v \in OcrThreads \ {w} : pc[v] \in {"idle", "ack"}
  BY <1>1, <1>2, IngestAssumption, OthersRest DEF Working, OcrLabel, Threads
<1> USE DEF At, dataVars, txVars
<1>4. UNCHANGED <<contents, del, cdel>>
  BY <1>2 DEF OcrStep, OcrStart, Scan, Recognise, OcrCommit, Ocred, WriteStatus, DbFails, Poison
<1>5. CASE Recognise(w)
  <2>1. /\ \A v \in Threads \ {w} : keep'[v] = keep[v]
        /\ \A o \in Images : keep'[w][o] <= 1
    BY <1>5 DEF Recognise, TypeOK
  <2>2. Goto(w, "ocrcommit") /\ UNCHANGED <<markdown, chunks, recognised>>
    BY <1>5 DEF Recognise
  <2>3. QED BY <1>1, <1>2, <1>4, <2>1, <2>2, OcrMovesOn
<1>6. CASE OcrCommit(w) /\ ~DbFails(w, "error")
  <2> DEFINE rows == NewRows(gen', {}, keep[w])
  <2>1. /\ pc[w] = "ocrcommit" /\ Goto(w, "ocred") /\ UNCHANGED keep
        /\ gen' = gen + 1 /\ markdown' = "clean"
        /\ recognised' = recognised \cup {o \in Images : keep[w][o] > 0}
        /\ chunks' = chunks \cup rows
    BY <1>6 DEF OcrCommit
  <2>2. /\ \A r \in rows : r.src \in Images
        /\ \A o \in Images : keep[w][o] > 0 => \E r \in rows : r.src = o
        /\ \A r, s \in rows : r.src = s.src => r = s
    <3>1. gen' \in Nat /\ {} \in SUBSET Text /\ keep[w] \in [Images -> Nat]
      BY <2>1 DEF TypeOK
    <3>2. \A o \in Images : keep[w][o] <= 1
      BY <1>2, <2>1 DEF RowsInv, ReadOnce
    <3>3. QED BY <3>1, <3>2, NewRowsSources
  <2> HIDE DEF rows
  <2>3. "overlap" \notin mishaps
    OBVIOUS
  <2>4. markdown = "tagged" /\ recognised = {} /\ \A r \in chunks : r.src \notin Images
    BY <1>2, <2>1, <2>3 DEF OrderInv, TagsLast, RowsInv, OcrRowsCommitWithTags
  <2>5. \A v \in CeleryThreads : Finds(v, pc[v])'
    <3>1. ASSUME NEW v \in CeleryThreads
          PROVE  pc'[v] = pc[v] /\ pc[v] \notin ChunkLabel \cup EmbedLabel
      <4>1. pc[v] # "idle" => job[v].task \notin {"chunk", "embed"}
        BY <1>3, <2>4 DEF OrderInv, TagsLast, Busy
      <4>2. QED BY <1>3, <2>1, <4>1, Posts
                DEF Goto, TypeOK, ChunkLabel, EmbedLabel, OrderInv, DownstreamInv
    <3>2. ASSUME NEW v \in CeleryThreads, pc[v] \in {"fail", "error"}
          PROVE  del[v] = {} /\ cdel[v] = {}
      <4>1. job[v].task # "chunk"
        BY <1>3, <2>4, <3>2 DEF OrderInv, TagsLast, Busy
      <4>2. QED BY <1>3, <3>2, <4>1 DEF RewriteInv, PendingInRewrite
    <3>3. QED BY <1>4, <3>1, <3>2 DEF Finds, RewriteLabel, ChunkLabel, EmbedLabel
  <2>6. ReadOnce'
    BY <1>3, <2>1 DEF ReadOnce, Goto, TypeOK, Threads
  <2>7. OcrRowsCommitWithTags' /\ NoDanglingContents'
    BY <1>4, <2>1, <2>3 DEF OcrRowsCommitWithTags, NoDanglingContents, RowsInv
  <2>8. RowsUnique' /\ OcrSurvives'
    <3>1. RowsUnique
      BY <2>3 DEF RowsInv, NoDuplicateRows
    <3>2. RowsUnique'
      BY <2>1, <2>2, <2>4, <3>1 DEF RowsUnique
    <3>3. OcrSurvives'
      BY <2>1, <2>2, <2>4 DEF OcrSurvives
    <3>4. QED BY <3>2, <3>3
  <2>9. QED BY <2>5, <2>6, <2>7, <2>8, ReadsAreFinds DEF RowsInv, NoDuplicateRows, OcrKept
<1>7. CASE ~Recognise(w) /\ (~OcrCommit(w) \/ DbFails(w, "error"))
  <2>1. UNCHANGED <<markdown, chunks, recognised, keep>>
    BY <1>2, <1>7 DEF OcrStep, OcrStart, Scan, Ocred, WriteStatus, DbFails, Poison
  <2>2. PICK l : Goto(w, l) /\ l # "ocrcommit"
    BY <1>7 DEF OcrStep, OcrStart, Scan, Ocred, DbFails
  <2>3. QED BY <1>1, <1>2, <1>4, <2>1, <2>2, OcrMovesOn
<1>8. QED BY <1>5, <1>6, <1>7

\* chunk_document deletes what it has preserved and inserts it again.
LEMMA ChunkKeepsRows ==
    ASSUME Alone, TypeOK, DownstreamInv, RewriteInv, OrderInv, RowsInv,
           mishaps \subseteq mishaps', "overlap" \notin mishaps',
           NEW w \in Threads, ChunkStep(w)
    PROVE  RowsInv'
<1>1. pc[w] \in ChunkLabel /\ UNCHANGED <<markdown, points>>
  BY TaskMoves
<1>2. w \in CeleryThreads /\ markdown = "clean" /\ Working(w)
  BY <1>1, Posts DEF OrderInv, TagsLast, DownstreamInv, ChunkLabel, Busy, At, Working
<1>3. Finds(w, pc[w]) /\ "overlap" \notin mishaps
  BY <1>2, ReadsAreFinds DEF RowsInv
<1> USE DEF At, dataVars, txVars
<1>4. ASSUME NEW l, Goto(w, l), Finds(w, l)', UNCHANGED <<chunks, contents, recognised>>,
             \A v \in Threads \ {w} : keep'[v] = keep[v]
      PROVE  RowsInv'
  BY <1>1, <1>2, <1>4, FitsOn, ActsAlone
<1>5. CASE ChunkStart(w) \/ Chunked(w)
  <2>1. pc[w] \notin PendingLabel
    BY <1>5 DEF ChunkStart, Chunked, PendingLabel, RewriteLabel
  <2>2. UNCHANGED <<chunks, contents, recognised, keep>>
    BY <1>5, <2>1, NothingPending DEF ChunkStart, Chunked, WriteStatus
  <2>3. PICK l \in {"preserve", "publish"} : Goto(w, l)
    BY <1>5 DEF ChunkStart, Chunked
  <2>4. QED BY <1>4, <2>2, <2>3 DEF Finds, RewriteLabel
<1>6. CASE DbFails(w, "fail")
  <2>1. /\ Goto(w, "fail") /\ UNCHANGED <<chunks, contents, recognised, keep>>
        /\ del'[w] = {} /\ cdel'[w] = {}
    BY <1>6 DEF DbFails, Poison, EndTx, TypeOK
  <2>2. QED BY <1>4, <2>1 DEF Finds, RewriteLabel
<1>7. CASE Preserve(w)
  <2>1. /\ Goto(w, "preserving") /\ UNCHANGED <<chunks, contents, recognised, keep>>
        /\ cseen'[w] = contents
    BY <1>7 DEF Preserve, TypeOK
  <2>2. QED BY <1>4, <2>1 DEF Finds, RewriteLabel
<1>8. CASE Preserved(w) /\ ~DbFails(w, "fail")
  <2>1. /\ Goto(w, "delete") /\ UNCHANGED <<mishaps, chunks, contents, recognised>>
        /\ \A v \in Threads \ {w} : keep'[v] = keep[v]
        /\ keep'[w] = [o \in Images |-> Copies(o)]
        /\ cdel'[w] = cseen[w] \cap contents /\ pc[w] = "preserving"
    BY <1>8 DEF Preserved, LockContents, TypeOK
  <2>2. cdel'[w] = contents
    BY <1>3, <2>1 DEF Finds
  <2>3. \A o \in Images : Copies(o) <= 1
    BY <1>3, CopiesOfRows DEF RowsInv, NoDuplicateRows
  <2>4. "exhausted" \notin mishaps => \A o \in recognised : Copies(o) > 0 /\ o \in Images
    BY <1>3, CopiesOfRows DEF RowsInv, OcrKept, OcrSurvives, TypeOK
  <2>5. Finds(w, "delete")'
    BY <2>1, <2>2, <2>3, <2>4 DEF Finds, RewriteLabel
  <2>6. QED BY <1>4, <2>1, <2>5
<1>9. CASE DeleteBegin(w)
  <2>1. /\ Goto(w, "deleting") /\ pc[w] = "delete"
        /\ UNCHANGED <<mishaps, chunks, contents, recognised, keep, cdel>> /\ seen'[w] = chunks
    BY <1>9 DEF DeleteBegin, TypeOK
  <2>2. Finds(w, "deleting")'
    BY <1>3, <2>1 DEF Finds, RewriteLabel
  <2>3. QED BY <1>4, <2>1, <2>2
<1>10. CASE DeleteEnd(w)
  <2>1. /\ Goto(w, "save") /\ pc[w] = "deleting"
        /\ UNCHANGED <<mishaps, chunks, contents, recognised, keep, cdel>>
        /\ del'[w] = seen[w] \cap chunks
    BY <1>10 DEF DeleteEnd, TypeOK
  <2>2. Finds(w, "save")'
    BY <1>3, <2>1 DEF Finds, RewriteLabel
  <2>3. QED BY <1>4, <2>1, <2>2
<1>11. CASE SaveJson(w)
  <2>1. /\ pc[w] = "save" /\ UNCHANGED <<mishaps, chunks, contents, recognised, keep, del, cdel>>
    BY <1>11 DEF SaveJson, ResourceFails
  <2>2. PICK l \in {"insert", "fail"} : Goto(w, l)
    BY <1>11 DEF SaveJson, ResourceFails
  <2>3. Finds(w, l)'
    BY <1>3, <2>1 DEF Finds, RewriteLabel
  <2>4. QED BY <1>4, <2>1, <2>2, <2>3
<1>12. CASE InsertChunks(w) /\ ~DbFails(w, "fail")
  <2> DEFINE rows == NewRows(gen', Text, keep[w])
  <2>1. /\ pc[w] = "insert" /\ Goto(w, "chunked") /\ UNCHANGED <<mishaps, recognised, keep>>
        /\ gen' = gen + 1
        /\ chunks' = (chunks \ del[w]) \cup rows /\ contents' = contents \ cdel[w]
    BY <1>12 DEF InsertChunks
  <2>2. /\ cdel[w] = contents /\ del[w] = chunks
        /\ \A o \in Images : keep[w][o] <= 1
        /\ "exhausted" \notin mishaps => \A o \in recognised : keep[w][o] > 0
    BY <1>3, <2>1 DEF Finds, RewriteLabel
  <2>3. /\ \A o \in Images : keep[w][o] > 0 => \E r \in rows : r.src = o
        /\ \A r, s \in rows : r.src = s.src => r = s
    <3>1. gen' \in Nat /\ Text \in SUBSET Text /\ keep[w] \in [Images -> Nat]
      BY <2>1 DEF TypeOK
    <3>2. QED BY <2>2, <3>1, NewRowsSources
  <2> HIDE DEF rows
  <2>4. chunks' = rows /\ contents' = {}
    BY <2>1, <2>2
  <2>5. OcrKept'
    BY <2>1, <2>2, <2>3, <2>4 DEF OcrKept, OcrSurvives, TypeOK
  <2>6. OcrRowsCommitWithTags' /\ NoDanglingContents' /\ NoDuplicateRows'
    BY <1>1, <1>2, <2>3, <2>4
       DEF OcrRowsCommitWithTags, NoDanglingContents, NoDuplicateRows, RowsUnique
  <2>7. Finds(w, "chunked")'
    BY DEF Finds, RewriteLabel
  <2>8. QED BY <1>2, <2>1, <2>5, <2>6, <2>7, ActsAlone DEF RowsFit
<1>13. QED BY <1>5, <1>6, <1>7, <1>8, <1>9, <1>10, <1>11, <1>12 DEF ChunkStep

\* embed_document replaces the points and the contents by the rows it has read.
LEMMA EmbedKeepsRows ==
    ASSUME Alone, TypeOK, DownstreamInv, RewriteInv, OrderInv, RowsInv,
           mishaps \subseteq mishaps', "overlap" \notin mishaps',
           NEW w \in Threads, EmbedStep(w)
    PROVE  RowsInv'
<1>1. pc[w] \in EmbedLabel /\ UNCHANGED <<markdown, keep>>
  BY TaskMoves
<1>2. w \in CeleryThreads /\ Working(w)
  BY <1>1, Posts DEF OrderInv, DownstreamInv, EmbedLabel, Working
<1>3. Finds(w, pc[w]) /\ "overlap" \notin mishaps
  BY <1>2, ReadsAreFinds DEF RowsInv
<1> USE DEF At, dataVars, txVars
<1>4. \A code : pc[w] # "store" /\ WriteStatus(w, code) => UNCHANGED <<chunks, contents>>
  BY <1>1, NothingPending DEF EmbedLabel, PendingLabel, RewriteLabel
<1>5. UNCHANGED <<chunks, recognised>>
  BY <1>4 DEF EmbedStep, ReadChunks, EmbedStart, Vectors, ClearPoints, Upload, ServeBegin,
              ServeEnd, StoreContents, Indexed, Complete, WriteStatus, DbFails, ResourceFails
<1>6. ASSUME NEW l, Goto(w, l), Finds(w, l)', UNCHANGED contents
      PROVE  RowsInv'
  BY <1>1, <1>2, <1>5, <1>6, FitsOn, ActsAlone
<1>7. CASE DbFails(w, "fail")
  <2>1. Goto(w, "fail") /\ UNCHANGED contents /\ del'[w] = {} /\ cdel'[w] = {}
    BY <1>7 DEF DbFails, Poison, EndTx, TypeOK
  <2>2. QED BY <1>6, <2>1 DEF Finds, RewriteLabel
<1>8. ASSUME NEW k, ResourceFails(w, k), pc[w] # "store" PROVE RowsInv'
  <2>1. Goto(w, "fail") /\ UNCHANGED <<contents, del, cdel>> /\ del[w] = {} /\ cdel[w] = {}
    BY <1>1, <1>8, NothingPending DEF ResourceFails, EmbedLabel, PendingLabel, RewriteLabel
  <2>2. QED BY <1>6, <2>1 DEF Finds, RewriteLabel
<1>9. CASE ReadChunks(w) /\ ~DbFails(w, "fail")
  <2>1. PICK l \in {"ack", "embedding"} : Goto(w, l)
    BY <1>9 DEF ReadChunks
  <2>2. UNCHANGED contents /\ seen'[w] = chunks
    BY <1>9 DEF ReadChunks, TypeOK
  <2>3. QED BY <1>5, <1>6, <2>1, <2>2 DEF Finds, RewriteLabel
<1>10. CASE EmbedStart(w) \/ (Vectors(w) /\ ~ResourceFails(w, "model")) \/ Indexed(w) \/ Complete(w)
  <2>1. UNCHANGED <<contents, points, seen>>
    BY <1>4, <1>10 DEF EmbedStart, Vectors, Indexed, Complete, WriteStatus
  <2>2. PICK l : /\ Goto(w, l)
                 /\ \/ pc[w] = "embedding" /\ l = "vectors"
                    \/ pc[w] = "vectors" /\ l = "clear"
                    \/ pc[w] = "indexed" /\ l = "complete"
                    \/ l = "ack"
    BY <1>10 DEF EmbedStart, Vectors, Indexed, Complete
  <2>3. /\ pc[w] \in {"embedding", "vectors"} => seen[w] = chunks
        /\ pc[w] = "indexed" => points = chunks /\ Serves(chunks, contents)
    BY <1>3 DEF Finds
  <2>4. Finds(w, l)'
    BY <1>5, <2>1, <2>2, <2>3 DEF Finds, RewriteLabel
  <2>5. QED BY <1>6, <2>1, <2>2, <2>4
<1>11. CASE ClearPoints(w) /\ ~ResourceFails(w, "qdrant")
  <2>1. Goto(w, "upload") /\ points' = {} /\ UNCHANGED <<contents, seen>> /\ pc[w] = "clear"
    BY <1>11 DEF ClearPoints
  <2>2. Finds(w, "upload")'
    BY <1>3, <1>5, <2>1 DEF Finds, RewriteLabel
  <2>3. QED BY <1>6, <2>1, <2>2
<1>12. CASE Upload(w)
  <2>1. UNCHANGED <<contents, seen, del, cdel>> /\ pc[w] = "upload"
    BY <1>12 DEF Upload
  <2>2. seen[w] = chunks /\ points = {} /\ del[w] = {} /\ cdel[w] = {}
    BY <1>3, <2>1, NothingPending DEF Finds, PendingLabel, RewriteLabel
  <2>3. PICK l \in {"serve", "fail"} : Goto(w, l) /\ (l = "serve" => points' = points \cup seen[w])
    BY <1>12 DEF Upload
  <2>4. Finds(w, l)'
    BY <1>5, <2>1, <2>2, <2>3 DEF Finds, RewriteLabel
  <2>5. QED BY <1>6, <2>1, <2>3, <2>4
<1>13. CASE ServeBegin(w)
  <2>1. /\ Goto(w, "serving") /\ pc[w] = "serve" /\ UNCHANGED <<contents, points, seen>>
        /\ cseen'[w] = contents
    BY <1>13 DEF ServeBegin, TypeOK
  <2>2. Finds(w, "serving")'
    BY <1>3, <1>5, <2>1 DEF Finds, RewriteLabel
  <2>3. QED BY <1>6, <2>1, <2>2
<1>14. CASE ServeEnd(w) /\ ~DbFails(w, "fail")
  <2>1. /\ Goto(w, "store") /\ pc[w] = "serving" /\ UNCHANGED <<contents, points, seen>>
        /\ cdel'[w] = cseen[w] \cap contents
    BY <1>14 DEF ServeEnd, LockContents, TypeOK
  <2>2. Finds(w, "store")'
    BY <1>3, <1>5, <2>1 DEF Finds, RewriteLabel
  <2>3. QED BY <1>6, <2>1, <2>2
<1>15. CASE StoreContents(w) /\ ~DbFails(w, "fail")
  <2>1. /\ Goto(w, "indexed") /\ pc[w] = "store" /\ UNCHANGED points
        /\ contents' = (contents \ cdel[w]) \cup {[gen |-> gen', chunk |-> r] : r \in seen[w]}
    BY <1>15 DEF StoreContents
  <2>2. cdel[w] = contents /\ seen[w] = chunks /\ points = chunks
    BY <1>3, <2>1 DEF Finds
  <2>3. contents' = {[gen |-> gen', chunk |-> r] : r \in chunks}
    BY <2>1, <2>2
  <2>4. Serves(chunks, contents')
    BY <2>3, StoredServe
  <2>5. RowsFit'
    BY <1>1, <1>5, <2>4
       DEF RowsInv, RowsFit, OcrRowsCommitWithTags, NoDuplicateRows, RowsUnique,
           NoDanglingContents, OcrKept, OcrSurvives, Serves
  <2>6. Finds(w, "indexed")'
    BY <1>5, <2>1, <2>2, <2>4 DEF Finds, RewriteLabel
  <2>7. QED BY <1>1, <1>2, <2>1, <2>5, <2>6, ActsAlone
<1>16. QED BY <1>7, <1>8, <1>9, <1>10, <1>11, <1>12, <1>13, <1>14, <1>15
           DEF EmbedStep, Vectors, ClearPoints

\* How a task ends changes no row, except where the status of a task given up in its
\* transaction commits what was pending: all of the document's rows.
LEMMA EndKeepsRows ==
    ASSUME Alone, TypeOK, RewriteInv, OrderInv, RowsInv,
           mishaps \subseteq mishaps', "overlap" \notin mishaps', NEW w \in Threads,
           Retry(w) \/ GiveUp(w) \/ Discard(w) \/ ReportError(w) \/ PublishNext(w)
    PROVE  RowsInv'
<1> USE DEF At, dataVars, txVars
<1>1. /\ UNCHANGED <<markdown, points, recognised, keep, seen, cseen>>
      /\ pc[w] \in {"fail", "discard", "error", "publish"} /\ Working(w)
      /\ \A v \in Threads \ {w} : del'[v] = del[v] /\ cdel'[v] = cdel[v]
  <2>1. UNCHANGED <<del, cdel>> \/ EndTx(w)
    BY DEF Retry, GiveUp, Discard, ReportError, PublishNext, Rollback, WriteStatus, CommitPending
  <2>2. \A v \in Threads \ {w} : del'[v] = del[v] /\ cdel'[v] = cdel[v]
    BY <2>1 DEF EndTx, TypeOK
  <2>3. QED BY <2>2 DEF Retry, GiveUp, Discard, ReportError, PublishNext, Rollback, WriteStatus,
                        Working
<1>2. PICK l \in {"ack", "discard", "error"} : Goto(w, l)
  BY DEF Retry, GiveUp, Discard, ReportError, PublishNext
<1>3. CASE w \in OcrThreads
  <2>1. del[w] = {} /\ cdel[w] = {}
    <3>1. job[w].task # "chunk" /\ pc[w] \notin RewriteLabel \cup {"store"}
      BY <1>1, <1>3, IngestAssumption DEF OrderInv, Placed, Busy, Pool, RewriteLabel
    <3>2. pc[w] \notin {"fail", "error"} => pc[w] \notin PendingLabel
      BY <3>1 DEF PendingLabel
    <3>3. QED BY <3>1, <3>2, NothingPending DEF RewriteInv, PendingInRewrite
  <2>2. UNCHANGED <<chunks, contents>>
    BY <2>1 DEF Retry, GiveUp, Discard, ReportError, PublishNext, WriteStatus, CommitPending
  <2>3. QED BY <1>1, <1>2, <1>3, <2>2, OcrMovesOn
<1>4. CASE w \in CeleryThreads
  <2>1. Finds(w, pc[w]) /\ "overlap" \notin mishaps
    BY <1>4, ReadsAreFinds DEF RowsInv
  <2>2. CASE UNCHANGED <<chunks, contents>>
    <3>1. Finds(w, l)'
      <4>1. CASE l = "ack" \/ l = "discard"
        BY <4>1 DEF Finds, RewriteLabel
      <4>2. CASE l = "error" /\ GiveUp(w)
        BY <2>1, <2>2, <4>2 DEF GiveUp, Finds, RewriteLabel
      <4>3. CASE l = "error" /\ ~GiveUp(w)
        <5>1. Discard(w)
          BY <1>1, <1>2, <4>3 DEF Retry, ReportError, PublishNext, Goto, TypeOK
        <5>2. del[w] = {} /\ cdel[w] = {} /\ UNCHANGED <<del, cdel>>
          BY <5>1, NothingPending DEF Discard, Rollback, PendingLabel, RewriteLabel
        <5>3. QED BY <4>3, <5>2 DEF Finds, RewriteLabel
      <4>4. QED BY <4>1, <4>2, <4>3
    <3>2. QED BY <1>1, <1>2, <1>4, <2>2, <3>1, FitsOn, ActsAlone
  <2>3. CASE ~UNCHANGED <<chunks, contents>>
    <3>1. ReportError(w) /\ chunks' = chunks \ del[w] /\ contents' = contents \ cdel[w]
      BY <2>3 DEF Retry, GiveUp, Discard, PublishNext, ReportError, WriteStatus, CommitPending
    <3>2. /\ Goto(w, "ack") /\ pc[w] = "error" /\ UNCHANGED mishaps
          /\ del[w] \cup cdel[w] # {}
      BY <2>3, <3>1 DEF ReportError, WriteStatus
    <3>3. chunks' = {} /\ contents' = {} /\ "exhausted" \in mishaps'
      BY <2>1, <3>1, <3>2 DEF Finds, RewriteInv, PendingInRewrite
    <3>4. RowsFit'
      BY <3>3 DEF RowsFit, OcrRowsCommitWithTags, NoDuplicateRows, RowsUnique,
                  NoDanglingContents, OcrKept
    <3>5. Finds(w, "ack")'
      BY DEF Finds, RewriteLabel
    <3>6. QED BY <1>1, <1>4, <3>2, <3>4, <3>5, ActsAlone
  <2>4. QED BY <2>2, <2>3
<1>5. QED BY <1>3, <1>4 DEF Threads

\* As long as no tasks overlap every step keeps what is said of the rows.
LEMMA StepKeepsRows ==
    ASSUME Alone, TypeOK, DownstreamInv, RewriteInv, OrderInv, RowsInv, [Next]_vars,
           mishaps \subseteq mishaps', "overlap" \notin mishaps'
    PROVE  RowsInv'
<1> USE DEF dataVars, txVars
<1>1. ASSUME UNCHANGED <<markdown, chunks, contents, points, recognised>>,
             \A w \in Threads :
                \/ pc'[w] \in {"idle", "extract", "ocr", "chunk", "embed"}
                \/ UNCHANGED <<pc[w], keep[w], seen[w], cseen[w], del[w], cdel[w]>>
      PROVE  RowsInv'
  <2>1. CeleryThreads \subseteq Threads /\ OcrThreads \subseteq Threads
    BY DEF Threads
  <2>2. \A w \in CeleryThreads : Finds(w, pc[w])'
    <3>1. \A w \in CeleryThreads : Finds(w, pc[w])
      BY ReadsAreFinds DEF RowsInv
    <3>2. QED BY <1>1, <2>1, <3>1 DEF Finds, RewriteLabel
  <2>3. ReadOnce'
    BY <1>1, <2>1 DEF RowsInv, ReadOnce
  <2>4. QED BY <1>1, <2>2, <2>3, ReadsAreFinds, FitsOn DEF RowsInv, RowsFit
<1>2. CASE Register \/ Publish \/ PublishFails \/ UNCHANGED vars
  BY <1>1, <1>2 DEF Register, Publish, PublishFails, vars
<1>3. ASSUME NEW W \in SUBSET Threads, Forget(W),
             UNCHANGED <<markdown, chunks, contents, points, recognised>>
      PROVE  RowsInv'
  BY <1>1, <1>3 DEF Forget
<1>4. CASE Disturb
  <2>1. ASSUME NEW W \in SUBSET Threads, Crash(W) PROVE RowsInv'
    BY <1>3, <2>1 DEF Crash
  <2>2. ASSUME NEW W \in SUBSET Threads, Redeliver(W) PROVE RowsInv'
    BY <1>1, <2>2 DEF Redeliver
  <2>3. QED BY <1>4, <2>1, <2>2 DEF Disturb, Threads
<1>5. ASSUME NEW w \in Threads, NEW m \in Message, Deliver(w, m) PROVE RowsInv'
  <2>1. m.task \in {"extract", "ocr", "chunk", "embed"}
    BY DEF Message, Task
  <2>2. pc'[w] = m.task /\ \A v \in Threads \ {w} : pc'[v] = pc[v]
    BY <1>5 DEF Deliver, Goto, TypeOK
  <2>3. QED BY <1>1, <1>5, <2>1, <2>2 DEF Deliver
<1>6. ASSUME NEW w \in Threads, Ack(w) PROVE RowsInv'
  <2>1. {w} \in SUBSET Threads /\ Forget({w})
    BY <1>6 DEF Ack
  <2>2. QED BY <1>3, <1>6, <2>1 DEF Ack
<1>7. ASSUME NEW w \in Threads, Step(w) PROVE RowsInv'
  BY <1>6, <1>7, ExtractKeepsRows, OcrKeepsRows, ChunkKeepsRows, EmbedKeepsRows, EndKeepsRows
     DEF Step, EndStep
<1>8. QED BY <1>2, <1>4, <1>5, <1>7 DEF Next, Work

\* The inductive invariant behind the properties of the rows: until two tasks of one
\* worker overlap, what a task has read, preserved and deleted is what is in the
\* tables, whatever is delivered twice, fails or dies.
THEOREM SerialInvariant == Spec => []SerialInv
<1>1. Init => SerialInv
  <2>1. ASSUME Init PROVE Alone /\ OrderInv
    BY <2>1 DEF Init, Alone, Working, OrderInv, Placed, ConvertsFirst, TagsLast, Busy, At,
                Threads, Message, ExtractLabel, EmbedLabel
  <2>2. ASSUME Init PROVE RowsInv
    BY <2>2 DEF Init, RowsInv, RewriteReads, ReadOnce, EmbeddingReads, Threads, RewriteLabel,
                OcrRowsCommitWithTags, NoDuplicateRows, RowsUnique, NoDanglingContents, OcrKept,
                OcrSurvives
  <2>3. QED BY <2>1, <2>2 DEF SerialInv
<1>2. ASSUME TypeOK, DownstreamInv, RewriteInv, Placed', SerialInv, [Next]_vars
      PROVE  SerialInv'
  <2>1. SUFFICES ASSUME "overlap" \notin mishaps' PROVE SerialInv'
    BY DEF SerialInv
  <2>2. mishaps \subseteq mishaps'
    BY <1>2, MishapsGrow
  <2>3. Alone /\ OrderInv /\ RowsInv
    BY <1>2, <2>1, <2>2 DEF SerialInv
  <2>4. Alone'
    BY <1>2, <2>1, <2>3, StepAlone
  <2>5. OrderInv'
    BY <1>2, <2>3, StepKeepsPlan
  <2>6. RowsInv'
    BY <1>2, <2>1, <2>2, <2>3, StepKeepsRows
  <2>7. QED BY <2>4, <2>5, <2>6 DEF SerialInv
<1>3. QED BY <1>1, <1>2, Typing, DownstreamInvariant, RewriteInvariant, Placement, PTL DEF Spec

\* The OCR rows and the markdown without tags appear in one commit.
THEOREM OcrRowsWithTags == Spec => []OcrRowsCommitWithTags
<1>1. SerialInv => OcrRowsCommitWithTags
  BY DEF SerialInv, RowsInv, OcrRowsCommitWithTags
<1>2. QED BY <1>1, SerialInvariant, PTL

\* No task that fails, is tried again or delivered again, however far it had come,
\* writes a source of the document into the chunk table a second time, unless it
\* runs beside another one.
THEOREM NoDuplicates == Spec => []NoDuplicateRows
<1>1. SerialInv => NoDuplicateRows
  BY DEF SerialInv, RowsInv, NoDuplicateRows
<1>2. QED BY <1>1, SerialInvariant, PTL

\* Every contents row belongs to a chunk row that exists.
THEOREM NothingDangles == Spec => []NoDanglingContents
<1>1. SerialInv => NoDanglingContents
  BY DEF SerialInv, RowsInv, NoDanglingContents
<1>2. QED BY <1>1, SerialInvariant, PTL

\* The text paddle has read is carried through every rewrite of the chunks.
THEOREM OcrIsKept == Spec => []OcrKept
<1>1. SerialInv => OcrKept
  BY DEF SerialInv, RowsInv, OcrKept
<1>2. QED BY <1>1, SerialInvariant, PTL

-----------------------------------------------------------------------------
\* A complete document is searchable, as long as the statuses are written.

\* What CompleteInv says once its condition is met.
CompleteFit ==
    /\ status = "11" => Ready /\ markdown = "clean" /\ points = chunks /\ Serves(chunks, contents)
    /\ \A w \in CeleryThreads : Changing(w) => status # "11"

\* A status that is written is the status, and commits nothing but itself.
LEMMA StatusIsWritten ==
    ASSUME TypeOK, RewriteInv, "unwritten" \notin mishaps', NEW w \in Threads,
           NEW code, WriteStatus(w, code)
    PROVE  /\ status' = code /\ UNCHANGED <<file, markdown, points>>
           /\ pc[w] \notin PendingLabel => UNCHANGED <<chunks, contents>>
<1>1. status' = code /\ UNCHANGED <<file, markdown, points>>
  BY DEF WriteStatus
<1>2. QED BY <1>1, NothingPending

\* A thread moves on: a document stays complete only if nothing of it changes, and
\* where a task changes it, the status has said so.
LEMMA CompleteMoves ==
    ASSUME TypeOK, CompleteFit, NEW w \in Threads, NEW l, Goto(w, l),
           \A v \in Threads \ {w} : del'[v] = del[v] /\ cdel'[v] = cdel[v],
           status' = "11" =>
              status = "11" /\ UNCHANGED <<file, markdown, points, chunks, contents>>,
           w \in CeleryThreads /\ l \in ChangingLabel => status' # "11",
           w \in CeleryThreads /\ l \in {"fail", "error"} /\ del'[w] \cup cdel'[w] # {}
              => status' # "11"
    PROVE  CompleteFit'
<1>1. /\ pc'[w] = l
      /\ \A v \in Threads \ {w} : pc'[v] = pc[v]
      /\ CeleryThreads \subseteq Threads
  BY DEF TypeOK, Goto, Threads
<1>2. \A v \in CeleryThreads : Changing(v)' => status' # "11"
  BY <1>1 DEF CompleteFit, Changing
<1>3. status' = "11" =>
         (Ready /\ markdown = "clean" /\ points = chunks /\ Serves(chunks, contents))'
  BY DEF CompleteFit, Ready
<1>4. QED BY <1>2, <1>3 DEF CompleteFit

\* Only chunk_document, and its end, leave other threads' deletions to look at.
LEMMA OthersDeletions ==
    ASSUME TypeOK, NEW w \in Threads, Step(w), ~Ack(w)
    PROVE  \A v \in Threads \ {w} : del'[v] = del[v] /\ cdel'[v] = cdel[v]
<1> USE DEF WriteStatus, CommitPending, DbFails, ResourceFails, Poison, LockContents, Rollback,
            EndTx, TypeOK, txVars
<1>1. CASE ExtractStep(w)
  BY <1>1 DEF ExtractStep, ExtractOpen, Triage, Recorded, Convert, Upsert, Move, Extracted
<1>2. CASE OcrStep(w)
  BY <1>2 DEF OcrStep, OcrStart, Scan, Recognise, OcrCommit, Ocred
<1>3. CASE ChunkStep(w)
  BY <1>3 DEF ChunkStep, ChunkStart, Preserve, Preserved, DeleteBegin, DeleteEnd, SaveJson,
              InsertChunks, Chunked
<1>4. CASE EmbedStep(w)
  BY <1>4 DEF EmbedStep, ReadChunks, EmbedStart, Vectors, ClearPoints, Upload, ServeBegin,
              ServeEnd, StoreContents, Indexed, Complete
<1>5. CASE EndStep(w)
  BY <1>5 DEF EndStep, Retry, GiveUp, Discard, ReportError, PublishNext
<1>6. QED BY <1>1, <1>2, <1>3, <1>4, <1>5 DEF Step

\* extract_pdf: the PDF is no longer in input/ when a document is complete.
LEMMA ExtractKeepsComplete ==
    ASSUME TypeOK, DownstreamInv, RewriteInv, OrderInv, CompleteFit, "unwritten" \notin mishaps',
           NEW w \in Threads, ExtractStep(w)
    PROVE  CompleteFit'
<1> USE DEF At, dataVars, txVars
<1>1. pc[w] \in ExtractLabel
  BY TaskMoves
<1>2. PICK l \in ExtractLabel \cup {"ack", "fail", "publish"} : Goto(w, l)
  BY TaskMoves
<1>3. /\ w \in CeleryThreads /\ pc[w] \notin PendingLabel /\ del[w] = {} /\ cdel[w] = {}
  BY <1>1, Posts, NothingPending
     DEF OrderInv, DownstreamInv, ExtractLabel, PendingLabel, RewriteLabel
<1>4. \A v \in Threads \ {w} : del'[v] = del[v] /\ cdel'[v] = cdel[v]
  <2>1. Step(w) /\ ~Ack(w)
    BY <1>1 DEF Step, Ack, ExtractLabel
  <2>2. QED BY <2>1, OthersDeletions
<1>5. del'[w] = {} /\ cdel'[w] = {}
  BY <1>3 DEF ExtractStep, ExtractOpen, Triage, Recorded, Convert, Upsert, Move, Extracted,
              WriteStatus, CommitPending, DbFails, ResourceFails, Poison, EndTx, TypeOK
<1>6. ASSUME status' = "11" =>
                status = "11" /\ UNCHANGED <<file, markdown, points, chunks, contents>>
      PROVE  CompleteFit'
  <2>1. l \notin ChangingLabel
    BY DEF ChangingLabel, ExtractLabel, RewriteLabel
  <2>2. QED BY <1>2, <1>4, <1>5, <1>6, <2>1, CompleteMoves
<1>7. CASE ExtractOpen(w) \/ Extracted(w)
  BY <1>3, <1>6, <1>7, StatusIsWritten DEF ExtractOpen, Extracted
<1>8. CASE Triage(w) \/ Recorded(w) \/ Convert(w)
  BY <1>6, <1>8 DEF Triage, Recorded, Convert, ResourceFails
<1>9. CASE Upsert(w) \/ Move(w)
  <2>1. status # "11"
    BY <1>3, <1>9 DEF Upsert, Move, OrderInv, ConvertsFirst, CompleteFit, Ready
  <2>2. UNCHANGED status
    BY <1>9 DEF Upsert, Move, DbFails, ResourceFails
  <2>3. QED BY <1>6, <2>1, <2>2
<1>10. QED BY <1>7, <1>8, <1>9 DEF ExtractStep

\* ocr_images: a complete document has no tags left.
LEMMA OcrKeepsComplete ==
    ASSUME TypeOK, DownstreamInv, RewriteInv, OrderInv, CompleteFit, "unwritten" \notin mishaps',
           NEW w \in Threads, OcrStep(w)
    PROVE  CompleteFit'
<1> USE DEF At, dataVars, txVars
<1>1. pc[w] \in OcrLabel
  BY TaskMoves
<1>2. PICK l : Goto(w, l)
  BY TaskMoves
<1>3. w \in OcrThreads /\ w \notin CeleryThreads /\ pc[w] \notin PendingLabel
  BY <1>1, Posts DEF OrderInv, DownstreamInv, OcrLabel, PendingLabel, RewriteLabel
<1>4. \A v \in Threads \ {w} : del'[v] = del[v] /\ cdel'[v] = cdel[v]
  <2>1. Step(w) /\ ~Ack(w)
    BY <1>1 DEF Step, Ack, OcrLabel
  <2>2. QED BY <2>1, OthersDeletions
<1>5. ASSUME status' = "11" =>
                status = "11" /\ UNCHANGED <<file, markdown, points, chunks, contents>>
      PROVE  CompleteFit'
  BY <1>2, <1>3, <1>4, <1>5, CompleteMoves
<1>6. CASE OcrStart(w) \/ Ocred(w)
  BY <1>3, <1>5, <1>6, StatusIsWritten DEF OcrStart, Ocred
<1>7. CASE Scan(w) \/ Recognise(w)
  BY <1>5, <1>7 DEF Scan, Recognise, DbFails
<1>8. CASE OcrCommit(w)
  <2>1. status # "11"
    BY <1>3, <1>8 DEF OcrCommit, OrderInv, TagsLast, CompleteFit
  <2>2. UNCHANGED status
    BY <1>8 DEF OcrCommit, DbFails
  <2>3. QED BY <1>5, <2>1, <2>2
<1>9. QED BY <1>6, <1>7, <1>8 DEF OcrStep

\* chunk_document: the status says 32 before a row is touched.
LEMMA ChunkKeepsComplete ==
    ASSUME TypeOK, DownstreamInv, RewriteInv, OrderInv, CompleteFit, "unwritten" \notin mishaps',
           NEW w \in Threads, ChunkStep(w)
    PROVE  CompleteFit'
<1> USE DEF At, dataVars, txVars
<1>1. pc[w] \in ChunkLabel
  BY TaskMoves
<1>2. PICK l : Goto(w, l)
  BY TaskMoves
<1>3. w \in CeleryThreads
  BY <1>1, Posts DEF OrderInv, DownstreamInv
<1>4. \A v \in Threads \ {w} : del'[v] = del[v] /\ cdel'[v] = cdel[v]
  <2>1. Step(w) /\ ~Ack(w)
    BY <1>1 DEF Step, Ack, ChunkLabel
  <2>2. QED BY <2>1, OthersDeletions
<1>5. status' # "11"
  <2>1. CASE ChunkStart(w) \/ Chunked(w)
    BY <2>1, StatusIsWritten DEF ChunkStart, Chunked
  <2>2. CASE ~ChunkStart(w) /\ ~Chunked(w)
    <3>1. pc[w] \in ChangingLabel
      BY <2>2 DEF ChunkStep, Preserve, Preserved, DeleteBegin, DeleteEnd, SaveJson, InsertChunks,
                  ChangingLabel, RewriteLabel
    <3>2. UNCHANGED status
      BY <2>2 DEF ChunkStep, Preserve, Preserved, DeleteBegin, DeleteEnd, SaveJson, InsertChunks,
                  DbFails, ResourceFails
    <3>3. QED BY <1>3, <3>1, <3>2 DEF CompleteFit, Changing
  <2>3. QED BY <2>1, <2>2
<1>6. QED BY <1>2, <1>4, <1>5, CompleteMoves

\* embed_document: the status says 42 and 43 before Qdrant or the contents are
\* touched, and 11 when both are what was read.
LEMMA EmbedKeepsComplete ==
    ASSUME Alone, TypeOK, DownstreamInv, RewriteInv, OrderInv, RowsInv, CompleteFit,
           "unwritten" \notin mishaps', NEW w \in Threads, EmbedStep(w)
    PROVE  CompleteFit'
<1> USE DEF At, dataVars, txVars
<1>1. pc[w] \in EmbedLabel
  BY TaskMoves
<1>2. PICK l : Goto(w, l)
  BY TaskMoves
<1>3. /\ w \in CeleryThreads /\ Working(w) /\ pc[w] # "idle" /\ job[w].task = "embed"
      /\ pc[w] # "store" => pc[w] \notin PendingLabel
  BY <1>1, Posts DEF OrderInv, DownstreamInv, EmbedLabel, PendingLabel, RewriteLabel, Working
<1>4. \A v \in Threads \ {w} : del'[v] = del[v] /\ cdel'[v] = cdel[v]
  <2>1. Step(w) /\ ~Ack(w)
    BY <1>1 DEF Step, Ack, EmbedLabel
  <2>2. QED BY <2>1, OthersDeletions
<1>5. ASSUME status' # "11" PROVE CompleteFit'
  BY <1>2, <1>4, <1>5, CompleteMoves
<1>6. CASE ReadChunks(w)
  <2>1. PICK k \in {"ack", "embedding", "fail"} : Goto(w, k)
    BY <1>6 DEF ReadChunks, DbFails
  <2>2. UNCHANGED <<status, file, markdown, points, chunks, contents>>
    BY <1>6 DEF ReadChunks, DbFails
  <2>3. del'[w] = {} /\ cdel'[w] = {}
    <3>1. del[w] = {} /\ cdel[w] = {}
      BY <1>3, <1>6, NothingPending DEF ReadChunks
    <3>2. QED BY <1>6, <3>1 DEF ReadChunks, DbFails, Poison, EndTx, TypeOK
  <2>4. QED BY <1>4, <2>1, <2>2, <2>3, CompleteMoves DEF ChangingLabel, RewriteLabel
<1>7. CASE EmbedStart(w) \/ Indexed(w)
  <2>1. status' # "11"
    BY <1>7, StatusIsWritten DEF EmbedStart, Indexed
  <2>2. QED BY <1>5, <2>1
<1>8. CASE \/ Vectors(w) \/ ClearPoints(w) \/ Upload(w)
           \/ ServeBegin(w) \/ ServeEnd(w) \/ StoreContents(w)
  <2>1. status # "11"
    <3>1. pc[w] \in ChangingLabel
      BY <1>8 DEF Vectors, ClearPoints, Upload, ServeBegin, ServeEnd, StoreContents, ChangingLabel
    <3>2. QED BY <1>3, <3>1 DEF CompleteFit, Changing
  <2>2. status' = "43" \/ UNCHANGED status
    BY <1>8, StatusIsWritten
       DEF Vectors, ClearPoints, Upload, ServeBegin, ServeEnd, StoreContents, ResourceFails, DbFails
  <2>3. QED BY <1>5, <2>1, <2>2
<1>9. CASE Complete(w)
  <2>1. /\ status' = "11" /\ Goto(w, "ack") /\ pc[w] = "complete"
        /\ UNCHANGED <<file, markdown, points, chunks, contents>>
    BY <1>3, <1>9, StatusIsWritten DEF Complete
  <2>2. points = chunks /\ Serves(chunks, contents)
    BY <1>3, <2>1 DEF RowsInv, EmbeddingReads
  <2>3. Ready /\ markdown = "clean"
    BY <1>3, DownstreamIsReady DEF OrderInv, TagsLast, Busy
  <2>4. \A v \in CeleryThreads : pc'[v] \in {"idle", "ack"}
    BY <1>3, <2>1, OthersRest DEF Goto, TypeOK, Threads
  <2>5. \A v \in CeleryThreads : ~Changing(v)'
    BY <2>4 DEF Changing, ChangingLabel, RewriteLabel
  <2>6. QED BY <2>1, <2>2, <2>3, <2>5 DEF CompleteFit, Ready
<1>10. QED BY <1>6, <1>7, <1>8, <1>9 DEF EmbedStep

\* How a task ends: an error status is not 11, and a complete document's PDF is not
\* in input/ to be put aside.
LEMMA EndKeepsComplete ==
    ASSUME TypeOK, RewriteInv, OrderInv, CompleteFit, "unwritten" \notin mishaps',
           NEW w \in Threads,
           Retry(w) \/ GiveUp(w) \/ Discard(w) \/ ReportError(w) \/ PublishNext(w)
    PROVE  CompleteFit'
<1> USE DEF At, dataVars, txVars
<1>1. PICK l \in {"ack", "discard", "error"} : Goto(w, l)
  BY DEF Retry, GiveUp, Discard, ReportError, PublishNext
<1>2. \A v \in Threads \ {w} : del'[v] = del[v] /\ cdel'[v] = cdel[v]
  <2>1. Step(w) /\ ~Ack(w)
    BY DEF Step, EndStep, Ack, Retry, GiveUp, Discard, ReportError, PublishNext
  <2>2. QED BY <2>1, OthersDeletions
<1>3. l \notin ChangingLabel
  BY DEF ChangingLabel, RewriteLabel
<1>4. CASE ReportError(w)
  <2>1. job[w].task \in Task
    BY DEF TypeOK, Message
  <2>2. ErrorStatus(job[w].task) # "11"
    BY <2>1 DEF Task, ErrorStatus
  <2>3. QED BY <1>1, <1>2, <1>3, <1>4, <2>2, StatusIsWritten, CompleteMoves DEF ReportError
<1>5. CASE Retry(w) \/ GiveUp(w) \/ Discard(w) \/ PublishNext(w)
  <2>1. UNCHANGED <<status, markdown, points, chunks, contents>>
    BY <1>5 DEF Retry, GiveUp, Discard, PublishNext
  <2>2. status = "11" => UNCHANGED file
    BY <1>5 DEF Retry, GiveUp, Discard, PublishNext, CompleteFit, Ready
  <2>3. w \in CeleryThreads /\ l \in {"fail", "error"} /\ del'[w] \cup cdel'[w] # {}
           => status' # "11"
    <3>1. CASE GiveUp(w)
      BY <2>1, <3>1 DEF GiveUp, CompleteFit, Changing
    <3>2. CASE Discard(w)
      <4>1. del[w] = {} /\ cdel[w] = {} /\ UNCHANGED <<del, cdel>>
        BY <3>2, NothingPending DEF Discard, Rollback, PendingLabel, RewriteLabel
      <4>2. QED BY <4>1
    <3>3. CASE Retry(w) \/ PublishNext(w)
      BY <1>1, <3>3 DEF Retry, PublishNext, Goto, TypeOK
    <3>4. QED BY <1>5, <3>1, <3>2, <3>3
  <2>4. QED BY <1>1, <1>2, <1>3, <2>1, <2>2, <2>3, CompleteMoves
<1>6. QED BY <1>4, <1>5

\* As long as no tasks overlap and every status is written, every step keeps what is
\* said of complete documents.
LEMMA StepKeepsComplete ==
    ASSUME Alone, TypeOK, DownstreamInv, RewriteInv, OrderInv, RowsInv, CompleteFit,
           "unwritten" \notin mishaps', [Next]_vars
    PROVE  CompleteFit'
<1> USE DEF dataVars, txVars
<1>1. ASSUME UNCHANGED <<file, markdown, points, chunks, contents>>, status' \in {status, "00"},
             \A w \in Threads :
                \/ pc'[w] \in {"idle", "extract", "ocr", "chunk", "embed"}
                \/ UNCHANGED <<pc[w], del[w], cdel[w]>>
      PROVE  CompleteFit'
  <2>1. \A w \in CeleryThreads : Changing(w)' => Changing(w)
    BY <1>1 DEF Changing, ChangingLabel, RewriteLabel, Threads
  <2>2. QED BY <1>1, <2>1 DEF CompleteFit, Ready
<1>2. CASE Register \/ Publish \/ PublishFails \/ UNCHANGED vars
  BY <1>1, <1>2 DEF Register, Publish, PublishFails, vars
<1>3. ASSUME NEW W \in SUBSET Threads, Forget(W),
             UNCHANGED <<status, file, markdown, points, chunks, contents>>
      PROVE  CompleteFit'
  BY <1>1, <1>3 DEF Forget
<1>4. CASE Disturb
  <2>1. ASSUME NEW W \in SUBSET Threads, Crash(W) PROVE CompleteFit'
    BY <1>3, <2>1 DEF Crash
  <2>2. ASSUME NEW W \in SUBSET Threads, Redeliver(W) PROVE CompleteFit'
    BY <1>1, <2>2 DEF Redeliver
  <2>3. QED BY <1>4, <2>1, <2>2 DEF Disturb, Threads
<1>5. ASSUME NEW w \in Threads, NEW m \in Message, Deliver(w, m) PROVE CompleteFit'
  <2>1. m.task \in {"extract", "ocr", "chunk", "embed"}
    BY DEF Message, Task
  <2>2. pc'[w] = m.task /\ \A v \in Threads \ {w} : pc'[v] = pc[v]
    BY <1>5 DEF Deliver, Goto, TypeOK
  <2>3. QED BY <1>1, <1>5, <2>1, <2>2 DEF Deliver
<1>6. ASSUME NEW w \in Threads, Ack(w) PROVE CompleteFit'
  <2>1. {w} \in SUBSET Threads /\ Forget({w})
    BY <1>6 DEF Ack
  <2>2. QED BY <1>3, <1>6, <2>1 DEF Ack
<1>7. ASSUME NEW w \in Threads, Step(w) PROVE CompleteFit'
  BY <1>6, <1>7, ExtractKeepsComplete, OcrKeepsComplete, ChunkKeepsComplete,
     EmbedKeepsComplete, EndKeepsComplete DEF Step, EndStep
<1>8. QED BY <1>2, <1>4, <1>5, <1>7 DEF Next, Work

\* The status is never ahead of the data: while rows or points change, whichever
\* task was delivered twice, the status says that work is going on.
THEOREM CompleteInvariant == Spec => []CompleteInv
<1>1. Init => CompleteInv
  BY DEF Init, CompleteInv, Changing, ChangingLabel, Threads, RewriteLabel
<1>2. ASSUME TypeOK, DownstreamInv, RewriteInv, SerialInv, CompleteInv, [Next]_vars
      PROVE  CompleteInv'
  <2>1. SUFFICES ASSUME mishaps' \cap {"overlap", "unwritten"} = {} PROVE CompleteFit'
    BY DEF CompleteInv, CompleteFit
  <2>2. mishaps \cap {"overlap", "unwritten"} = {}
    BY <1>2, <2>1, MishapsGrow
  <2>3. CompleteFit
    BY <1>2, <2>2 DEF CompleteInv, CompleteFit
  <2>4. QED BY <1>2, <2>1, <2>2, <2>3, StepKeepsComplete DEF SerialInv
<1>3. QED BY <1>1, <1>2, Typing, DownstreamInvariant, RewriteInvariant, SerialInvariant, PTL
          DEF Spec

\* A document reported complete has its chunk rows, and no others, in Qdrant and
\* in the contents table, also while a task it has passed runs again.
THEOREM CompleteIsFound == Spec => []CompleteIsSearchable
<1>1. CompleteInv => CompleteIsSearchable
  BY DEF CompleteInv, CompleteIsSearchable, Searchable
<1>2. QED BY <1>1, CompleteInvariant, PTL

=============================================================================
