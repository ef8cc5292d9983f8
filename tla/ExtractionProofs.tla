-------------------------- MODULE ExtractionProofs --------------------------
(***************************************************************************)
(* The ODL slot, for any number of threads, documents, failures, timeouts  *)
(* and crashes: no two conversions that a client still waits for overlap;  *)
(* where two do run, one was left behind by a timeout or a death.          *)
(***************************************************************************)
EXTENDS Extraction, TLAPS

\* Nothing runs at the start.
LEMMA SlotStart == Init => SlotInv
<1> SUFFICES ASSUME Init PROVE SlotInv
    OBVIOUS
<1>1. (CHOOSE d \in Docs : TRUE) \in Docs
    BY ExtractionAssumption
<1> QED
    BY <1>1, ExtractionAssumption
    DEF Init, SlotInv, TypeOK, NoOutput, Output, Mode, Vm, Awaited, OneAwaited

\* The VMs that lost their clients are VMs, and those that keep one are old.
LEMMA OrphanedType ==
    ASSUME TypeOK, NEW W \in SUBSET Threads
    PROVE  /\ Orphaned(W) \subseteq Vm
           /\ \A j \in Orphaned(W) : j.client # Nobody => j \in vms /\ j.client \notin W
<1> SUFFICES ASSUME NEW i \in vms,
                    NEW j, j = IF i.client \in W THEN [i EXCEPT !.client = Nobody] ELSE i
             PROVE  j \in Vm /\ (j.client # Nobody => j \in vms /\ j.client \notin W)
    BY DEF Orphaned
<1>1. i \in Vm
    BY DEF TypeOK
<1>2. CASE i.client \in W
  <2>1. j \in Vm /\ j.client = Nobody
      BY <1>1, <1>2 DEF Vm
  <2> QED
      BY <2>1
<1>3. CASE i.client \notin W
    BY <1>1, <1>3
<1> QED
    BY <1>2, <1>3

\* A request is made by the thread that has just taken the slot, for which no
\* VM is running.
LEMMA RequestStep ==
    ASSUME SlotInv, NEW t \in Threads, Request(t)
    PROVE  SlotInv'
<1> USE ExtractionAssumption
<1>1. NewVm(t) \in Vm /\ NewVm(t).client = t
    BY DEF SlotInv, TypeOK, NewVm, Vm, Mode
<1>2. TypeOK'
    BY <1>1 DEF SlotInv, TypeOK, Request, Goto, taskVars, fileVars, clientVars
<1>3. \A j \in vms : j.client = Nobody
    BY DEF SlotInv, TypeOK, Awaited, Request, Vm
<1>4. /\ vms' = vms \cup {NewVm(t)} /\ slot' = t /\ answer' = answer
      /\ pc[t] = "slot" /\ pc' = [pc EXCEPT ![t] = "wait"]
      /\ slot = Nobody
    BY DEF Request, Goto
<1>5. (\A u \in Threads : pc[u] = "wait" => slot = u)'
    BY <1>4 DEF SlotInv, TypeOK
<1>6. answer[t] = "none"
    BY <1>4 DEF SlotInv, TypeOK
<1>7. (\A u \in Threads : answer[u] # "none" => pc[u] = "wait")'
    BY <1>4 DEF SlotInv, TypeOK
<1>8. Awaited' /\ OneAwaited'
    BY <1>1, <1>3, <1>4, <1>6 DEF Awaited, OneAwaited, SlotInv, TypeOK
<1> QED
    BY <1>2, <1>5, <1>7, <1>8 DEF SlotInv

\* A conversion that ends takes its VM away and answers its client, which is
\* the thread in the slot.
LEMMA ServeStep ==
    ASSUME SlotInv, NEW j \in vms, Serve(j)
    PROVE  SlotInv'
<1> USE ExtractionAssumption
<1>1. j \in Vm /\ vms' = vms \ {j} /\ UNCHANGED <<pc, slot>>
    BY DEF SlotInv, TypeOK, Serve, Convert, ConvertFails
<1>2. PICK a \in {"ok", "error"} : Answer(j, a)
    BY DEF Serve, Convert, ConvertFails
<1>3. out' \in [Docs -> Output \cup {NoOutput}]
  <2>1. CASE Convert(j)
    <3>1. PICK good \in BOOLEAN : out' = [out EXCEPT ![j.doc] = [by |-> j.by, good |-> good]]
        BY <2>1 DEF Convert
    <3>2. [by |-> j.by, good |-> good] \in Output
        BY <1>1 DEF Output, Vm
    <3> QED
        BY <3>1, <3>2 DEF SlotInv, TypeOK
  <2>2. CASE ConvertFails(j)
      BY <2>2 DEF ConvertFails, fileVars, SlotInv, TypeOK
  <2> QED
      BY <2>1, <2>2 DEF Serve
<1>4. /\ UNCHANGED <<taskVars, told, stored, clientVars, crashes>>
      /\ failures' \in Nat
    BY DEF Serve, Convert, ConvertFails, Fault, fileVars, SlotInv, TypeOK
<1>5. answer' \in [Threads -> {"none", "ok", "error"}]
    BY <1>1, <1>2 DEF Answer, SlotInv, TypeOK, Vm
<1>6. TypeOK'
    BY <1>1, <1>3, <1>4, <1>5 DEF TypeOK, SlotInv, taskVars, clientVars
<1>7. (\A u \in Threads : answer[u] # "none" => pc[u] = "wait")'
    BY <1>1, <1>2 DEF SlotInv, TypeOK, Answer, Awaited, Vm
<1>8. (\A u \in Threads : pc[u] = "wait" => slot = u)'
    BY <1>1 DEF SlotInv
<1>9. OneAwaited'
    BY <1>1 DEF SlotInv, OneAwaited
<1>10. Awaited'
  <2> SUFFICES ASSUME NEW i \in vms', i.client # Nobody
               PROVE  slot' = i.client /\ pc'[i.client] = "wait" /\ answer'[i.client] = "none"
      BY DEF Awaited
  <2>1. i \in vms /\ i # j
      BY <1>1
  <2>2. slot = i.client /\ pc[i.client] = "wait" /\ answer[i.client] = "none"
      BY <2>1 DEF SlotInv, Awaited
  <2>3. j.client = Nobody
      BY <2>1 DEF SlotInv, OneAwaited
  <2> QED
      BY <1>1, <1>2, <2>2, <2>3 DEF Answer
<1> QED
    BY <1>6, <1>7, <1>8, <1>9, <1>10 DEF SlotInv

\* A timeout leaves the slot and the VM behind, the VM without a client.
LEMMA TimeoutStep ==
    ASSUME SlotInv, NEW t \in Threads, Timeout(t)
    PROVE  SlotInv'
<1> USE ExtractionAssumption
<1>1. /\ vms' = Orphaned({t}) /\ slot' = Nobody /\ answer' = answer
      /\ pc[t] = "wait" /\ pc' = [pc EXCEPT ![t] = AfterRequest(t, FALSE)]
      /\ slot = t /\ answer[t] = "none"
    BY DEF Timeout, Goto, SlotInv
<1>2. AfterRequest(t, FALSE) \in {"judge", "raise"}
    BY DEF AfterRequest
<1>3. Orphaned({t}) \subseteq Vm
    BY OrphanedType DEF SlotInv
<1>4. TypeOK'
    BY <1>1, <1>2, <1>3
    DEF SlotInv, TypeOK, Timeout, taskVars, fileVars, clientVars
<1>5. \A j \in vms' : j.client = Nobody
  <2> SUFFICES ASSUME NEW j \in Orphaned({t}), j.client # Nobody
               PROVE  FALSE
      BY <1>1
  <2>1. j \in vms /\ j.client # t
      BY OrphanedType DEF SlotInv
  <2> QED
      BY <1>1, <2>1 DEF SlotInv, Awaited
<1>6. (\A u \in Threads : pc[u] = "wait" => slot = u)'
    BY <1>1, <1>2 DEF SlotInv, TypeOK
<1>7. (\A u \in Threads : answer[u] # "none" => pc[u] = "wait")'
    BY <1>1, <1>2 DEF SlotInv, TypeOK
<1>8. Awaited' /\ OneAwaited'
    BY <1>5 DEF Awaited, OneAwaited
<1> QED
    BY <1>4, <1>6, <1>7, <1>8 DEF SlotInv

\* A crash frees every thread and the slot, and orphans every VM.
LEMMA CrashStep ==
    ASSUME SlotInv, Crash
    PROVE  SlotInv'
<1> USE ExtractionAssumption
<1>1. vms' = Orphaned(Threads) /\ vms' \subseteq Vm
    BY OrphanedType DEF Crash, SlotInv
<1>2. TypeOK'
    BY <1>1 DEF SlotInv, TypeOK, Crash, fileVars, clientVars
<1>3. \A j \in vms' : j.client = Nobody
    BY <1>1, OrphanedType DEF SlotInv, Vm
<1>4. Awaited' /\ OneAwaited'
    BY <1>3 DEF Awaited, OneAwaited
<1> QED
    BY <1>2, <1>4 DEF SlotInv, Crash

\* The answer arrives: the VM is gone already, the slot is left.
LEMMA ReplyStep ==
    ASSUME SlotInv, NEW t \in Threads, Reply(t)
    PROVE  SlotInv'
<1> USE ExtractionAssumption
<1>1. /\ vms' = vms /\ slot' = Nobody /\ answer' = [answer EXCEPT ![t] = "none"]
      /\ pc[t] = "wait" /\ pc' = [pc EXCEPT ![t] = AfterRequest(t, answer[t] = "ok")]
      /\ slot = t /\ answer[t] # "none"
    BY DEF Reply, Goto, SlotInv
<1>2. AfterRequest(t, answer[t] = "ok") \in {"judge", "read", "raise"}
    BY DEF AfterRequest
<1>3. TypeOK'
    BY <1>1, <1>2 DEF SlotInv, TypeOK, Reply, taskVars, fileVars, clientVars
<1>4. \A j \in vms' : j.client = Nobody
    BY <1>1 DEF SlotInv, Awaited
<1>5. (\A u \in Threads : pc[u] = "wait" => slot = u)'
    BY <1>1, <1>2 DEF SlotInv, TypeOK
<1>6. (\A u \in Threads : answer[u] # "none" => pc[u] = "wait")'
    BY <1>1, <1>2 DEF SlotInv, TypeOK
<1>7. Awaited' /\ OneAwaited'
    BY <1>4 DEF Awaited, OneAwaited
<1> QED
    BY <1>3, <1>5, <1>6, <1>7 DEF SlotInv

\* The rest of extract_pdf has nothing to do with the slot.
LEMMA LocalStep ==
    ASSUME SlotInv, NEW t \in Threads,
           Judge(t) \/ Cleanup(t) \/ Read(t) \/ Rest(t) \/ Raise(t) \/ (\E d \in Docs : Take(t, d))
    PROVE  SlotInv'
<1> USE ExtractionAssumption
<1>1. UNCHANGED <<vms, slot, answer, crashes>>
    BY DEF Judge, Cleanup, Read, Rest, Raise, Take
<1>2. PICK q \in {"slot", "cleanup", "read", "rest", "raise", "idle"} :
          pc[t] # "wait" /\ pc' = [pc EXCEPT ![t] = q]
    BY DEF Judge, Cleanup, Read, Rest, Raise, Take, Goto
<1>3. TypeOK'
  <2>1. CASE Judge(t)
      BY <1>1, <1>2, <2>1 DEF Judge, SlotInv, TypeOK, taskVars, fileVars, clientVars
  <2>2. CASE Cleanup(t)
      BY <1>1, <1>2, <2>2 DEF Cleanup, Fault, SlotInv, TypeOK, Mode, taskVars
  <2>3. CASE Read(t)
      BY <1>1, <1>2, <2>3 DEF Read, SlotInv, TypeOK, Mode, taskVars, clientVars
  <2>4. CASE Rest(t)
      BY <1>1, <1>2, <2>4 DEF Rest, Fault, SlotInv, TypeOK, taskVars, fileVars, clientVars
  <2>5. CASE Raise(t)
      BY <1>1, <1>2, <2>5 DEF Raise, SlotInv, TypeOK, taskVars, fileVars, clientVars
  <2>6. ASSUME NEW d \in Docs, Take(t, d) PROVE TypeOK'
      BY <1>1, <1>2, <2>6 DEF Take, SlotInv, TypeOK, Mode, fileVars
  <2> QED
      BY <2>1, <2>2, <2>3, <2>4, <2>5, <2>6
<1>4. \A u \in Threads : (pc'[u] = "wait") = (pc[u] = "wait")
    BY <1>2 DEF SlotInv, TypeOK
<1>5. Awaited'
    BY <1>1, <1>4 DEF SlotInv, TypeOK, Awaited, Vm
<1> QED
    BY <1>1, <1>3, <1>4, <1>5 DEF SlotInv, OneAwaited

\* Every step keeps the slot's invariant.
LEMMA SlotStep == SlotInv /\ [Next]_vars => SlotInv'
<1> SUFFICES ASSUME SlotInv, [Next]_vars
             PROVE  SlotInv'
    OBVIOUS
<1>1. CASE UNCHANGED vars
    BY <1>1 DEF vars, taskVars, fileVars, clientVars, SlotInv, TypeOK, Awaited, OneAwaited
<1> QED
    BY <1>1, RequestStep, ServeStep, TimeoutStep, CrashStep, ReplyStep, LocalStep DEF Next, Step

\* The strengthened invariant of the ODL slot.
THEOREM SlotInvariant == Spec => []SlotInv
  BY SlotStart, SlotStep, PTL DEF Spec

\* extract.py, _ODL_SLOT: conversions that are waited for never overlap.
THEOREM AwaitedAlone == Spec => []OneAwaited
<1>1. SlotInv => OneAwaited
    BY DEF SlotInv
<1> QED
    BY <1>1, SlotInvariant, PTL

\* A VM that is orphaned keeps its document and its delivery.
LEMMA OrphanedOrigin ==
    ASSUME TypeOK, NEW W \in SUBSET Threads, NEW j \in Orphaned(W)
    PROVE  \E i \in vms : /\ j.run = i.run /\ j.doc = i.doc
                          /\ i.client \in W => j.client = Nobody
                          /\ i.client \notin W => j = i
<1>1. PICK i \in vms : j = IF i.client \in W THEN [i EXCEPT !.client = Nobody] ELSE i
    BY DEF Orphaned
<1>2. i \in Vm
    BY DEF TypeOK
<1> QED
    BY <1>1, <1>2 DEF Vm

\* A VM is left by its client only after the timeout of a slow document, or
\* when the worker dies.
LEMMA ClientsStep == SlotInv /\ ClientsInv /\ [Next]_vars => ClientsInv'
<1> SUFFICES ASSUME SlotInv, ClientsInv, [Next]_vars
             PROVE  ClientsInv'
    OBVIOUS
<1> USE ExtractionAssumption
<1>0. TypeOK /\ crashes \in Nat
    BY DEF SlotInv, TypeOK
<1>1. ASSUME NEW t \in Threads, Request(t) PROVE ClientsInv'
  <2>1. vms' = vms \cup {NewVm(t)} /\ doc' = doc /\ crashes' = crashes
      BY <1>1 DEF Request, clientVars
  <2>2. NewVm(t).run[2] = crashes /\ NewVm(t).doc = doc[t] /\ NewVm(t).client = t
      BY DEF NewVm
  <2> QED
      BY <2>1, <2>2, <1>0 DEF ClientsInv, Left
<1>2. ASSUME NEW j \in vms, Serve(j) PROVE ClientsInv'
    BY <1>2 DEF Serve, Convert, ConvertFails, ClientsInv, Left, clientVars
<1>3. ASSUME NEW t \in Threads, Timeout(t) PROVE ClientsInv'
  <2>1. vms' = Orphaned({t}) /\ doc' = doc /\ crashes' = crashes /\ doc[t] \in Slow
      BY <1>3 DEF Timeout, clientVars
  <2> SUFFICES ASSUME NEW j \in Orphaned({t})
               PROVE  /\ j.run[2] \in Nat /\ j.run[2] <= crashes
                      /\ j.client # Nobody => j.doc = doc[j.client]
                      /\ j.client = Nobody => Left(j)
      BY <2>1 DEF ClientsInv, Left
  <2>2. PICK i \in vms : /\ j.run = i.run /\ j.doc = i.doc
                         /\ i.client \in {t} => j.client = Nobody
                         /\ i.client \notin {t} => j = i
      BY OrphanedOrigin, <1>0
  <2>3. CASE i.client = t
      BY <2>1, <2>2, <2>3 DEF ClientsInv, Left
  <2>4. CASE i.client # t
      BY <2>2, <2>4 DEF ClientsInv
  <2> QED
      BY <2>3, <2>4
<1>4. ASSUME Crash PROVE ClientsInv'
  <2>1. vms' = Orphaned(Threads) /\ crashes' = crashes + 1
      BY <1>4 DEF Crash
  <2> SUFFICES ASSUME NEW j \in Orphaned(Threads)
               PROVE  /\ j.run[2] \in Nat /\ j.run[2] < crashes + 1
                      /\ j.client = Nobody
      BY <2>1, <1>0 DEF ClientsInv, Left
  <2>2. PICK i \in vms : /\ j.run = i.run
                         /\ i.client \in Threads => j.client = Nobody
                         /\ i.client \notin Threads => j = i
      BY OrphanedOrigin, <1>0
  <2>3. i.run[2] \in Nat /\ i.run[2] <= crashes
      BY DEF ClientsInv
  <2>4. i.client \in Threads \cup {Nobody}
      BY <1>0 DEF TypeOK, Vm
  <2> QED
      BY <2>2, <2>3, <2>4, <1>0
<1>5. ASSUME NEW t \in Threads, NEW d \in Docs, Take(t, d) PROVE ClientsInv'
  <2>1. /\ vms' = vms /\ crashes' = crashes /\ pc[t] = "idle"
        /\ doc' = [doc EXCEPT ![t] = d]
      BY <1>5 DEF Take, Goto
  <2>2. \A j \in vms : j.client # Nobody => j.client # t /\ j.client \in Threads
      BY <2>1, <1>0 DEF SlotInv, Awaited, TypeOK, Vm
  <2> QED
      BY <2>1, <2>2, <1>0 DEF ClientsInv, Left, TypeOK
<1>6. ASSUME NEW t \in Threads,
             Reply(t) \/ Judge(t) \/ Cleanup(t) \/ Read(t) \/ Rest(t) \/ Raise(t)
      PROVE  ClientsInv'
    BY <1>6 DEF Reply, Judge, Cleanup, Read, Rest, Raise, clientVars, ClientsInv, Left
<1>7. CASE UNCHANGED vars
    BY <1>7 DEF vars, clientVars, ClientsInv, Left
<1> QED
    BY <1>1, <1>2, <1>3, <1>4, <1>5, <1>6, <1>7 DEF Next, Step

\* extract.py, "one JVM at a time": where two run, one has been left behind by a
\* timeout or a death of the worker.
THEOREM OneJvmUnlessLeft == Spec => []OneJvm
<1>1. Init => ClientsInv
    BY DEF Init, ClientsInv
<1>2. SlotInv /\ ClientsInv => OneJvm
    BY DEF SlotInv, OneAwaited, ClientsInv, OneJvm
<1> QED
    BY <1>1, <1>2, ClientsStep, SlotInvariant, PTL DEF Spec

\* What OutputInv says of the threads, step by step: Threads is not empty where
\* a thread takes one, so pc and doc are read through TypeOK.
LEMMA OutputRequest ==
    ASSUME SlotInv, OutputInv, NEW t \in Threads, Request(t)
    PROVE  OutputInv'
<1> USE ExtractionAssumption
<1>1. /\ pc[t] = "slot" /\ pc' = [pc EXCEPT ![t] = "wait"] /\ vms' = vms \cup {NewVm(t)}
      /\ UNCHANGED <<waiting, doc, mode, out, told, stored, answer, crashes>>
    BY DEF Request, Goto, taskVars, fileVars, clientVars
<1>2. \A u \in Threads : pc'[u] = IF u = t THEN "wait" ELSE pc[u]
    BY <1>1 DEF SlotInv, TypeOK
<1>3. OneWorker'
    BY <1>1, <1>2 DEF OutputInv, OneWorker
<1>4. AsAsked'
    BY <1>1 DEF OutputInv, AsAsked, NewVm
<1>5. (\A u \in Threads : pc[u] \in {"judge", "cleanup"} => mode[u] = "docling")'
    BY <1>1, <1>2 DEF OutputInv
<1>6. (crashes = 0 => \A u \in Threads : doc[u] \notin Slow => OwnOutput(u))'
    BY <1>1, <1>2 DEF OutputInv, OwnOutput
<1>7. BadHybridNotStored' /\ ToldJavaIsJava'
    BY <1>1 DEF OutputInv, BadHybridNotStored, ToldJavaIsJava
<1> QED
    BY <1>3, <1>4, <1>5, <1>6, <1>7 DEF OutputInv

\* A conversion writes for the client that waits for it; nobody else has an eye
\* on that document's output, unless the VM was left behind.
LEMMA OutputServe ==
    ASSUME SlotInv, ClientsInv, OutputInv, NEW j \in vms, Serve(j)
    PROVE  OutputInv'
<1> USE ExtractionAssumption
<1>1. /\ j \in Vm /\ vms' = vms \ {j}
      /\ UNCHANGED <<pc, waiting, doc, mode, told, stored, crashes>>
    BY DEF Serve, Convert, ConvertFails, SlotInv, TypeOK, taskVars, fileVars, clientVars
<1>2. OneWorker'
    BY <1>1 DEF OutputInv, OneWorker
<1>3. AsAsked'
    BY <1>1 DEF OutputInv, AsAsked
<1>4. (\A u \in Threads : pc[u] \in {"judge", "cleanup"} => mode[u] = "docling")'
    BY <1>1 DEF OutputInv
<1>5. BadHybridNotStored' /\ ToldJavaIsJava'
    BY <1>1 DEF OutputInv, BadHybridNotStored, ToldJavaIsJava
<1>6. ASSUME crashes = 0, NEW u \in Threads, doc[u] \notin Slow PROVE OwnOutput(u)'
  <2>1. OwnOutput(u)
      BY <1>6 DEF OutputInv
  <2>2. CASE ConvertFails(j)
    <3>1. out' = out /\ (answer'[u] = "ok" => answer[u] = "ok")
        BY <2>2, <1>1 DEF ConvertFails, Answer, fileVars, SlotInv, TypeOK, Vm
    <3> QED
        BY <2>1, <3>1, <1>1 DEF OwnOutput
  <2>3. CASE Convert(j) /\ j.doc # doc[u]
    <3>1. out'[doc[u]] = out[doc[u]]
        BY <2>3 DEF Convert, SlotInv, TypeOK
    <3>2. j.client # Nobody => j.client # u
        BY <2>3 DEF ClientsInv
    <3>3. answer'[u] = answer[u]
        BY <2>3, <3>2, <1>1 DEF Convert, Answer, SlotInv, TypeOK, Vm
    <3> QED
        BY <2>1, <3>1, <3>3, <1>1 DEF OwnOutput
  <2>4. CASE Convert(j) /\ j.doc = doc[u]
    <3>1. j.client # Nobody
        BY <2>4, <1>6 DEF ClientsInv, Left
    <3>2. j.client \in Threads /\ pc[j.client] = "wait" /\ doc[j.client] = doc[u]
        BY <3>1, <2>4, <1>1 DEF SlotInv, Awaited, ClientsInv, Vm
    <3>3. PICK good \in BOOLEAN : out' = [out EXCEPT ![j.doc] = [by |-> j.by, good |-> good]]
        BY <2>4 DEF Convert
    <3>4. out'[doc[u]].by = j.by
        BY <3>3, <2>4 DEF SlotInv, TypeOK
    <3>5. pc[u] # "idle" => u = j.client
        BY <3>2 DEF OutputInv, OneWorker
    <3>6. pc[u] # "read"
        BY <3>2, <3>5
    <3>7. answer'[u] = "ok" => u = j.client
        BY <3>2, <3>5, <2>4, <1>1 DEF Convert, Answer, SlotInv, TypeOK
    <3>8. u = j.client /\ mode[u] # "docling" => j.by = "java"
        BY <3>1 DEF OutputInv, AsAsked
    <3> QED
        BY <3>4, <3>6, <3>7, <3>8, <1>1 DEF OwnOutput
  <2> QED
      BY <2>2, <2>3, <2>4 DEF Serve
<1>7. (crashes = 0 => \A u \in Threads : doc[u] \notin Slow => OwnOutput(u))'
    BY <1>1, <1>6
<1> QED
    BY <1>2, <1>3, <1>4, <1>5, <1>7 DEF OutputInv

\* An answer or a timeout ends the wait: hybrid is judged, Java is read.
LEMMA OutputAnswered ==
    ASSUME SlotInv, OutputInv, NEW t \in Threads, Reply(t) \/ Timeout(t)
    PROVE  OutputInv'
<1> USE ExtractionAssumption
<1>1. UNCHANGED <<waiting, doc, mode, out, told, stored, crashes>> /\ pc[t] = "wait"
    BY DEF Reply, Timeout, Goto, taskVars, fileVars, clientVars
<1>2. PICK ok \in BOOLEAN :
          /\ pc' = [pc EXCEPT ![t] = AfterRequest(t, ok)]
          /\ doc[t] \notin Slow => ok = (answer[t] = "ok")
          /\ \A u \in Threads : answer'[u] = "ok" => answer[u] = "ok" /\ u # t
    BY DEF Reply, Timeout, Goto, SlotInv, TypeOK
<1>3. \A u \in Threads : pc'[u] = IF u = t THEN AfterRequest(t, ok) ELSE pc[u]
    BY <1>2 DEF SlotInv, TypeOK
<1>4. AfterRequest(t, ok) \in {"judge", "read", "raise"}
    BY DEF AfterRequest
<1>5. OneWorker'
    BY <1>1, <1>3, <1>4 DEF OutputInv, OneWorker
<1>6. AsAsked'
  <2> SUFFICES ASSUME NEW j \in vms', j.client # Nobody
               PROVE  j.by = IF mode[j.client] = "docling" THEN "hybrid" ELSE "java"
      BY <1>1 DEF AsAsked
  <2>1. CASE Timeout(t)
    <3>1. j \in Orphaned({t})
        BY <2>1 DEF Timeout
    <3>2. j \in vms
        BY <3>1, OrphanedType DEF SlotInv
    <3> QED
        BY <3>2 DEF OutputInv, AsAsked
  <2>2. CASE Reply(t)
      BY <2>2 DEF Reply, OutputInv, AsAsked
  <2> QED
      BY <2>1, <2>2
<1>7. (\A u \in Threads : pc[u] \in {"judge", "cleanup"} => mode[u] = "docling")'
    BY <1>1, <1>3 DEF OutputInv, AfterRequest
<1>8. ASSUME crashes = 0, NEW u \in Threads, doc[u] \notin Slow PROVE OwnOutput(u)'
  <2>1. OwnOutput(u)
      BY <1>8 DEF OutputInv
  <2>2. CASE u = t
      BY <2>1, <2>2, <1>1, <1>2, <1>3, <1>8 DEF OwnOutput, AfterRequest
  <2>3. CASE u # t
      BY <2>1, <2>3, <1>1, <1>2, <1>3 DEF OwnOutput
  <2> QED
      BY <2>2, <2>3
<1>9. BadHybridNotStored' /\ ToldJavaIsJava'
    BY <1>1 DEF OutputInv, BadHybridNotStored, ToldJavaIsJava
<1> QED
    BY <1>1, <1>5, <1>6, <1>7, <1>8, <1>9 DEF OutputInv

\* The judge lets through what looks right and sends the rest to Java.
LEMMA OutputJudged ==
    ASSUME SlotInv, OutputInv, NEW t \in Threads, Judge(t) \/ Cleanup(t)
    PROVE  OutputInv'
<1> USE ExtractionAssumption
<1>1. /\ UNCHANGED <<waiting, doc, told, stored, answer, vms, crashes>>
      /\ pc[t] \in {"judge", "cleanup"} /\ mode[t] = "docling" /\ answer[t] = "none"
    BY DEF Judge, Cleanup, Goto, taskVars, fileVars, clientVars, OutputInv, SlotInv, TypeOK
<1>2. PICK q \in {"read", "cleanup", "slot"} :
          /\ pc' = [pc EXCEPT ![t] = q]
          /\ q = "read" => Judge(t) /\ out[doc[t]].good
          /\ q = "cleanup" => Judge(t)
    BY DEF Judge, Cleanup, Goto
<1>3. \A u \in Threads : pc'[u] = IF u = t THEN q ELSE pc[u]
    BY <1>2 DEF SlotInv, TypeOK
<1>4. \A u \in Threads : u # t => mode'[u] = mode[u]
    BY DEF Judge, Cleanup, clientVars, SlotInv, TypeOK
<1>5. OneWorker'
    BY <1>1, <1>3 DEF OutputInv, OneWorker
<1>6. AsAsked'
  <2>1. \A j \in vms : j.client # Nobody => j.client # t /\ j.client \in Threads
      BY <1>1 DEF SlotInv, Awaited, TypeOK, Vm
  <2> QED
      BY <2>1, <1>1, <1>4 DEF OutputInv, AsAsked
<1>7. (\A u \in Threads : pc[u] \in {"judge", "cleanup"} => mode[u] = "docling")'
    BY <1>1, <1>2, <1>3, <1>4 DEF OutputInv, Judge, clientVars
<1>8. ASSUME crashes = 0, NEW u \in Threads, doc[u] \notin Slow PROVE OwnOutput(u)'
  <2>1. OwnOutput(u)
      BY <1>8 DEF OutputInv
  <2>2. CASE u = t
      BY <2>2, <1>1, <1>2, <1>3 DEF OwnOutput, Judge, fileVars, clientVars
  <2>3. CASE u # t
    <3>1. pc[u] = "read" \/ answer[u] = "ok" => doc[u] # doc[t]
        BY <2>3, <1>1 DEF OutputInv, OneWorker, SlotInv
    <3>2. pc[u] = "read" \/ answer[u] = "ok" => out'[doc[u]] = out[doc[u]]
        BY <3>1 DEF Judge, Cleanup, fileVars, SlotInv, TypeOK
    <3> QED
        BY <2>1, <2>3, <3>2, <1>1, <1>3, <1>4 DEF OwnOutput
  <2> QED
      BY <2>2, <2>3
<1>9. BadHybridNotStored' /\ ToldJavaIsJava'
    BY <1>1 DEF OutputInv, BadHybridNotStored, ToldJavaIsJava
<1> QED
    BY <1>1, <1>5, <1>6, <1>7, <1>8, <1>9 DEF OutputInv

\* What is read is stored, and reported by the mode it was judged under.
LEMMA OutputRead ==
    ASSUME SlotInv, OutputInv, NEW t \in Threads, Read(t)
    PROVE  OutputInv'
<1> USE ExtractionAssumption
<1>1. /\ UNCHANGED <<waiting, doc, mode, out, answer, vms, crashes>> /\ pc[t] = "read"
    BY DEF Read, Goto, taskVars, clientVars
<1>2. PICK q \in {"raise", "rest"} : pc' = [pc EXCEPT ![t] = q]
    BY DEF Read, Goto
<1>3. \A u \in Threads : pc'[u] = IF u = t THEN q ELSE pc[u]
    BY <1>2 DEF SlotInv, TypeOK
<1>4. OneWorker'
    BY <1>1, <1>3 DEF OutputInv, OneWorker
<1>5. AsAsked'
    BY <1>1 DEF OutputInv, AsAsked
<1>6. (\A u \in Threads : pc[u] \in {"judge", "cleanup"} => mode[u] = "docling")'
    BY <1>1, <1>3 DEF OutputInv
<1>7. (crashes = 0 => \A u \in Threads : doc[u] \notin Slow => OwnOutput(u))'
    BY <1>1, <1>3 DEF OutputInv, OwnOutput
<1>8. ASSUME crashes = 0, NEW d \in Docs \ Slow
      PROVE  /\ stored'[d].by = "hybrid" => stored'[d].good
             /\ told'[d] \in {"java", "java-direct"} => stored'[d].by = "java"
  <2>1. /\ stored[d].by = "hybrid" => stored[d].good
        /\ told[d] \in {"java", "java-direct"} => stored[d].by = "java"
      BY <1>8 DEF OutputInv, BadHybridNotStored, ToldJavaIsJava
  <2>2. CASE d # doc[t] \/ UNCHANGED <<told, stored>>
      BY <2>1, <2>2 DEF Read, SlotInv, TypeOK
  <2>3. CASE /\ d = doc[t]
             /\ told' = [told EXCEPT ![doc[t]] = mode[t]]
             /\ stored' = [stored EXCEPT ![doc[t]] = out[doc[t]]]
    <3>1. told'[d] = mode[t] /\ stored'[d] = out[doc[t]]
        BY <2>3 DEF SlotInv, TypeOK
    <3>2. OwnOutput(t)
        BY <1>8, <2>3 DEF OutputInv
    <3> QED
        BY <3>1, <3>2, <1>1 DEF OwnOutput
  <2> QED
      BY <2>2, <2>3 DEF Read
<1>9. BadHybridNotStored' /\ ToldJavaIsJava'
    BY <1>1, <1>8 DEF BadHybridNotStored, ToldJavaIsJava
<1> QED
    BY <1>4, <1>5, <1>6, <1>7, <1>9 DEF OutputInv

\* The message is taken up, finished or published again, always by one thread.
LEMMA OutputTurn ==
    ASSUME SlotInv, OutputInv, NEW t \in Threads,
           Rest(t) \/ Raise(t) \/ (\E d \in Docs : Take(t, d))
    PROVE  OutputInv'
<1> USE ExtractionAssumption
<1>1. UNCHANGED <<out, told, stored, answer, vms, crashes>> /\ pc[t] \in {"rest", "raise", "idle"}
    BY DEF Rest, Raise, Take, Goto, fileVars
<1>2. PICK q \in {"idle", "raise", "slot"} : pc' = [pc EXCEPT ![t] = q]
    BY DEF Rest, Raise, Take, Goto
<1>3. \A u \in Threads : pc'[u] = IF u = t THEN q ELSE pc[u]
    BY <1>2 DEF SlotInv, TypeOK
<1>4. \A u \in Threads : u # t => mode'[u] = mode[u] /\ doc'[u] = doc[u]
    BY DEF Rest, Raise, Take, clientVars, SlotInv, TypeOK
<1>5. OneWorker'
  <2>1. CASE Rest(t)
      BY <2>1, <1>3, <1>1 DEF Rest, Goto, taskVars, clientVars, OutputInv, OneWorker
  <2>2. CASE Raise(t)
    <3>1. pc'[t] = "idle" /\ pc[t] = "raise" /\ waiting' \subseteq waiting \cup {doc[t]} /\ doc' = doc
        BY <2>2 DEF Raise, Goto, taskVars, clientVars, SlotInv, TypeOK
    <3> QED
        BY <3>1, <1>3 DEF OutputInv, OneWorker
  <2>3. ASSUME NEW d \in Docs, Take(t, d) PROVE OneWorker'
    <3>1. d \in waiting /\ waiting' = waiting \ {d} /\ doc'[t] = d
        BY <2>3 DEF Take, SlotInv, TypeOK
    <3> QED
        BY <3>1, <1>3, <1>4 DEF OutputInv, OneWorker
  <2> QED
      BY <2>1, <2>2, <2>3
<1>6. AsAsked'
  <2>1. \A j \in vms : j.client # Nobody => j.client # t /\ j.client \in Threads
      BY <1>1 DEF SlotInv, Awaited, TypeOK, Vm
  <2> QED
      BY <2>1, <1>1, <1>4 DEF OutputInv, AsAsked
<1>7. (\A u \in Threads : pc[u] \in {"judge", "cleanup"} => mode[u] = "docling")'
    BY <1>3, <1>4 DEF OutputInv
<1>8. ASSUME crashes = 0, NEW u \in Threads, doc'[u] \notin Slow PROVE OwnOutput(u)'
  <2>1. CASE u = t
    <3>1. answer[t] = "none"
        BY <1>1 DEF SlotInv, TypeOK
    <3> QED
        BY <2>1, <3>1, <1>1, <1>3 DEF OwnOutput
  <2>2. CASE u # t
      BY <2>2, <1>1, <1>3, <1>4, <1>8 DEF OwnOutput, OutputInv
  <2> QED
      BY <2>1, <2>2
<1>9. BadHybridNotStored' /\ ToldJavaIsJava'
    BY <1>1 DEF OutputInv, BadHybridNotStored, ToldJavaIsJava
<1> QED
    BY <1>1, <1>5, <1>6, <1>7, <1>8, <1>9 DEF OutputInv

\* After a death nothing more is promised of what lies in the directory.
LEMMA OutputCrash ==
    ASSUME SlotInv, OutputInv, Crash
    PROVE  OutputInv'
<1> USE ExtractionAssumption
<1>1. /\ \A t \in Threads : pc'[t] = "idle"
      /\ vms' = Orphaned(Threads) /\ crashes' = crashes + 1 /\ crashes \in Nat
    BY DEF Crash, SlotInv, TypeOK
<1>2. \A j \in vms' : j.client = Nobody
    BY <1>1, OrphanedType DEF SlotInv, TypeOK, Vm
<1> QED
    BY <1>1, <1>2
    DEF OutputInv, OneWorker, AsAsked, BadHybridNotStored, ToldJavaIsJava

\* Every step keeps the invariant.
LEMMA OutputStep == SlotInv /\ ClientsInv /\ OutputInv /\ [Next]_vars => OutputInv'
<1> SUFFICES ASSUME SlotInv, ClientsInv, OutputInv, [Next]_vars
             PROVE  OutputInv'
    OBVIOUS
<1>1. CASE UNCHANGED vars
    BY <1>1 DEF vars, taskVars, fileVars, clientVars, OutputInv, OneWorker, AsAsked,
       OwnOutput, BadHybridNotStored, ToldJavaIsJava
<1> QED
    BY <1>1, OutputRequest, OutputServe, OutputAnswered, OutputJudged, OutputRead,
       OutputTurn, OutputCrash DEF Next, Step

\* The strengthened invariant of the output directory.
LEMMA OutputInvariant == Spec => []OutputInv
<1>1. Init => OutputInv
  <2> SUFFICES ASSUME Init PROVE OutputInv
      OBVIOUS
  <2>1. /\ \A t \in Threads : pc[t] = "idle" /\ answer[t] = "none"
        /\ vms = {}
        /\ \A d \in Docs : told[d] = "none" /\ stored[d].by = "nothing"
      BY DEF Init, NoOutput
  <2> QED
      BY <2>1 DEF OutputInv, OneWorker, AsAsked, OwnOutput, BadHybridNotStored, ToldJavaIsJava
<1>2. Init => ClientsInv
    BY DEF Init, ClientsInv
<1> QED
    BY <1>1, <1>2, ClientsStep, OutputStep, SlotInvariant, PTL DEF Spec

\* extract.py, run_extract: a hybrid output that failed its check is never
\* stored, for a document that answers in time while the worker lives.
THEOREM NoBadHybridStored == Spec => []BadHybridNotStored
<1>1. OutputInv => BadHybridNotStored
    BY DEF OutputInv
<1> QED
    BY <1>1, OutputInvariant, PTL

\* What run_extract reports as Java's was converted by Java, likewise.
THEOREM JavaWasJava == Spec => []ToldJavaIsJava
<1>1. OutputInv => ToldJavaIsJava
    BY DEF OutputInv
<1> QED
    BY <1>1, OutputInvariant, PTL

=============================================================================
