----------------------------- MODULE Extraction -----------------------------
(***************************************************************************)
(* run_extract() and the ODL server: how a PDF becomes markdown and JSON.  *)
(* A document of at most 200 pages is first converted in hybrid mode; if   *)
(* what lies in the output directory afterwards does not look right, it is *)
(* removed and the document converted by plain Java.  Longer documents go  *)
(* to Java at once.                                                        *)
(*                                                                         *)
(* The ODL server starts a Java VM for every request.  The threads of the  *)
(* worker take turns: a semaphore is held from the request to the answer,  *)
(* or until the client has waited 1800 s.  Nothing tells the server that a *)
(* client is gone: its VM runs on and writes its output when it is done.   *)
(***************************************************************************)
EXTENDS Naturals, FiniteSets

CONSTANTS
    Threads,       \* threads of the worker on queue "celery"
    Docs,          \* documents, one extract_pdf message each
    Large,         \* those with more than DOCLING_PAGE_LIMIT pages
    Slow,          \* those whose conversion may outlast the client's timeout
    Nobody,        \* the slot is free; the VM has no client any more
    MaxRetries,    \* max_retries of extract_pdf (3 in the code)
    MaxFailures,   \* bound: conversions and clean-ups that fail
    MaxCrashes     \* bound: deaths of the worker process

ASSUME ExtractionAssumption ==
    /\ Docs # {} /\ Large \subseteq Docs /\ Slow \subseteq Docs
    /\ Nobody \notin Threads
    /\ MaxRetries \in Nat /\ MaxFailures \in Nat /\ MaxCrashes \in Nat

VARIABLES
    waiting,    \* documents whose message is in the queue
    retries,    \* the retries counted in a document's message
    out,        \* what lies in the output directory for a document
    told,       \* the mode run_extract returned, for what was then stored
    stored,     \* the output extract_pdf read to store it
    pc, doc,    \* where each thread stands, and its document
    mode,       \* the mode it will return
    answer,     \* the server's answer to its request
    slot,       \* who holds _ODL_SLOT
    vms,        \* the Java VMs that run on the ODL server
    failures, crashes

taskVars == <<waiting, retries>>
fileVars == <<out, told, stored>>
clientVars == <<doc, mode>>
vars == <<taskVars, fileVars, pc, clientVars, answer, slot, vms, failures, crashes>>

\* What a conversion leaves: the way it was made, and whether
\* check_docling_success accepts it.
Output == [by : {"hybrid", "java"}, good : BOOLEAN]
NoOutput == [by |-> "nothing", good |-> FALSE]

Mode == {"docling", "java", "java-direct"}

\* A VM is told from others by the delivery of the message it works for.
Vm == [run : Nat \X Nat, doc : Docs, by : {"hybrid", "java"}, client : Threads \cup {Nobody}]

TypeOK ==
    /\ waiting \subseteq Docs
    /\ retries \in [Docs -> Nat]
    /\ out \in [Docs -> Output \cup {NoOutput}]
    /\ told \in [Docs -> Mode \cup {"none"}]
    /\ stored \in [Docs -> Output \cup {NoOutput}]
    /\ pc \in [Threads -> {"idle", "slot", "wait", "judge", "cleanup", "read", "rest", "raise"}]
    /\ doc \in [Threads -> Docs]
    /\ mode \in [Threads -> Mode]
    /\ answer \in [Threads -> {"none", "ok", "error"}]
    /\ slot \in Threads \cup {Nobody}
    /\ vms \subseteq Vm
    /\ failures \in Nat /\ crashes \in Nat

Init ==
    /\ waiting = Docs
    /\ retries = [d \in Docs |-> 0]
    /\ out = [d \in Docs |-> NoOutput]
    /\ told = [d \in Docs |-> "none"]
    /\ stored = [d \in Docs |-> NoOutput]
    /\ pc = [t \in Threads |-> "idle"]
    /\ doc \in [Threads -> {CHOOSE d \in Docs : TRUE}]
    /\ mode = [t \in Threads |-> "java"]
    /\ answer = [t \in Threads |-> "none"]
    /\ slot = Nobody
    /\ vms = {}
    /\ failures = 0 /\ crashes = 0

-----------------------------------------------------------------------------
Goto(t, from, to) == pc[t] = from /\ pc' = [pc EXCEPT ![t] = to]

Fault == failures < MaxFailures /\ failures' = failures + 1

\* extract_pdf starts; run_extract decides by the page count.
Take(t, d) ==
    /\ d \in waiting /\ waiting' = waiting \ {d}
    /\ Goto(t, "idle", "slot")
    /\ doc' = [doc EXCEPT ![t] = d]
    /\ mode' = [mode EXCEPT ![t] = IF d \in Large THEN "java-direct" ELSE "docling"]
    /\ UNCHANGED <<retries, fileVars, answer, slot, vms, failures, crashes>>

NewVm(t) == [run |-> <<retries[doc[t]], crashes>>, doc |-> doc[t], client |-> t,
             by |-> IF mode[t] = "docling" THEN "hybrid" ELSE "java"]

\* Mutant: the request does not wait for its turn.
RequestAtOnce(t) ==
    /\ Goto(t, "slot", "wait")
    /\ slot' = t
    /\ vms' = vms \cup {NewVm(t)}
    /\ UNCHANGED <<taskVars, fileVars, clientVars, answer, failures, crashes>>

\* _run_odl: take the slot, POST /convert.
Request(t) ==
    /\ Goto(t, "slot", "wait")
    /\ slot = Nobody /\ slot' = t
    /\ vms' = vms \cup {NewVm(t)}
    /\ UNCHANGED <<taskVars, fileVars, clientVars, answer, failures, crashes>>

\* The server answers whoever still waits.
Answer(j, a) ==
    answer' = IF j.client = Nobody THEN answer ELSE [answer EXCEPT ![j.client] = a]

\* A conversion ends: it writes its files, over whatever is there.
Convert(j) ==
    /\ j \in vms /\ vms' = vms \ {j}
    /\ \E good \in BOOLEAN : out' = [out EXCEPT ![j.doc] = [by |-> j.by, good |-> good]]
    /\ Answer(j, "ok")
    /\ UNCHANGED <<taskVars, told, stored, pc, clientVars, slot, failures, crashes>>

\* It fails: HTTP 500, or no connection; earlier files stay as they are.
ConvertFails(j) ==
    /\ j \in vms /\ vms' = vms \ {j}
    /\ Fault
    /\ Answer(j, "error")
    /\ UNCHANGED <<taskVars, fileVars, pc, clientVars, slot, crashes>>

\* Mutant: a failed Java run is only logged as well.
AfterRequestBlindly(t, ok) == IF mode[t] = "docling" THEN "judge" ELSE "read"

\* After the request: a failed hybrid attempt is only logged, run_extract goes
\* on to look at the output; a failed Java run raises.
AfterRequest(t, ok) == IF mode[t] = "docling" THEN "judge" ELSE IF ok THEN "read" ELSE "raise"

Reply(t) ==
    /\ answer[t] # "none" /\ answer' = [answer EXCEPT ![t] = "none"]
    /\ Goto(t, "wait", AfterRequest(t, answer[t] = "ok"))
    /\ slot' = Nobody
    /\ UNCHANGED <<taskVars, fileVars, clientVars, vms, failures, crashes>>

\* The VMs of W have lost their clients.
Orphaned(W) == {IF j.client \in W THEN [j EXCEPT !.client = Nobody] ELSE j : j \in vms}

\* Mutant: the timeout leaves the slot behind.
TimeoutKeepsSlot(t) ==
    /\ answer[t] = "none" /\ doc[t] \in Slow
    /\ Goto(t, "wait", AfterRequest(t, FALSE))
    /\ vms' = Orphaned({t})
    /\ UNCHANGED <<taskVars, fileVars, clientVars, answer, slot, failures, crashes>>

\* 1800 s without an answer: the client gives up and leaves the slot.
Timeout(t) ==
    /\ answer[t] = "none" /\ doc[t] \in Slow
    /\ Goto(t, "wait", AfterRequest(t, FALSE))
    /\ slot' = Nobody
    /\ vms' = Orphaned({t})
    /\ UNCHANGED <<taskVars, fileVars, clientVars, answer, failures, crashes>>

\* Mutant: any JSON will do.
JudgeExists(t) ==
    /\ Goto(t, "judge", IF out[doc[t]] # NoOutput THEN "read" ELSE "cleanup")
    /\ UNCHANGED <<taskVars, fileVars, clientVars, answer, slot, vms, failures, crashes>>

\* The JSON that lies there decides, whoever has made it.
Judge(t) ==
    /\ Goto(t, "judge", IF out[doc[t]].good THEN "read" ELSE "cleanup")
    /\ UNCHANGED <<taskVars, fileVars, clientVars, answer, slot, vms, failures, crashes>>

\* POST /cleanup; its failure is only logged.
Cleanup(t) ==
    /\ Goto(t, "cleanup", "slot")
    /\ \/ out' = [out EXCEPT ![doc[t]] = NoOutput] /\ UNCHANGED failures
       \/ Fault /\ UNCHANGED out
    /\ mode' = [mode EXCEPT ![t] = "java"]
    /\ UNCHANGED <<taskVars, told, stored, doc, answer, slot, vms, crashes>>

\* extract_pdf reads the files; without markdown it raises.
Read(t) ==
    /\ \/ /\ out[doc[t]] = NoOutput
          /\ Goto(t, "read", "raise") /\ UNCHANGED <<told, stored>>
       \/ /\ out[doc[t]] # NoOutput
          /\ Goto(t, "read", "rest")
          /\ told' = [told EXCEPT ![doc[t]] = mode[t]]
          /\ stored' = [stored EXCEPT ![doc[t]] = out[doc[t]]]
    /\ UNCHANGED <<taskVars, out, clientVars, answer, slot, vms, failures, crashes>>

\* What follows in extract_pdf: it succeeds, or fails for reasons of its own.
Rest(t) ==
    /\ \/ Goto(t, "rest", "idle") /\ UNCHANGED failures
       \/ Goto(t, "rest", "raise") /\ Fault
    /\ UNCHANGED <<taskVars, fileVars, clientVars, answer, slot, vms, crashes>>

\* self.retry() publishes the message again until the retries are used up.
Raise(t) ==
    /\ Goto(t, "raise", "idle")
    /\ \/ /\ retries[doc[t]] < MaxRetries
          /\ retries' = [retries EXCEPT ![doc[t]] = @ + 1]
          /\ waiting' = waiting \cup {doc[t]}
       \/ /\ retries[doc[t]] >= MaxRetries
          /\ UNCHANGED taskVars
    /\ UNCHANGED <<fileVars, clientVars, answer, slot, vms, failures, crashes>>

\* The worker dies: its messages return to the queue, its VMs run on.
Crash ==
    /\ crashes < MaxCrashes /\ crashes' = crashes + 1
    /\ waiting' = waiting \cup {doc[t] : t \in {u \in Threads : pc[u] # "idle"}}
    /\ pc' = [t \in Threads |-> "idle"]
    /\ answer' = [t \in Threads |-> "none"]
    /\ slot' = Nobody
    /\ vms' = Orphaned(Threads)
    /\ UNCHANGED <<retries, fileVars, clientVars, failures>>

Step(t) ==
    \/ Request(t) \/ Reply(t) \/ Timeout(t) \/ Judge(t) \/ Cleanup(t) \/ Read(t)
    \/ Rest(t) \/ Raise(t) \/ \E d \in Docs : Take(t, d)

Serve(j) == Convert(j) \/ ConvertFails(j)

Next == Crash \/ (\E j \in vms : Serve(j)) \/ \E t \in Threads : Step(t)

Spec == Init /\ [][Next]_vars

\* The worker's threads run; the server finishes what is not slow.  A slow
\* conversion may hang for ever.
FairSpec ==
    /\ Spec
    /\ \A t \in Threads : WF_vars(Step(t))
    /\ WF_vars(\E j \in vms : j.doc \notin Slow /\ Serve(j))

-----------------------------------------------------------------------------
\* Properties.

\* What the semaphore guarantees: no two conversions that somebody still waits
\* for run at the same time, whatever fails, times out or crashes.
OneAwaited == \A i, j \in vms : i.client # Nobody /\ j.client # Nobody => i = j

\* A VM whose client is gone: it outlasted the timeout, or the worker died.
Left(j) == j.client = Nobody /\ (j.doc \in Slow \/ j.run[2] < crashes)

\* The comment on _ODL_SLOT: conversions run one after the other, because two
\* Java VMs on one large PDF each are more memory than the machine has.  Where
\* two do run, one of them was left behind by a timeout or a death.
OneJvm == \A i, j \in vms : i # j => Left(i) \/ Left(j)

\* A hybrid conversion whose quality check failed never gets into the database:
\* so it is for a document whose conversions answer in time, whatever the other
\* documents do and whatever fails, as long as the worker does not die.
BadHybridNotStored ==
    crashes = 0 => \A d \in Docs \ Slow : stored[d].by = "hybrid" => stored[d].good

\* A document that run_extract reports as Java's was converted by Java, under
\* the same conditions, also when /cleanup has left a rejected hybrid output
\* behind and Java then fails.  (The converse does not hold: after a failed
\* hybrid attempt the accepted Java output of an earlier attempt is judged, and
\* reported as docling.)
ToldJavaIsJava ==
    crashes = 0 => \A d \in Docs \ Slow :
        told[d] \in {"java", "java-direct"} => stored[d].by = "java"

\* Every document whose message waits is taken up, and in the end it waits no
\* more and no thread works on it: a conversion that hangs blocks the slot for
\* the time of the timeout only.
Settled(d) == d \notin waiting /\ \A t \in Threads : pc[t] # "idle" => doc[t] # d

DocsSettle == \A d \in Docs : d \in waiting ~> Settled(d)

\* The inductive invariant of OneAwaited: a VM with a client belongs to the
\* thread that holds the slot and waits for its answer.
Awaited ==
    \A j \in vms : j.client # Nobody =>
        slot = j.client /\ pc[j.client] = "wait" /\ answer[j.client] = "none"

SlotInv ==
    /\ TypeOK
    /\ \A t \in Threads : pc[t] = "wait" => slot = t
    /\ \A t \in Threads : answer[t] # "none" => pc[t] = "wait"
    /\ Awaited
    /\ OneAwaited

\* The strengthening for OneJvm: a client's VM works on the client's document,
\* and a VM without a client has been left.
ClientsInv ==
    \A j \in vms :
        /\ j.run[2] \in Nat /\ j.run[2] <= crashes
        /\ j.client # Nobody => j.doc = doc[j.client]
        /\ j.client = Nobody => Left(j)

\* The strengthening for what is stored: a document is worked on once at a time;
\* a VM converts the way its client asked for; and what a thread has judged, or
\* has been answered by Java, is what lies in the output directory.
OneWorker ==
    \A t, u \in Threads : pc[t] # "idle" =>
        doc[t] \notin waiting /\ (pc[u] # "idle" /\ doc[t] = doc[u] => t = u)

AsAsked ==
    \A j \in vms : j.client # Nobody =>
        j.by = IF mode[j.client] = "docling" THEN "hybrid" ELSE "java"

OwnOutput(t) ==
    /\ mode[t] = "docling" /\ pc[t] = "read" => out[doc[t]].good
    /\ mode[t] # "docling" /\ (pc[t] = "read" \/ answer[t] = "ok") => out[doc[t]].by = "java"

OutputInv ==
    /\ OneWorker /\ AsAsked
    /\ \A t \in Threads : pc[t] \in {"judge", "cleanup"} => mode[t] = "docling"
    /\ crashes = 0 => \A t \in Threads : doc[t] \notin Slow => OwnOutput(t)
    /\ BadHybridNotStored /\ ToldJavaIsJava

=============================================================================
