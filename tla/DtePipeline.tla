---------------------------- MODULE DtePipeline ----------------------------
(***************************************************************************)
(* The way of a JSON attachment into the purchase book of one tenant: the  *)
(* sync that archives it and offers it to the queue, the BullMQ queue with *)
(* one job id per attachment, the workers that read it and write ledger    *)
(* and book, and the reprocessing that pages over the attachments and      *)
(* queues them again. One action per await of the code.                    *)
(*                                                                         *)
(* A document is known by the attachment it was read from (attachmentId is *)
(* unique); version 0 means there is none, NoDoc = 0 that a ledger row     *)
(* points at none. Attachments are numbered by (createdAt, id), the order  *)
(* the reprocessing pages in.                                              *)
(***************************************************************************)
EXTENDS Integers, FiniteSets

CONSTANTS
  Attachment,     \* JSON attachments, numbered in the order they are archived
  Code,           \* codigoGeneracion values
  CodeOf,         \* the code the file of an attachment carries
  Reading,        \* what a parser version makes of a file: a parse outcome
  Worker,         \* slots of the dte worker (DTE_QUEUE_CONCURRENCY)
  NoWorker,
  Limit,          \* page size of a reprocessing (PURCHASE_BOOK_REPROCESS_BATCH)
  Modes,          \* the modes of reprocessing that are asked for
  Marks,          \* the manual classifications people enter
  MaxParser,      \* bound: PARSER_VERSION goes from 1 to MaxParser
  Disruptions     \* bound: failures and suspensions of one behaviour

Attempts == 3                              \* JOB_ATTEMPTS

Terminal == {"PARSEADO", "DUPLICADO", "IGNORADO_TIPO"}
Retryable == {"ERROR", "JSON_INVALIDO", "ARCHIVO_FALTANTE",
              "ARCHIVO_DEMASIADO_GRANDE"}
(* What reading a file gives: "PARSEADO" or a failure the ledger records.  *)
Outcome == {"PARSEADO", "IGNORADO_TIPO", "NO_ES_DTE",
            "VERSION_NO_SOPORTADA"} \cup Retryable
LedgerStatus == Outcome \cup {"DUPLICADO", "NONE"}
Mode == {"missing", "failed", "all"}

ASSUME PipelineAssumption ==
  /\ Attachment \subseteq Nat \ {0}
  /\ IsFiniteSet(Attachment)
  /\ CodeOf \in [Attachment -> Code]
  /\ MaxParser \in Nat \ {0}
  /\ Reading \in [Attachment -> [1..MaxParser -> Outcome]]
  /\ NoWorker \notin Worker
  /\ Limit \in Nat \ {0}
  /\ Modes \subseteq Mode
  /\ Marks \subseteq BOOLEAN
  /\ Disruptions \in Nat

NoDoc == 0

VARIABLES
  tenant,      \* status of the tenant
  parser,      \* PARSER_VERSION of the running worker
  archived,    \* attachments whose row is committed
  file,        \* attachment -> its file is on disk
  ledger,      \* attachment -> row of dte_parse_results
  book,        \* attachment -> purchase document read from it
  offer,       \* archived attachments the sync has still to offer to the queue
  job,         \* attachment -> job dte-{attachmentId} in Redis
  op,          \* the reprocessing under way (endpoint loop or backfill)
  worker,      \* worker -> where it is in ingestAttachment
  left         \* disruptions still to come

vars == <<tenant, parser, archived, file, ledger, book, offer, job, op,
          worker, left>>
dbVars == <<ledger, book>>
outside == <<tenant, parser, archived, file>>

LedgerRow == [status : LedgerStatus, version : 0..MaxParser,
              doc : Attachment \cup {NoDoc}]
Document == [version : 0..MaxParser, manual : BOOLEAN]
Job == [state : {"none", "waiting", "active", "failed"}, force : BOOLEAN,
        tries : 0..Attempts, stalls : 0..1, owner : Worker \cup {NoWorker}]
Operation == [step : {"idle", "list", "clear", "add"}, mode : Mode,
              cursor : SUBSET Attachment, page : SUBSET Attachment,
              todo : SUBSET Attachment, more : BOOLEAN]
Step == {"idle", "tenant", "ledger", "read", "fail", "find", "commit",
         "canonical", "duplicate"}
Slot == [step : Step, on : Attachment \cup {0}, force : BOOLEAN,
         result : Outcome, seen : Attachment \cup {0}]

NoJob == [state |-> "none", force |-> FALSE, tries |-> 0, stalls |-> 0,
          owner |-> NoWorker]
NewJob(force) == [state |-> "waiting", force |-> force, tries |-> 0,
                  stalls |-> 0, owner |-> NoWorker]
IdleSlot == [step |-> "idle", on |-> 0, force |-> FALSE,
             result |-> "PARSEADO", seen |-> 0]
NoOperation == [step |-> "idle", mode |-> "missing", cursor |-> {},
                page |-> {}, todo |-> {}, more |-> FALSE]

Documents == {a \in Attachment : book[a].version > 0}

Init ==
  /\ tenant = "ACTIVO"
  /\ parser = 1
  /\ archived = {}
  /\ file = [a \in Attachment |-> TRUE]
  /\ ledger = [a \in Attachment |-> [status |-> "NONE", version |-> 0,
                                     doc |-> NoDoc]]
  /\ book = [a \in Attachment |-> [version |-> 0, manual |-> FALSE]]
  /\ offer = {}
  /\ job = [a \in Attachment |-> NoJob]
  /\ op = NoOperation
  /\ worker = [w \in Worker |-> IdleSlot]
  /\ left = Disruptions

Disrupt == left > 0 /\ left' = left - 1

-----------------------------------------------------------------------------
(* The queue.                                                              *)

(* addBulk: an id that exists in Redis, in whatever state, absorbs the add. *)
Added(S, force) ==
  [a \in Attachment |->
     IF a \in S /\ job[a].state = "none"
     THEN NewJob(force)
     ELSE job[a]]

RemovedIfWaiting(a) ==                 \* mutant: a retained failure stays
  IF job[a].state # "waiting" THEN job ELSE [job EXCEPT ![a] = NoJob]

(* Queue.remove frees the id of a job nobody is running.                   *)
Removed(a) == IF job[a].state = "active" THEN job
              ELSE [job EXCEPT ![a] = NoJob]

-----------------------------------------------------------------------------
(* The sync: archives an attachment, then offers it to the queue.          *)

Archive(a) ==
  /\ a \notin archived
  /\ \A b \in Attachment \ archived : a <= b
  /\ archived' = archived \cup {a}
  /\ offer' = offer \cup {a}
  /\ UNCHANGED <<tenant, parser, file, ledger, book, job, op, worker, left>>

EnqueueFromSync(a) ==
  /\ a \in offer
  /\ offer' = offer \ {a}
  /\ job' = Added({a}, FALSE)
  /\ UNCHANGED <<outside, dbVars, op, worker, left>>

(* Redis refuses the lot, or the process dies between commit and add: the  *)
(* lot is lost and only a log line says so.                                *)
LoseLot(a) ==
  /\ a \in offer
  /\ Disrupt
  /\ offer' = offer \ {a}
  /\ UNCHANGED <<outside, dbVars, job, op, worker>>

-----------------------------------------------------------------------------
(* A worker: ingestAttachment.                                             *)

Take(w, a) ==
  /\ worker[w].step = "idle"
  /\ job[a].state = "waiting"
  /\ job' = [job EXCEPT ![a].state = "active", ![a].owner = w]
  /\ worker' = [worker EXCEPT ![w] =
                  [step |-> "tenant", on |-> a, force |-> job[a].force,
                   result |-> "PARSEADO", seen |-> 0]]
  /\ UNCHANGED <<outside, dbVars, offer, op, left>>

(* removeOnComplete: the id is free again. A worker whose lock on the job  *)
(* was taken away changes nothing in Redis.                                *)
Complete(w) ==
  /\ worker' = [worker EXCEPT ![w] = IdleSlot]
  /\ job' = LET a == worker[w].on
            IN IF job[a].owner = w THEN [job EXCEPT ![a] = NoJob] ELSE job

GoTo(w, step) ==
  /\ worker' = [worker EXCEPT ![w].step = step]
  /\ UNCHANGED job

(* A tenant that is not ACTIVO: the job ends and nothing is recorded.      *)
CheckTenant(w) ==
  /\ worker[w].step = "tenant"
  /\ \/ tenant # "ACTIVO" /\ Complete(w)
     \/ /\ tenant = "ACTIVO"
        /\ GoTo(w, IF worker[w].force THEN "read" ELSE "ledger")
  /\ UNCHANGED <<outside, dbVars, offer, op, left>>

HasTerminalResult(a) ==
  ledger[a].status \in Terminal /\ ledger[a].version = parser

CheckLedger(w) ==
  /\ worker[w].step = "ledger"
  /\ \/ HasTerminalResult(worker[w].on) /\ Complete(w)
     \/ ~HasTerminalResult(worker[w].on) /\ GoTo(w, "read")
  /\ UNCHANGED <<outside, dbVars, offer, op, left>>

(* Sizes, stat, readFile, JSON.parse and parseDte.                         *)
ReadFile(w) ==
  /\ worker[w].step = "read"
  /\ LET a == worker[w].on
         result == IF file[a] THEN Reading[a][parser] ELSE "ARCHIVO_FALTANTE"
     IN worker' = [worker EXCEPT ![w].result = result,
                     ![w].step = IF result = "PARSEADO" THEN "find" ELSE "fail"]
  /\ UNCHANGED <<outside, dbVars, offer, job, op, left>>

UpsertedKeepingDoc(a, status, doc) ==  \* mutant: the update forgets documentId
  [ledger EXCEPT ![a] = [status |-> status, version |-> parser,
                         doc |-> IF ledger[a].doc # NoDoc THEN ledger[a].doc
                                 ELSE doc]]

Upserted(a, status, doc) ==
  [ledger EXCEPT ![a] = [status |-> status, version |-> parser, doc |-> doc]]

RecordFailure(w) ==
  /\ worker[w].step = "fail"
  /\ ledger' = Upserted(worker[w].on, worker[w].result, NoDoc)
  /\ Complete(w)
  /\ UNCHANGED <<outside, book, offer, op, left>>

(* The transaction of persist: does this attachment have a document?       *)
FindOwn(w) ==
  /\ worker[w].step = "find"
  /\ worker' = [worker EXCEPT ![w].step = "commit",
                  ![w].seen = IF worker[w].on \in Documents
                              THEN worker[w].on ELSE 0]
  /\ UNCHANGED <<outside, dbVars, offer, job, op, left>>

ReparsedAnew(a) ==                     \* mutant: the re-parse rewrites the row
  [book EXCEPT ![a] = [version |-> parser, manual |-> FALSE]]

(* A re-parse replaces everything but the classification of the user.      *)
Reparsed(a) == [book EXCEPT ![a].version = parser]

NoOwnClash(a) == a \in Documents       \* mutant: the code is not unique

(* The two unique constraints an insert of a's document can meet.          *)
Clash(a) == \E b \in Documents : b = a \/ CodeOf[b] = CodeOf[a]

Persist(w) ==
  /\ worker[w].step = "commit"
  /\ LET a == worker[w].on
     IN \/ /\ worker[w].seen # 0
           /\ book' = Reparsed(a)
           /\ ledger' = Upserted(a, "PARSEADO", a)
           /\ Complete(w)
        \/ /\ worker[w].seen = 0
           /\ ~Clash(a)
           /\ book' = [book EXCEPT ![a] = [version |-> parser, manual |-> FALSE]]
           /\ ledger' = Upserted(a, "PARSEADO", a)
           /\ Complete(w)
        \/ /\ worker[w].seen = 0
           /\ Clash(a)
           /\ GoTo(w, "canonical")
           /\ UNCHANGED dbVars
  /\ UNCHANGED <<outside, offer, op, left>>

(* P2002 from a party two workers met for the first time together.         *)
PartyClash(w) ==
  /\ worker[w].step = "commit"
  /\ Disrupt
  /\ GoTo(w, "canonical")
  /\ UNCHANGED <<outside, dbVars, offer, op>>

(* The job throws: retried with backoff until its attempts are used up,    *)
(* then retained as failed. A worker that lost the job changes nothing.    *)
Fail(w) ==
  /\ worker' = [worker EXCEPT ![w] = IdleSlot]
  /\ LET a == worker[w].on
         tries == job[a].tries + 1
     IN job' = IF job[a].owner # w THEN job
               ELSE [job EXCEPT
                       ![a].state = IF tries < Attempts THEN "waiting"
                                    ELSE "failed",
                       ![a].tries = tries, ![a].owner = NoWorker]

SameCode(a) == {b \in Documents : CodeOf[b] = CodeOf[a]}  \* mutant: own too

Others(a) == {b \in Documents : b # a /\ CodeOf[b] = CodeOf[a]}

FindCanonical(w) ==
  /\ worker[w].step = "canonical"
  /\ LET others == Others(worker[w].on)
     IN \/ \E b \in others :
             /\ worker' = [worker EXCEPT ![w].step = "duplicate", ![w].seen = b]
             /\ UNCHANGED job
        \/ others = {} /\ Fail(w)
  /\ UNCHANGED <<outside, dbVars, offer, op, left>>

RecordDuplicate(w) ==
  /\ worker[w].step = "duplicate"
  /\ ledger' = Upserted(worker[w].on, "DUPLICADO", worker[w].seen)
  /\ Complete(w)
  /\ UNCHANGED <<outside, book, offer, op, left>>

(* Database or disk down at any await of the handler.                      *)
InfraFailure(w) ==
  /\ worker[w].step # "idle"
  /\ Disrupt
  /\ Fail(w)
  /\ UNCHANGED <<outside, dbVars, offer, op>>

(* The process dies: the job stays active with nobody renewing its lock.   *)
Crash(w) ==
  /\ worker[w].step # "idle"
  /\ Disrupt
  /\ worker' = [worker EXCEPT ![w] = IdleSlot]
  /\ job' = LET a == worker[w].on
            IN IF job[a].owner = w THEN [job EXCEPT ![a].owner = NoWorker]
               ELSE job
  /\ UNCHANGED <<outside, dbVars, offer, op>>

(* The worker runs on, but its lock on the job expires.                    *)
LoseLock(w) ==
  /\ worker[w].step # "idle"
  /\ job[worker[w].on].owner = w
  /\ Disrupt
  /\ job' = [job EXCEPT ![worker[w].on].owner = NoWorker]
  /\ UNCHANGED <<outside, dbVars, offer, op, worker>>

(* BullMQ puts a stalled job back once; the second time it fails it.       *)
Stalled(a) ==
  /\ job[a].state = "active"
  /\ job[a].owner = NoWorker
  /\ job' = [job EXCEPT ![a].state = IF job[a].stalls = 0 THEN "waiting"
                                     ELSE "failed",
                        ![a].stalls = 1]
  /\ UNCHANGED <<outside, dbVars, offer, op, worker, left>>

-----------------------------------------------------------------------------
(* A reprocessing: pages of attachments, each cleared and queued again.    *)

Selected(mode, a) ==
  \/ mode = "all"
  \/ ledger[a].status = "NONE"
  \/ mode = "failed" /\ (ledger[a].status \in Retryable
                         \/ ledger[a].version < parser)

FirstOf(S, n) == {a \in S : Cardinality({b \in S : b < a}) < n}

(* Prisma's cursor: the rows from the cursor on that match the filter,     *)
(* less the first of them; without a cursor, all that match.               *)
After(S, cursor) ==
  LET from == {a \in S : \A c \in cursor : a >= c}
  IN IF cursor = {} THEN S ELSE from \ FirstOf(from, 1)

StartReprocess(mode) ==
  /\ op.step = "idle"
  /\ tenant = "ACTIVO"
  /\ op' = [step |-> "list", mode |-> mode, cursor |-> {}, page |-> {},
            todo |-> {}, more |-> FALSE]
  /\ UNCHANGED <<outside, dbVars, offer, job, worker, left>>

ListPage ==
  /\ op.step = "list"
  /\ LET rows == After({a \in archived : Selected(op.mode, a)}, op.cursor)
         page == FirstOf(rows, Limit)
     IN op' = IF page = {} THEN NoOperation
              ELSE [op EXCEPT !.step = "clear", !.page = page, !.todo = page,
                              !.more = rows # page]
  /\ UNCHANGED <<outside, dbVars, offer, job, worker, left>>

(* clearPreviousJobs: the removals of a page run side by side.             *)
ClearJob(a) ==
  /\ op.step = "clear"
  /\ a \in op.todo
  /\ job' = Removed(a)
  /\ op' = [op EXCEPT !.todo = @ \ {a},
                      !.step = IF op.todo = {a} THEN "add" ELSE "clear"]
  /\ UNCHANGED <<outside, dbVars, offer, worker, left>>

ClearFails(a) ==
  /\ op.step = "clear"
  /\ a \in op.todo
  /\ Disrupt
  /\ op' = [op EXCEPT !.todo = @ \ {a},
                      !.step = IF op.todo = {a} THEN "add" ELSE "clear"]
  /\ UNCHANGED <<outside, dbVars, offer, job, worker>>

AddPage ==
  /\ op.step = "add"
  /\ job' = Added(op.page, op.mode = "all")
  /\ op' = IF op.more
           THEN [op EXCEPT !.step = "list", !.page = {},
                           !.cursor = {a \in op.page : \A b \in op.page : b <= a}]
           ELSE NoOperation
  /\ UNCHANGED <<outside, dbVars, offer, worker, left>>

(* 503, or the backfill gives this tenant up.                              *)
AddRefused ==
  /\ op.step = "add"
  /\ Disrupt
  /\ op' = NoOperation
  /\ UNCHANGED <<outside, dbVars, offer, job, worker>>

-----------------------------------------------------------------------------
(* People, the disk and deployments.                                       *)

UpdateClassification(a, m) ==
  /\ a \in Documents
  /\ book' = [book EXCEPT ![a].manual = m]
  /\ UNCHANGED <<outside, ledger, offer, job, op, worker, left>>

FileLost(a) ==
  /\ a \in archived
  /\ file[a]
  /\ Disrupt
  /\ file' = [file EXCEPT ![a] = FALSE]
  /\ UNCHANGED <<tenant, parser, archived, dbVars, offer, job, op, worker>>

FileRestored(a) ==
  /\ ~file[a]
  /\ file' = [file EXCEPT ![a] = TRUE]
  /\ UNCHANGED <<tenant, parser, archived, dbVars, offer, job, op, worker, left>>

SetTenant(status) ==
  /\ tenant # status
  /\ status = "ACTIVO" \/ left > 0
  /\ left' = IF status = "ACTIVO" THEN left ELSE left - 1
  /\ tenant' = status
  /\ UNCHANGED <<parser, archived, file, dbVars, offer, job, op, worker>>

(* worker.close() waits for the jobs under way before the process ends.    *)
Deploy ==
  /\ parser < MaxParser
  /\ \A w \in Worker : worker[w].step = "idle"
  /\ parser' = parser + 1
  /\ UNCHANGED <<tenant, archived, file, dbVars, offer, job, op, worker, left>>

-----------------------------------------------------------------------------
WorkerStep(w) ==
  \/ \E a \in Attachment : Take(w, a)
  \/ CheckTenant(w) \/ CheckLedger(w) \/ ReadFile(w) \/ RecordFailure(w)
  \/ FindOwn(w) \/ Persist(w) \/ FindCanonical(w) \/ RecordDuplicate(w)

Reprocess == ListPage \/ (\E a \in Attachment : ClearJob(a)) \/ AddPage

Disruption ==
  \/ \E w \in Worker : PartyClash(w) \/ InfraFailure(w) \/ Crash(w) \/ LoseLock(w)
  \/ \E a \in Attachment : LoseLot(a) \/ ClearFails(a) \/ FileLost(a)
  \/ AddRefused

Next ==
  \/ \E a \in Attachment : Archive(a) \/ EnqueueFromSync(a) \/ Stalled(a)
                           \/ FileRestored(a)
  \/ \E w \in Worker : WorkerStep(w)
  \/ \E mode \in Modes : StartReprocess(mode)
  \/ Reprocess
  \/ \E a \in Attachment, m \in Marks : UpdateClassification(a, m)
  \/ \E status \in {"ACTIVO", "SUSPENDIDO"} : SetTenant(status)
  \/ Deploy
  \/ Disruption

Spec == Init /\ [][Next]_vars

(* The worker and the queue keep running, the sync and a reprocessing      *)
(* under way go on to their end. The queue is first in, first out: a job   *)
(* that waits, or is put back to wait again, gets its turn (SF).           *)
Fairness ==
  /\ \A w \in Worker : WF_vars(WorkerStep(w))
  /\ \A a \in Attachment : SF_vars(\E w \in Worker : Take(w, a))
  /\ \A a \in Attachment : WF_vars(EnqueueFromSync(a)) /\ WF_vars(Stalled(a))
  /\ WF_vars(Reprocess)

(* Somebody asks for the failed ones again whenever nothing is under way.  *)
OperatorReturns == WF_vars(StartReprocess("failed"))

FairSpec == Spec /\ Fairness /\ OperatorReturns

-----------------------------------------------------------------------------
(* Type invariant.                                                         *)
TypeOK ==
  /\ tenant \in {"ACTIVO", "SUSPENDIDO"}
  /\ parser \in 1..MaxParser
  /\ archived \subseteq Attachment
  /\ file \in [Attachment -> BOOLEAN]
  /\ ledger \in [Attachment -> LedgerRow]
  /\ book \in [Attachment -> Document]
  /\ offer \subseteq archived
  /\ job \in [Attachment -> Job]
  /\ op \in Operation
  /\ worker \in [Worker -> Slot]
  /\ left \in Nat

(* A ledger row that says PARSEADO or DUPLICADO points at a document of    *)
(* the book with the code of its file: its own one if PARSEADO, read by    *)
(* the same parser version, another attachment's if DUPLICADO. Persisting  *)
(* and recording a duplicate are separate transactions of several workers. *)
LedgerPointsAtBook ==
  \A a \in Attachment :
    /\ ledger[a].status = "PARSEADO" =>
         ledger[a].doc = a /\ book[a].version = ledger[a].version
    /\ ledger[a].status = "DUPLICADO" =>
         /\ ledger[a].doc \in Documents \ {a}
         /\ CodeOf[ledger[a].doc] = CodeOf[a]
    /\ ledger[a].status \notin {"PARSEADO", "DUPLICADO"} =>
         ledger[a].doc = NoDoc

(* A document of the book was recorded by the ledger and, unless a later   *)
(* reading of its file failed, the ledger still shows it: re-parsing never *)
(* turns the canonical attachment into a duplicate or forgets it.          *)
DocumentIsAccounted ==
  \A a \in Documents :
    /\ a \in archived
    /\ ledger[a].status \in Outcome
    /\ ledger[a].status = "PARSEADO" \/ ledger[a].version >= book[a].version

(* One document per codigoGeneracion, from one attachment for ever.         *)
Canonical(c) == {a \in Documents : CodeOf[a] = c}

Contract == INSTANCE BookContract WITH source <- [c \in Code |-> Canonical(c)]

ImplementsContract == Contract!Spec

(* No re-parse, duplicate or retry changes the manual classification of a  *)
(* document: only updateClassification does.                               *)
ClassificationIsKept ==
  [][\A a \in Documents : \/ book'[a].manual = book[a].manual
                          \/ UpdateClassification(a, book'[a].manual)]_book

(* If in the end the tenant stays active, the file is there and somebody   *)
(* repeats the reprocessing of what failed, every archived attachment ends *)
(* with what the current parser makes of it in the ledger, whatever lots,  *)
(* jobs and workers were lost and whatever an earlier reading gave.        *)
EveryFileIsRead ==
  \A a \in Attachment :
    <>(a \in archived) /\ <>[](tenant = "ACTIVO" /\ file[a])
      => <>[](/\ ledger[a].status \in {Reading[a][parser], "DUPLICADO"}
              /\ ledger[a].version = parser)

(* A page of a reprocessing leaves out no attachment that matches and lies *)
(* between its cursor and its last one, whatever was parsed since the page *)
(* before (backfill-purchase-book.ts:73, ReprocessButton.tsx:32).          *)
PagesLeaveNothingOut ==
  [][op.step = "list" /\ op'.step \in {"idle", "clear"}
       => \A a \in archived :
            Selected(op.mode, a) /\ (\A c \in op.cursor : a > c)
              => a \in op'.page \/ \E b \in op'.page : b < a]_op
=============================================================================
