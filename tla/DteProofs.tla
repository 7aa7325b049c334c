------------------------------ MODULE DteProofs ------------------------------
(* Theorems about the purchase book, for every number of attachments,      *)
(* workers, pages and failures.                                            *)
EXTENDS DtePipeline, TLAPS

(* Only archived attachments are queued, paged and read.                   *)
Sources ==
  /\ \A a \in Attachment : job[a].state # "none" => a \in archived
  /\ op.page \subseteq archived
  /\ Documents \subseteq archived

(* A job that can run has attempts left, and only a running one is owned.  *)
JobsSound ==
  \A a \in Attachment :
    /\ job[a].state \in {"waiting", "active"} => job[a].tries < Attempts
    /\ job[a].owner # NoWorker => job[a].state = "active"

(* What a worker remembers between two awaits is still so.                 *)
MemoryOf(w) ==
  /\ worker[w].step # "idle" => worker[w].on \in archived
  /\ worker[w].step = "fail" => worker[w].result # "PARSEADO"
  /\ worker[w].step = "commit" /\ worker[w].seen # 0
       => worker[w].on \in Documents
  /\ worker[w].step = "duplicate" => worker[w].seen \in Others(worker[w].on)

Remembered == \A w \in Worker : MemoryOf(w)

OneDocument ==
  \A a \in Documents, b \in Documents : CodeOf[a] = CodeOf[b] => a = b

(* Nothing was read by a parser that is still to come.                     *)
UpToDate == \A a \in Attachment : book[a].version <= parser

BookInv == /\ TypeOK /\ JobsSound /\ Sources /\ Remembered /\ OneDocument /\ UpToDate
           /\ LedgerPointsAtBook /\ DocumentIsAccounted

-----------------------------------------------------------------------------
(* The helpers that change the queue and a worker.                         *)

Jobs == job \in [Attachment -> Job] /\ JobsSound
Slots == worker \in [Worker -> Slot]

LEMMA NoJobIsJob == NoJob \in Job
BY DEF NoJob, Job, Attempts

LEMMA IdleIsSlot == IdleSlot \in Slot
BY DEF IdleSlot, Slot, Step, Outcome, Retryable

(* The queue stays sound, and no attachment outside S gets a job.          *)
JobsOnlyFor(S) ==
  /\ Jobs'
  /\ \A a \in Attachment : job'[a].state # "none" => a \in S \/ job[a].state # "none"

LEMMA AddedJobs ==
  ASSUME Jobs, NEW S, NEW force \in BOOLEAN, job' = Added(S, force)
  PROVE  JobsOnlyFor(S)
<1>1. NewJob(force) \in Job
  BY DEF Job, Attempts, NewJob
<1>2. QED
  BY <1>1 DEF Added, NewJob, Jobs, JobsSound, JobsOnlyFor, Attempts

LEMMA RemovedJobs ==
  ASSUME Jobs, NEW a \in Attachment, job' = Removed(a)
  PROVE  JobsOnlyFor({})
BY NoJobIsJob DEF Jobs, JobsSound, JobsOnlyFor, Removed, NoJob

(* One worker moved, the others are where they were.                       *)
OnlyOf(w) == /\ Slots'
             /\ \A v \in Worker \ {w} : worker'[v] = worker[v]

LEMMA CompleteStep ==
  ASSUME Jobs, Slots, NEW w \in Worker, Complete(w)
  PROVE  OnlyOf(w) /\ worker'[w].step = "idle" /\ JobsOnlyFor({})
<1>1. OnlyOf(w) /\ worker'[w].step = "idle"
  BY IdleIsSlot DEF Slots, Complete, OnlyOf, IdleSlot
<1>2. JobsOnlyFor({})
  BY NoJobIsJob DEF Jobs, JobsSound, Complete, JobsOnlyFor, NoJob
<1>3. QED BY <1>1, <1>2

LEMMA GoToStep ==
  ASSUME Jobs, Slots, NEW w \in Worker, NEW step \in Step, GoTo(w, step)
  PROVE  /\ OnlyOf(w) /\ JobsOnlyFor({})
         /\ worker'[w] = [worker[w] EXCEPT !.step = step]
<1>1. JobsOnlyFor({})
  BY DEF Jobs, JobsSound, GoTo, JobsOnlyFor
<1>2. QED BY <1>1 DEF Slots, Slot, GoTo, OnlyOf

LEMMA FailStep ==
  ASSUME Jobs, Slots, NEW w \in Worker, Fail(w)
  PROVE  OnlyOf(w) /\ worker'[w].step = "idle" /\ JobsOnlyFor({})
<1>1. OnlyOf(w) /\ worker'[w].step = "idle"
  BY IdleIsSlot DEF Slots, Fail, OnlyOf, IdleSlot
<1>2. JobsOnlyFor({})
  <2> DEFINE a == worker[w].on
             next == [state |-> IF job[a].tries + 1 < Attempts THEN "waiting"
                                ELSE "failed",
                      force |-> job[a].force, tries |-> job[a].tries + 1,
                      stalls |-> job[a].stalls, owner |-> NoWorker]
  <2>1. CASE job[a].owner # w
    BY <2>1 DEF Fail, Jobs, JobsSound, JobsOnlyFor
  <2>2. CASE job[a].owner = w /\ a \notin Attachment
    BY <2>2 DEF Fail, Jobs, JobsSound, JobsOnlyFor
  <2>3. CASE job[a].owner = w /\ a \in Attachment
    <3>1. job[a].state = "active" /\ job[a].tries \in 0..Attempts
          /\ job[a].tries < Attempts /\ job[a].stalls \in 0..1
          /\ job[a].force \in BOOLEAN
      BY <2>3, PipelineAssumption DEF Jobs, JobsSound, Job
    <3>2. next \in Job /\ (next.state = "waiting" => next.tries < Attempts)
      BY <3>1 DEF Job, Attempts
    <3>3. job' = [job EXCEPT ![a] = next]
      BY <2>3 DEF Fail, Jobs, Job
    <3>4. QED
      BY <2>3, <3>1, <3>2, <3>3 DEF Jobs, JobsSound, JobsOnlyFor
  <2>4. QED BY <2>1, <2>2, <2>3
<1>3. QED BY <1>1, <1>2

-----------------------------------------------------------------------------
(* Steps that leave the ledger and the book alone.                         *)

DbKept == UNCHANGED <<dbVars, parser, archived>>

LEMMA DbKeptStep ==
  ASSUME BookInv, DbKept, TypeOK', JobsSound', Sources', Remembered'
  PROVE  BookInv'
<1>1. OneDocument' /\ UpToDate'
  BY DEF BookInv, OneDocument, UpToDate, Documents, DbKept, dbVars
<1>2. LedgerPointsAtBook' /\ DocumentIsAccounted'
  BY DEF BookInv, LedgerPointsAtBook, DocumentIsAccounted, Documents, DbKept, dbVars
<1>3. QED BY <1>1, <1>2 DEF BookInv

(* The rest of the system as a step of a worker leaves it.                 *)
Elsewhere == UNCHANGED <<outside, dbVars, offer, op>> /\ left' \in Nat

LEMMA WorkerStepKeeps ==
  ASSUME BookInv, NEW w \in Worker, Elsewhere, OnlyOf(w), JobsOnlyFor(archived),
         MemoryOf(w)'
  PROVE  BookInv'
<1>1. TypeOK' /\ JobsSound'
  BY DEF BookInv, TypeOK, Elsewhere, outside, dbVars, OnlyOf, Slots, JobsOnlyFor, Jobs
<1>2. Sources'
  BY DEF BookInv, Sources, Documents, Elsewhere, outside, dbVars, JobsOnlyFor, TypeOK
<1>3. ASSUME NEW v \in Worker PROVE MemoryOf(v)'
  <2>1. CASE v = w BY <2>1
  <2>2. CASE v # w
    <3>1. worker'[v] = worker[v] BY <2>2 DEF OnlyOf
    <3>2. MemoryOf(v) BY DEF BookInv, Remembered
    <3>3. QED
      BY <3>1, <3>2 DEF MemoryOf, Documents, Others, Elsewhere, outside, dbVars
  <2>3. QED BY <2>1, <2>2
<1>4. QED
  BY <1>1, <1>2, <1>3, DbKeptStep DEF Remembered, DbKept, Elsewhere, outside

(* A worker that goes idle remembers nothing.                              *)
LEMMA IdleKeeps ==
  ASSUME BookInv, NEW w \in Worker, Elsewhere, OnlyOf(w), JobsOnlyFor({}),
         worker'[w].step = "idle"
  PROVE  BookInv'
<1>1. MemoryOf(w)' BY DEF MemoryOf
<1>2. JobsOnlyFor(archived) BY DEF JobsOnlyFor
<1>3. QED BY <1>1, <1>2, WorkerStepKeeps

(* The queue and a reprocessing move, the workers do not.                  *)
LEMMA QueueStepKeeps ==
  ASSUME BookInv, DbKept, UNCHANGED worker, JobsOnlyFor(archived),
         tenant' \in {"ACTIVO", "SUSPENDIDO"}, file' \in [Attachment -> BOOLEAN],
         offer' \subseteq archived, op' \in Operation, op'.page \subseteq archived,
         left' \in Nat
  PROVE  BookInv'
<1>1. TypeOK' /\ JobsSound'
  BY DEF BookInv, TypeOK, DbKept, dbVars, JobsOnlyFor, Jobs
<1>2. Sources'
  BY DEF BookInv, Sources, Documents, DbKept, dbVars, JobsOnlyFor, TypeOK
<1>3. Remembered'
  BY DEF BookInv, Remembered, MemoryOf, Documents, Others, DbKept, dbVars
<1>4. QED BY <1>1, <1>2, <1>3, DbKeptStep

LEMMA BookInvParts ==
  ASSUME BookInv
  PROVE  /\ Jobs /\ Slots /\ left \in Nat /\ op \in Operation
         /\ archived \subseteq Attachment /\ offer \subseteq archived
         /\ op.page \subseteq archived /\ JobsSound
         /\ tenant \in {"ACTIVO", "SUSPENDIDO"} /\ file \in [Attachment -> BOOLEAN]
         /\ \A w \in Worker : MemoryOf(w)
BY DEF BookInv, TypeOK, Jobs, Slots, Sources, Remembered

LEMMA DisruptLeft ==
  ASSUME left \in Nat, Disrupt
  PROVE  left' \in Nat
BY DEF Disrupt

-----------------------------------------------------------------------------
(* The queue: sync, stalled jobs, reprocessing.                            *)

LEMMA EnqueueKeeps ==
  ASSUME BookInv, NEW a \in Attachment, EnqueueFromSync(a) \/ LoseLot(a)
  PROVE  BookInv'
<1>1. CASE EnqueueFromSync(a)
  <2>1. JobsOnlyFor({a}) /\ a \in archived
    BY <1>1, AddedJobs, BookInvParts DEF EnqueueFromSync
  <2>2. JobsOnlyFor(archived) BY <2>1 DEF JobsOnlyFor
  <2>3. QED
    BY <1>1, <2>2, QueueStepKeeps, BookInvParts
       DEF EnqueueFromSync, DbKept, outside
<1>2. CASE LoseLot(a)
  <2>1. JobsOnlyFor(archived)
    BY <1>2, BookInvParts DEF LoseLot, JobsOnlyFor, Jobs, JobsSound
  <2>2. QED
    BY <1>2, <2>1, QueueStepKeeps, BookInvParts, DisruptLeft
       DEF LoseLot, DbKept, outside
<1>3. QED BY <1>1, <1>2

LEMMA StalledKeeps ==
  ASSUME BookInv, NEW a \in Attachment, Stalled(a)
  PROVE  BookInv'
<1> DEFINE state == IF job[a].stalls = 0 THEN "waiting" ELSE "failed"
           next == [state |-> state, force |-> job[a].force,
                    tries |-> job[a].tries, stalls |-> 1, owner |-> NoWorker]
<1>1. /\ Jobs /\ job[a].tries < Attempts /\ job[a] \in Job
      /\ job[a].owner = NoWorker /\ job[a].state = "active"
      /\ job' = [job EXCEPT ![a].state = state, ![a].stalls = 1]
  BY BookInvParts DEF Stalled, Jobs, JobsSound
<1>2. JobsOnlyFor(archived)
  <2>1. state \in {"waiting", "failed"}
    OBVIOUS
  <2> HIDE DEF state
  <2>2. next \in Job /\ next.state = state /\ next.owner = NoWorker
        /\ next.tries = job[a].tries
    BY <1>1, <2>1 DEF Job
  <2>3. job' = [job EXCEPT ![a] = next]
    <3>1. job[a] = [state |-> job[a].state, force |-> job[a].force,
                    tries |-> job[a].tries, stalls |-> job[a].stalls,
                    owner |-> NoWorker]
      BY <1>1 DEF Job
    <3>2. /\ job'[a] = next
          /\ DOMAIN job' = Attachment
          /\ \A b \in Attachment \ {a} : job'[b] = job[b]
      BY <1>1, <3>1 DEF Jobs
    <3>3. QED BY <1>1, <3>2 DEF Jobs
  <2> HIDE DEF next
  <2>4. QED
    BY <1>1, <2>1, <2>2, <2>3 DEF JobsOnlyFor, Jobs, JobsSound
<1>3. QED
  BY <1>2, QueueStepKeeps, BookInvParts DEF Stalled, DbKept, outside

LEMMA OpOnlyKeeps ==
  ASSUME BookInv, UNCHANGED <<outside, dbVars, offer, job, worker>>,
         left' \in Nat, op' \in Operation, op'.page \subseteq archived
  PROVE  BookInv'
<1>1. JobsOnlyFor(archived)
  BY BookInvParts DEF JobsOnlyFor, Jobs, JobsSound
<1>2. QED BY <1>1, QueueStepKeeps, BookInvParts DEF DbKept, outside

LEMMA NoOperationTyped == NoOperation \in Operation /\ NoOperation.page = {}
BY DEF NoOperation, Operation, Mode

LEMMA ListKeeps ==
  ASSUME BookInv, ListPage \/ (\E mode \in Modes : StartReprocess(mode)) \/ AddRefused
  PROVE  BookInv'
<1>1. CASE ListPage
  <2> DEFINE rows == After({a \in archived : Selected(op.mode, a)}, op.cursor)
             page == FirstOf(rows, Limit)
  <2>1. rows \subseteq archived
    BY DEF After
  <2>2. page \subseteq archived
    BY <2>1 DEF FirstOf
  <2>3. op' = IF page = {} THEN NoOperation
              ELSE [op EXCEPT !.step = "clear", !.page = page, !.todo = page,
                              !.more = rows # page]
    BY <1>1 DEF ListPage
  <2>4. op \in Operation /\ archived \subseteq Attachment BY BookInvParts
  <2>5. op' \in Operation /\ op'.page \subseteq archived
    <3> HIDE DEF rows, page
    <3>1. CASE page = {} BY <3>1, <2>3, NoOperationTyped
    <3>2. CASE page # {}
      BY <3>2, <2>2, <2>3, <2>4 DEF Operation
    <3>3. QED BY <3>1, <3>2
  <2>6. QED BY <1>1, <2>5, OpOnlyKeeps, BookInvParts DEF ListPage
<1>2. CASE \E mode \in Modes : StartReprocess(mode)
  <2>1. PICK mode \in Modes : StartReprocess(mode) BY <1>2
  <2>2. op' \in Operation /\ op'.page \subseteq archived
    BY <2>1, PipelineAssumption DEF StartReprocess, Operation
  <2>3. QED BY <2>1, <2>2, OpOnlyKeeps, BookInvParts DEF StartReprocess
<1>3. CASE AddRefused
  BY <1>3, NoOperationTyped, OpOnlyKeeps, BookInvParts, DisruptLeft DEF AddRefused
<1>4. QED BY <1>1, <1>2, <1>3

LEMMA ClearKeeps ==
  ASSUME BookInv, NEW a \in Attachment, ClearJob(a) \/ ClearFails(a)
  PROVE  BookInv'
<1>1. op' \in Operation /\ op'.page \subseteq archived
  BY BookInvParts DEF ClearJob, ClearFails, Operation
<1>2. CASE ClearJob(a)
  <2>1. JobsOnlyFor({}) BY <1>2, RemovedJobs, BookInvParts DEF ClearJob
  <2>2. JobsOnlyFor(archived) BY <2>1 DEF JobsOnlyFor
  <2>3. QED
    BY <1>1, <1>2, <2>2, QueueStepKeeps, BookInvParts
       DEF ClearJob, DbKept, outside
<1>3. CASE ClearFails(a)
  BY <1>1, <1>3, OpOnlyKeeps, BookInvParts, DisruptLeft DEF ClearFails
<1>4. QED BY <1>2, <1>3

LEMMA AddKeeps ==
  ASSUME BookInv, AddPage
  PROVE  BookInv'
<1>1. op \in Operation /\ op.page \subseteq archived BY BookInvParts
<1>2. JobsOnlyFor(op.page)
  BY AddedJobs, BookInvParts DEF AddPage
<1>3. JobsOnlyFor(archived) BY <1>1, <1>2 DEF JobsOnlyFor
<1>4. op' \in Operation /\ op'.page \subseteq archived
  <2>1. CASE op.more
    BY <2>1, <1>1 DEF AddPage, Operation
  <2>2. CASE ~op.more
    BY <2>2, NoOperationTyped DEF AddPage
  <2>3. QED BY <2>1, <2>2
<1>5. QED
  BY <1>3, <1>4, QueueStepKeeps, BookInvParts DEF AddPage, DbKept, outside

-----------------------------------------------------------------------------
(* The workers between two writes.                                         *)

LEMMA OnAttachment ==
  ASSUME BookInv, NEW w \in Worker, worker[w].step # "idle"
  PROVE  worker[w].on \in archived /\ worker[w].on \in Attachment
BY BookInvParts DEF MemoryOf

LEMMA TakeKeeps ==
  ASSUME BookInv, NEW w \in Worker, NEW a \in Attachment, Take(w, a)
  PROVE  BookInv'
<1>1. Jobs /\ Slots /\ left \in Nat /\ job[a] \in Job /\ a \in archived
  BY BookInvParts DEF Jobs, Take, BookInv, Sources
<1>2. JobsOnlyFor(archived)
  BY <1>1 DEF Take, Jobs, JobsSound, JobsOnlyFor, Job
<1>3. OnlyOf(w) /\ worker'[w].step = "tenant" /\ worker'[w].on = a
  BY <1>1 DEF Take, Slots, OnlyOf, Slot, Step, Outcome, Retryable, Job
<1>4. MemoryOf(w)'
  BY <1>1, <1>3 DEF MemoryOf, Take, outside
<1>5. QED
  BY <1>1, <1>2, <1>3, <1>4, WorkerStepKeeps DEF Take, Elsewhere, outside

LEMMA CompleteKeeps ==
  ASSUME BookInv, NEW w \in Worker, Complete(w), Elsewhere
  PROVE  BookInv'
BY CompleteStep, IdleKeeps, BookInvParts

LEMMA FailKeeps ==
  ASSUME BookInv, NEW w \in Worker, Fail(w), Elsewhere
  PROVE  BookInv'
BY FailStep, IdleKeeps, BookInvParts

LEMMA GoToKeeps ==
  ASSUME BookInv, NEW w \in Worker, worker[w].step # "idle",
         NEW step \in {"ledger", "read", "canonical"},
         GoTo(w, step), Elsewhere
  PROVE  BookInv'
<1>1. /\ OnlyOf(w) /\ JobsOnlyFor({})
      /\ worker'[w] = [worker[w] EXCEPT !.step = step]
  BY GoToStep, BookInvParts DEF Step
<1>2. worker[w] \in Slot BY BookInvParts DEF Slots
<1>3. worker'[w].step = step /\ worker'[w].on = worker[w].on
  BY <1>1, <1>2 DEF Slot
<1>4. MemoryOf(w)'
  BY <1>3, OnAttachment DEF MemoryOf, Elsewhere, outside
<1>5. QED
  BY <1>1, <1>4, WorkerStepKeeps DEF JobsOnlyFor

LEMMA CheckKeeps ==
  ASSUME BookInv, NEW w \in Worker, CheckTenant(w) \/ CheckLedger(w)
  PROVE  BookInv'
<1>1. Elsewhere /\ worker[w].step # "idle"
  BY BookInvParts DEF CheckTenant, CheckLedger, Elsewhere, outside
<1>2. Complete(w) \/ \E step \in {"ledger", "read"} : GoTo(w, step)
  BY DEF CheckTenant, CheckLedger
<1>3. QED BY <1>1, <1>2, CompleteKeeps, GoToKeeps

(* A worker that stays on its attachment with other fields changed.        *)
LEMMA ReadKeeps ==
  ASSUME BookInv, NEW w \in Worker, ReadFile(w)
  PROVE  BookInv'
<1> DEFINE a == worker[w].on
           result == IF file[a] THEN Reading[a][parser] ELSE "ARCHIVO_FALTANTE"
           step == IF result = "PARSEADO" THEN "find" ELSE "fail"
<1>1. /\ a \in archived /\ a \in Attachment /\ Elsewhere /\ UNCHANGED job
      /\ worker' = [worker EXCEPT ![w].result = result, ![w].step = step]
  BY OnAttachment, BookInvParts DEF ReadFile, Elsewhere, outside
<1>2. result \in Outcome
  <2>1. parser \in 1..MaxParser BY DEF BookInv, TypeOK
  <2>2. Reading[a][parser] \in Outcome BY <1>1, <2>1, PipelineAssumption
  <2>3. QED BY <2>2 DEF Outcome, Retryable
<1>3. step \in {"find", "fail"} /\ (step = "fail" => result # "PARSEADO")
  OBVIOUS
<1> HIDE DEF result, step
<1>4. Slots /\ worker[w] \in Slot BY BookInvParts DEF Slots
<1>5. /\ OnlyOf(w)
      /\ worker'[w].step = step /\ worker'[w].result = result /\ worker'[w].on = a
  BY <1>1, <1>2, <1>3, <1>4 DEF OnlyOf, Slots, Slot, Step
<1>6. MemoryOf(w)'
  BY <1>1, <1>3, <1>5 DEF MemoryOf, Elsewhere, outside
<1>7. JobsOnlyFor(archived)
  BY <1>1, BookInvParts DEF JobsOnlyFor, Jobs, JobsSound
<1>8. QED BY <1>1, <1>5, <1>6, <1>7, WorkerStepKeeps

LEMMA FindKeeps ==
  ASSUME BookInv, NEW w \in Worker, FindOwn(w)
  PROVE  BookInv'
<1> DEFINE a == worker[w].on
           seen == IF a \in Documents THEN a ELSE 0
<1>1. /\ a \in archived /\ a \in Attachment /\ Elsewhere /\ UNCHANGED job
      /\ worker' = [worker EXCEPT ![w].step = "commit", ![w].seen = seen]
  BY OnAttachment, BookInvParts DEF FindOwn, Elsewhere, outside
<1>2. seen \in Attachment \cup {0} /\ (seen # 0 => a \in Documents)
  BY <1>1
<1> HIDE DEF seen
<1>4. Slots /\ worker[w] \in Slot BY BookInvParts DEF Slots
<1>5. /\ OnlyOf(w)
      /\ worker'[w].step = "commit" /\ worker'[w].seen = seen /\ worker'[w].on = a
  BY <1>1, <1>2, <1>4 DEF OnlyOf, Slots, Slot, Step
<1>6. MemoryOf(w)'
  BY <1>1, <1>2, <1>5 DEF MemoryOf, Elsewhere, outside, dbVars, Documents
<1>7. JobsOnlyFor(archived)
  BY <1>1, BookInvParts DEF JobsOnlyFor, Jobs, JobsSound
<1>8. QED BY <1>1, <1>5, <1>6, <1>7, WorkerStepKeeps

LEMMA CanonicalKeeps ==
  ASSUME BookInv, NEW w \in Worker, FindCanonical(w)
  PROVE  BookInv'
<1>1. Elsewhere BY BookInvParts DEF FindCanonical, Elsewhere, outside
<1>2. CASE Fail(w) BY <1>1, <1>2, FailKeeps
<1>3. ASSUME NEW b \in Others(worker[w].on),
             worker' = [worker EXCEPT ![w].step = "duplicate", ![w].seen = b],
             UNCHANGED job
      PROVE BookInv'
  <2>1. worker[w].on \in archived /\ worker[w].on \in Attachment
    BY OnAttachment DEF FindCanonical
  <2>2. b \in Attachment BY DEF Others, Documents
  <2>3. Slots /\ worker[w] \in Slot BY BookInvParts DEF Slots
  <2>4. /\ OnlyOf(w) /\ worker'[w].on = worker[w].on
        /\ worker'[w].step = "duplicate" /\ worker'[w].seen = b
    BY <1>3, <2>2, <2>3 DEF OnlyOf, Slots, Slot, Step
  <2>5. MemoryOf(w)'
    BY <1>1, <1>3, <2>1, <2>4
       DEF MemoryOf, Elsewhere, outside, dbVars, Documents, Others
  <2>6. JobsOnlyFor(archived)
    BY <1>3, BookInvParts DEF JobsOnlyFor, Jobs, JobsSound
  <2>7. QED BY <1>1, <2>4, <2>5, <2>6, WorkerStepKeeps
<1>4. QED BY <1>2, <1>3 DEF FindCanonical

LEMMA MishapKeeps ==
  ASSUME BookInv, NEW w \in Worker,
         PartyClash(w) \/ InfraFailure(w) \/ Crash(w) \/ LoseLock(w)
  PROVE  BookInv'
<1>1. Elsewhere /\ worker[w].step # "idle"
  BY BookInvParts, DisruptLeft
     DEF PartyClash, InfraFailure, Crash, LoseLock, Elsewhere
<1>2. CASE PartyClash(w) BY <1>1, <1>2, GoToKeeps DEF PartyClash
<1>3. CASE InfraFailure(w) BY <1>1, <1>3, FailKeeps DEF InfraFailure
<1>4. Jobs /\ Slots BY BookInvParts
<1>5. CASE Crash(w)
  <2>1. OnlyOf(w) /\ worker'[w].step = "idle"
    BY <1>4, <1>5, IdleIsSlot DEF Crash, Slots, OnlyOf, IdleSlot
  <2>2. JobsOnlyFor({})
    BY <1>4, <1>5 DEF Crash, Jobs, JobsSound, JobsOnlyFor, Job
  <2>3. QED BY <1>1, <2>1, <2>2, IdleKeeps
<1>6. CASE LoseLock(w)
  <2>1. JobsOnlyFor(archived)
    BY <1>4, <1>6, OnAttachment DEF LoseLock, Jobs, JobsSound, JobsOnlyFor, Job
  <2>2. QED
    BY <1>1, <1>6, <2>1, QueueStepKeeps, BookInvParts
       DEF LoseLock, DbKept, Elsewhere, outside
<1>7. QED BY <1>2, <1>3, <1>5, <1>6

-----------------------------------------------------------------------------
(* The steps that write.                                                   *)

LEMMA OutsideKeeps ==
  ASSUME BookInv,
         \/ \E a \in Attachment : FileLost(a) \/ FileRestored(a)
         \/ \E status \in {"ACTIVO", "SUSPENDIDO"} : SetTenant(status)
  PROVE  BookInv'
<1>1. /\ DbKept /\ UNCHANGED <<worker, job, op, offer>> /\ left' \in Nat
      /\ tenant' \in {"ACTIVO", "SUSPENDIDO"} /\ file' \in [Attachment -> BOOLEAN]
  <2>1. CASE \E a \in Attachment : FileLost(a) \/ FileRestored(a)
    <3>1. PICK a \in Attachment : FileLost(a) \/ FileRestored(a) BY <2>1
    <3>2. CASE FileLost(a)
      BY <3>2, BookInvParts, DisruptLeft DEF FileLost, DbKept
    <3>3. CASE FileRestored(a)
      BY <3>3, BookInvParts DEF FileRestored, DbKept
    <3>4. QED BY <3>1, <3>2, <3>3
  <2>2. CASE \E status \in {"ACTIVO", "SUSPENDIDO"} : SetTenant(status)
    BY <2>2, BookInvParts DEF SetTenant, DbKept
  <2>3. QED BY <2>1, <2>2
<1>2. JobsOnlyFor(archived)
  BY <1>1, BookInvParts DEF JobsOnlyFor, Jobs, JobsSound
<1>3. QED BY <1>1, <1>2, QueueStepKeeps, BookInvParts

LEMMA ArchiveKeeps ==
  ASSUME BookInv, NEW a \in Attachment, Archive(a)
  PROVE  BookInv'
<1>1. TypeOK' /\ JobsSound'
  BY DEF BookInv, TypeOK, JobsSound, Archive
<1>2. Sources'
  BY DEF BookInv, Sources, Archive, Documents
<1>3. Remembered'
  BY DEF BookInv, Remembered, MemoryOf, Documents, Others, Archive
<1>4. OneDocument' /\ UpToDate' /\ LedgerPointsAtBook'
  BY DEF BookInv, OneDocument, UpToDate, LedgerPointsAtBook, Documents, Archive
<1>5. DocumentIsAccounted'
  BY DEF BookInv, DocumentIsAccounted, Documents, Archive
<1>6. QED BY <1>1, <1>2, <1>3, <1>4, <1>5 DEF BookInv

LEMMA DeployKeeps ==
  ASSUME BookInv, Deploy
  PROVE  BookInv'
<1>1. TypeOK' /\ JobsSound'
  BY PipelineAssumption DEF BookInv, TypeOK, JobsSound, Deploy, dbVars
<1>2. Sources' /\ Remembered'
  BY DEF BookInv, Sources, Remembered, MemoryOf, Documents, Others, Deploy, dbVars
<1>3. OneDocument' /\ LedgerPointsAtBook' /\ DocumentIsAccounted'
  BY DEF BookInv, OneDocument, LedgerPointsAtBook, DocumentIsAccounted,
         Documents, Deploy, dbVars
<1>4. UpToDate'
  BY PipelineAssumption DEF BookInv, TypeOK, Document, UpToDate, Deploy, dbVars
<1>5. QED BY <1>1, <1>2, <1>3, <1>4 DEF BookInv

(* What stays when a worker writes and its job is complete.                *)
LEMMA WriteKeeps ==
  ASSUME BookInv, NEW w \in Worker, Complete(w), UNCHANGED <<outside, offer, op, left>>,
         ledger' \in [Attachment -> LedgerRow], book' \in [Attachment -> Document],
         Documents \subseteq Documents', Documents' \subseteq archived
  PROVE  TypeOK' /\ JobsSound' /\ Sources' /\ Remembered'
<1>1. OnlyOf(w) /\ worker'[w].step = "idle" /\ JobsOnlyFor({})
  BY CompleteStep, BookInvParts
<1>2. TypeOK' /\ JobsSound'
  BY <1>1 DEF BookInv, TypeOK, outside, OnlyOf, Slots, JobsOnlyFor, Jobs
<1>3. Sources'
  BY <1>1 DEF BookInv, Sources, JobsOnlyFor, outside
<1>4. ASSUME NEW v \in Worker PROVE MemoryOf(v)'
  <2>1. CASE v = w BY <1>1, <2>1 DEF MemoryOf
  <2>2. CASE v # w
    <3>1. worker'[v] = worker[v] BY <1>1, <2>2 DEF OnlyOf
    <3>2. MemoryOf(v) BY DEF BookInv, Remembered
    <3>3. Others(worker[v].on) \subseteq Others(worker[v].on)'
      BY <3>1 DEF Others
    <3>4. QED BY <3>1, <3>2, <3>3 DEF MemoryOf, outside
  <2>3. QED BY <2>1, <2>2
<1>5. QED BY <1>2, <1>3, <1>4 DEF Remembered

LEMMA UpsertedRow ==
  ASSUME BookInv, NEW a \in Attachment, NEW status \in LedgerStatus,
         NEW doc \in Attachment \cup {NoDoc}, ledger' = Upserted(a, status, doc)
  PROVE  /\ ledger' \in [Attachment -> LedgerRow]
         /\ ledger'[a] = [status |-> status, version |-> parser, doc |-> doc]
         /\ \A b \in Attachment \ {a} : ledger'[b] = ledger[b]
         /\ parser \in 1..MaxParser
BY PipelineAssumption DEF BookInv, TypeOK, Upserted, LedgerRow

LEMMA RecordFailureKeeps ==
  ASSUME BookInv, NEW w \in Worker, RecordFailure(w)
  PROVE  BookInv'
<1> DEFINE a == worker[w].on
<1>1. /\ a \in Attachment /\ a \in archived /\ worker[w].result # "PARSEADO"
      /\ worker[w].result \in Outcome
  BY OnAttachment, BookInvParts DEF RecordFailure, MemoryOf, Slots, Slot
<1>2. /\ ledger' \in [Attachment -> LedgerRow] /\ UNCHANGED <<book, parser>>
      /\ ledger'[a] = [status |-> worker[w].result, version |-> parser, doc |-> NoDoc]
      /\ \A b \in Attachment \ {a} : ledger'[b] = ledger[b]
  BY <1>1, UpsertedRow DEF RecordFailure, LedgerStatus, outside
<1>3. Documents' = Documents BY <1>2 DEF Documents
<1>4. TypeOK' /\ JobsSound' /\ Sources' /\ Remembered'
  BY <1>2, <1>3, WriteKeeps DEF RecordFailure, BookInv, Sources, TypeOK
<1>5. OneDocument' /\ UpToDate'
  BY <1>2, <1>3 DEF BookInv, OneDocument, UpToDate
<1>6. LedgerPointsAtBook'
  BY <1>1, <1>2, <1>3
     DEF BookInv, LedgerPointsAtBook, Outcome, Retryable
<1>7. DocumentIsAccounted'
  BY <1>1, <1>2, <1>3 DEF BookInv, DocumentIsAccounted, UpToDate, RecordFailure, outside, Documents
<1>8. QED BY <1>4, <1>5, <1>6, <1>7 DEF BookInv

LEMMA RecordDuplicateKeeps ==
  ASSUME BookInv, NEW w \in Worker, RecordDuplicate(w)
  PROVE  BookInv'
<1> DEFINE a == worker[w].on
           c == worker[w].seen
<1>1. /\ a \in Attachment /\ a \in archived
      /\ c \in Documents \ {a} /\ CodeOf[c] = CodeOf[a] /\ c \in Attachment
  BY OnAttachment, BookInvParts DEF RecordDuplicate, MemoryOf, Others, Documents
<1>2. /\ ledger' \in [Attachment -> LedgerRow] /\ UNCHANGED <<book, parser>>
      /\ ledger'[a] = [status |-> "DUPLICADO", version |-> parser, doc |-> c]
      /\ \A b \in Attachment \ {a} : ledger'[b] = ledger[b]
  BY <1>1, UpsertedRow DEF RecordDuplicate, LedgerStatus, outside
<1>3. Documents' = Documents BY <1>2 DEF Documents
<1>4. TypeOK' /\ JobsSound' /\ Sources' /\ Remembered'
  BY <1>2, <1>3, WriteKeeps DEF RecordDuplicate, BookInv, Sources, TypeOK
<1>5. OneDocument' /\ UpToDate'
  BY <1>2, <1>3 DEF BookInv, OneDocument, UpToDate
<1>6. a \notin Documents
  BY <1>1 DEF BookInv, OneDocument
<1>7. LedgerPointsAtBook'
  BY <1>1, <1>2, <1>3 DEF BookInv, LedgerPointsAtBook
<1>8. DocumentIsAccounted'
  BY <1>2, <1>3, <1>6 DEF BookInv, DocumentIsAccounted, RecordDuplicate, outside, Documents
<1>9. QED BY <1>4, <1>5, <1>7, <1>8 DEF BookInv

(* Persist writes the document of the attachment, or finds it taken.       *)
LEMMA PersistWrites ==
  ASSUME BookInv, NEW w \in Worker, NEW a \in Attachment, a = worker[w].on,
         a \in archived, worker[w].step = "commit", Complete(w),
         UNCHANGED <<outside, offer, op, left>>,
         ledger' = Upserted(a, "PARSEADO", a),
         book' \in [Attachment -> Document], book'[a].version = parser,
         \A b \in Attachment \ {a} : book'[b] = book[b],
         a \in Documents \/ ~Clash(a)
  PROVE  BookInv'
<1>1. /\ ledger' \in [Attachment -> LedgerRow] /\ parser' = parser
      /\ ledger'[a] = [status |-> "PARSEADO", version |-> parser, doc |-> a]
      /\ \A b \in Attachment \ {a} : ledger'[b] = ledger[b]
      /\ parser \in 1..MaxParser
  BY UpsertedRow DEF LedgerStatus, Outcome, outside
<1>2. Documents' = Documents \cup {a}
  BY <1>1, PipelineAssumption DEF Documents
<1>3. TypeOK' /\ JobsSound' /\ Sources' /\ Remembered'
  BY <1>1, <1>2, WriteKeeps DEF BookInv, Sources
<1>4. OneDocument'
  BY <1>2 DEF BookInv, OneDocument, Clash, Documents
<1>5. UpToDate'
  BY <1>1, PipelineAssumption DEF BookInv, UpToDate
<1>6. LedgerPointsAtBook'
  <2> SUFFICES ASSUME NEW b \in Attachment
      PROVE  /\ ledger'[b].status = "PARSEADO" =>
                  ledger'[b].doc = b /\ book'[b].version = ledger'[b].version
             /\ ledger'[b].status = "DUPLICADO" =>
                  /\ ledger'[b].doc \in Documents' \ {b}
                  /\ CodeOf[ledger'[b].doc] = CodeOf[b]
             /\ ledger'[b].status \notin {"PARSEADO", "DUPLICADO"} =>
                  ledger'[b].doc = NoDoc
    BY DEF LedgerPointsAtBook
  <2>1. CASE b = a BY <2>1, <1>1
  <2>2. CASE b # a
    BY <2>2, <1>1, <1>2 DEF BookInv, LedgerPointsAtBook
  <2>3. QED BY <2>1, <2>2
<1>7. DocumentIsAccounted'
  <2>1. SUFFICES ASSUME NEW b \in Documents'
        PROVE  /\ b \in archived' /\ ledger'[b].status \in Outcome
               /\ ledger'[b].status = "PARSEADO"
                    \/ ledger'[b].version >= book'[b].version
    BY DEF DocumentIsAccounted
  <2>2. CASE b = a BY <2>2, <1>1 DEF Outcome, outside
  <2>3. CASE b # a
    BY <2>1, <2>3, <1>1, <1>2 DEF BookInv, DocumentIsAccounted, outside, Documents
  <2>4. QED BY <2>2, <2>3
<1>8. QED BY <1>3, <1>4, <1>5, <1>6, <1>7 DEF BookInv

LEMMA PersistKeeps ==
  ASSUME BookInv, NEW w \in Worker, Persist(w)
  PROVE  BookInv'
<1> DEFINE a == worker[w].on
<1>1. /\ a \in Attachment /\ a \in archived /\ worker[w].step = "commit"
      /\ UNCHANGED <<outside, offer, op, left>>
      /\ book \in [Attachment -> Document] /\ parser \in 0..MaxParser
  BY OnAttachment, PipelineAssumption DEF Persist, BookInv, TypeOK
<1>2. ASSUME worker[w].seen # 0, book' = Reparsed(a),
             ledger' = Upserted(a, "PARSEADO", a), Complete(w)
      PROVE BookInv'
  <2>1. a \in Documents BY <1>1, <1>2, BookInvParts DEF MemoryOf
  <2>2. /\ book' \in [Attachment -> Document] /\ book'[a].version = parser
        /\ \A b \in Attachment \ {a} : book'[b] = book[b]
    BY <1>1, <1>2 DEF Reparsed, Document
  <2>3. QED BY <1>1, <1>2, <2>1, <2>2, PersistWrites
<1>3. ASSUME ~Clash(a), ledger' = Upserted(a, "PARSEADO", a), Complete(w),
             book' = [book EXCEPT ![a] = [version |-> parser, manual |-> FALSE]]
      PROVE BookInv'
  <2>1. /\ book' \in [Attachment -> Document] /\ book'[a].version = parser
        /\ \A b \in Attachment \ {a} : book'[b] = book[b]
    BY <1>1, <1>3 DEF Document
  <2>2. QED BY <1>1, <1>3, <2>1, PersistWrites
<1>4. ASSUME GoTo(w, "canonical"), UNCHANGED dbVars PROVE BookInv'
  BY <1>1, <1>4, GoToKeeps, BookInvParts DEF Elsewhere
<1>5. QED BY <1>2, <1>3, <1>4 DEF Persist

LEMMA ClassifyKeeps ==
  ASSUME BookInv, NEW a \in Attachment, NEW m \in Marks, UpdateClassification(a, m)
  PROVE  BookInv'
<1>1. /\ book' \in [Attachment -> Document]
      /\ \A b \in Attachment : book'[b].version = book[b].version
  BY PipelineAssumption DEF BookInv, TypeOK, UpdateClassification, Document
<1>2. Documents' = Documents BY <1>1 DEF Documents
<1>3. UNCHANGED <<outside, ledger, offer, job, op, worker, left>>
  BY DEF UpdateClassification
<1>4. TypeOK' /\ JobsSound' /\ Sources'
  BY <1>1, <1>2, <1>3 DEF BookInv, TypeOK, JobsSound, Sources, outside
<1>5. Remembered'
  BY <1>2, <1>3 DEF BookInv, Remembered, MemoryOf, Others, outside
<1>6. OneDocument' /\ UpToDate' /\ LedgerPointsAtBook' /\ DocumentIsAccounted'
  BY <1>1, <1>2, <1>3
     DEF BookInv, OneDocument, UpToDate, LedgerPointsAtBook, DocumentIsAccounted,
         outside, Documents
<1>7. QED BY <1>4, <1>5, <1>6 DEF BookInv

-----------------------------------------------------------------------------
(* The invariant.                                                          *)

LEMMA InitInv == Init => BookInv
<1> SUFFICES ASSUME Init PROVE BookInv
  OBVIOUS
<1>1. Documents = {} BY DEF Init, Documents
<1>2. TypeOK
  BY PipelineAssumption, NoJobIsJob, IdleIsSlot, NoOperationTyped
     DEF Init, TypeOK, LedgerRow, LedgerStatus, Document, NoDoc
<1>3. JobsSound /\ Sources /\ Remembered
  BY <1>1, NoOperationTyped
     DEF Init, JobsSound, Sources, Remembered, MemoryOf, NoJob, IdleSlot
<1>4. OneDocument /\ UpToDate /\ LedgerPointsAtBook /\ DocumentIsAccounted
  BY <1>1 DEF Init, OneDocument, UpToDate, LedgerPointsAtBook, DocumentIsAccounted
<1>5. QED BY <1>2, <1>3, <1>4 DEF BookInv

LEMMA StepInv == BookInv /\ [Next]_vars => BookInv'
<1> SUFFICES ASSUME BookInv, [Next]_vars PROVE BookInv'
  OBVIOUS
<1>1. ASSUME NEW a \in Attachment,
             Archive(a) \/ EnqueueFromSync(a) \/ Stalled(a) \/ FileRestored(a)
      PROVE BookInv'
  BY <1>1, ArchiveKeeps, EnqueueKeeps, StalledKeeps, OutsideKeeps
<1>2. ASSUME NEW w \in Worker, WorkerStep(w) PROVE BookInv'
  BY <1>2, TakeKeeps, CheckKeeps, ReadKeeps, RecordFailureKeeps, FindKeeps,
     PersistKeeps, CanonicalKeeps, RecordDuplicateKeeps DEF WorkerStep
<1>3. ASSUME NEW mode \in Modes, StartReprocess(mode) PROVE BookInv'
  BY <1>3, ListKeeps
<1>4. CASE Reprocess BY <1>4, ListKeeps, ClearKeeps, AddKeeps DEF Reprocess
<1>5. ASSUME NEW a \in Attachment, NEW m \in Marks, UpdateClassification(a, m)
      PROVE BookInv'
  BY <1>5, ClassifyKeeps
<1>6. ASSUME NEW status \in {"ACTIVO", "SUSPENDIDO"}, SetTenant(status)
      PROVE BookInv'
  BY <1>6, OutsideKeeps
<1>7. CASE Deploy BY <1>7, DeployKeeps
<1>8. CASE Disruption
  BY <1>8, MishapKeeps, EnqueueKeeps, ClearKeeps, OutsideKeeps, ListKeeps
     DEF Disruption
<1>9. CASE UNCHANGED vars
  <2>1. DbKept /\ UNCHANGED <<tenant, file, offer, job, op, worker, left>>
    BY <1>9 DEF vars, DbKept, dbVars
  <2>2. JobsOnlyFor(archived)
    BY <2>1, BookInvParts DEF JobsOnlyFor, Jobs, JobsSound
  <2>3. QED BY <2>1, <2>2, QueueStepKeeps, BookInvParts
<1>10. QED
  BY <1>1, <1>2, <1>3, <1>4, <1>5, <1>6, <1>7, <1>8, <1>9 DEF Next

(* The types, the ledger that points at the book and the account of every  *)
(* document hold together, with what the workers remember.                 *)
THEOREM BookInvariant == Spec => []BookInv
<1>1. Init => BookInv BY InitInv
<1>2. BookInv /\ [Next]_vars => BookInv' BY StepInv
<1>3. QED BY <1>1, <1>2, PTL DEF Spec

THEOREM PipelineTypes == Spec => []TypeOK
<1>1. BookInv => TypeOK BY DEF BookInv
<1>2. QED BY <1>1, BookInvariant, PTL

(* A PARSEADO or DUPLICADO row points at the document it speaks of,        *)
(* whatever workers, retries and re-parsings run side by side.             *)
THEOREM LedgerIsTrue == Spec => []LedgerPointsAtBook
<1>1. BookInv => LedgerPointsAtBook BY DEF BookInv
<1>2. QED BY <1>1, BookInvariant, PTL

(* A re-parse never turns the canonical attachment into a duplicate.       *)
THEOREM DocumentsStayAccounted == Spec => []DocumentIsAccounted
<1>1. BookInv => DocumentIsAccounted BY DEF BookInv
<1>2. QED BY <1>1, BookInvariant, PTL

-----------------------------------------------------------------------------
(* The book changes in two steps only.                                     *)

LEMMA BookSteps ==
  ASSUME [Next]_vars
  PROVE  \/ book' = book
         \/ \E w \in Worker : Persist(w)
         \/ \E a \in Attachment, m \in Marks : UpdateClassification(a, m)
<1>1. ASSUME NEW w \in Worker, WorkerStep(w) PROVE book' = book \/ Persist(w)
  BY <1>1 DEF WorkerStep, Take, CheckTenant, CheckLedger, ReadFile, RecordFailure,
              FindOwn, FindCanonical, RecordDuplicate, dbVars
<1>2. Reprocess => book' = book
  BY DEF Reprocess, ListPage, ClearJob, AddPage, dbVars
<1>3. Disruption => book' = book
  BY DEF Disruption, PartyClash, InfraFailure, Crash, LoseLock, LoseLot, ClearFails,
         FileLost, AddRefused, dbVars
<1>4. ASSUME NEW a \in Attachment,
             Archive(a) \/ EnqueueFromSync(a) \/ Stalled(a) \/ FileRestored(a)
      PROVE book' = book
  BY <1>4 DEF Archive, EnqueueFromSync, Stalled, FileRestored, dbVars
<1>5. ASSUME \/ \E mode \in Modes : StartReprocess(mode)
             \/ \E status \in {"ACTIVO", "SUSPENDIDO"} : SetTenant(status)
             \/ Deploy
             \/ UNCHANGED vars
      PROVE book' = book
  BY <1>5 DEF StartReprocess, SetTenant, Deploy, dbVars, vars
<1>6. QED BY <1>1, <1>2, <1>3, <1>4, <1>5 DEF Next

(* What Persist makes of the book.                                         *)
LEMMA PersistBook ==
  ASSUME BookInv, NEW w \in Worker, Persist(w)
  PROVE  \/ Documents' = Documents
         \/ /\ ~Clash(worker[w].on)
            /\ worker[w].on \in Attachment
            /\ Documents' = Documents \cup {worker[w].on}
<1> DEFINE a == worker[w].on
<1>1. /\ a \in Attachment /\ book \in [Attachment -> Document]
      /\ parser \in 1..MaxParser /\ worker[w].step = "commit"
  BY OnAttachment DEF Persist, BookInv, TypeOK
<1>2. CASE worker[w].seen # 0
  <2>1. a \in Documents BY <1>1, <1>2, BookInvParts DEF MemoryOf
  <2>2. book' = Reparsed(a) BY <1>2 DEF Persist
  <2>3. Documents' = Documents
    BY <1>1, <2>1, <2>2, PipelineAssumption DEF Reparsed, Documents, Document
  <2>4. QED BY <2>3
<1>3. CASE worker[w].seen = 0 /\ ~Clash(a)
  <2>1. book' = [book EXCEPT ![a] = [version |-> parser, manual |-> FALSE]]
    BY <1>3 DEF Persist
  <2>2. Documents' = Documents \cup {a}
    BY <1>1, <2>1, PipelineAssumption DEF Documents, Document
  <2>3. QED BY <1>1, <1>3, <2>2
<1>4. CASE worker[w].seen = 0 /\ Clash(a)
  BY <1>4 DEF Persist, dbVars, Documents
<1>5. QED BY <1>2, <1>3, <1>4

LEMMA ContractStep ==
  ASSUME BookInv, [Next]_vars
  PROVE  [Contract!Next]_[c \in Code |-> Canonical(c)]
<1>1. CASE Documents' = Documents
  <2>1. \A c \in Code : Canonical(c)' = Canonical(c) BY <1>1 DEF Canonical
  <2>2. QED BY <2>1
<1>2. ASSUME NEW a \in Attachment, ~Clash(a), Documents' = Documents \cup {a}
      PROVE Contract!Next
  <2> DEFINE c == CodeOf[a]
  <2>1. c \in Code BY PipelineAssumption
  <2>2. Canonical(c) = {} BY <1>2 DEF Canonical, Clash
  <2>3. Canonical(c)' = {a} BY <1>2, <2>2 DEF Canonical
  <2>4. \A d \in Code \ {c} : Canonical(d)' = Canonical(d)
    BY <1>2 DEF Canonical
  <2>5. Contract!Enter(c, a)
    BY <2>1, <2>2, <2>3, <2>4 DEF Contract!Enter
  <2>6. QED BY <2>1, <2>5 DEF Contract!Next
<1>3. ASSUME NEW w \in Worker, Persist(w)
      PROVE \/ Documents' = Documents
            \/ \E a \in Attachment : ~Clash(a) /\ Documents' = Documents \cup {a}
  BY <1>3, PersistBook
<1>4. ASSUME NEW a \in Attachment, NEW m \in Marks, UpdateClassification(a, m)
      PROVE Documents' = Documents
  BY <1>4 DEF UpdateClassification, BookInv, TypeOK, Document, Documents
<1>5. book' = book => Documents' = Documents BY DEF Documents
<1>6. QED BY <1>1, <1>2, <1>3, <1>4, <1>5, BookSteps

(* Every tax document enters the book once, from one attachment for ever.  *)
THEOREM PipelineImplementsContract == Spec => ImplementsContract
<1>1. Init => Contract!Init
  <2> SUFFICES ASSUME Init PROVE Contract!Init OBVIOUS
  <2>1. Documents = {} BY DEF Init, Documents
  <2>2. QED BY <2>1 DEF Contract!Init, Canonical
<1>2. BookInv /\ [Next]_vars => [Contract!Next]_[c \in Code |-> Canonical(c)]
  BY ContractStep
<1>3. QED
  BY <1>1, <1>2, BookInvariant, PTL DEF Spec, ImplementsContract, Contract!Spec

(* The manual classification of a document survives every re-parse.        *)
THEOREM ClassificationsSurvive == Spec => ClassificationIsKept
<1> DEFINE Kept == \A a \in Documents : \/ book'[a].manual = book[a].manual
                                        \/ UpdateClassification(a, book'[a].manual)
<1>1. ASSUME BookInv, [Next]_vars PROVE [Kept]_book
  <2>1. ASSUME NEW w \in Worker, Persist(w)
        PROVE \A a \in Documents : book'[a].manual = book[a].manual
    <3>1. worker[w].on \in Attachment /\ book \in [Attachment -> Document]
      BY <2>1, <1>1, OnAttachment DEF Persist, BookInv, TypeOK
    <3>2. QED
      BY <2>1, <3>1 DEF Persist, Reparsed, Clash, Documents, Document, dbVars
  <2>2. ASSUME NEW b \in Attachment, NEW m \in Marks, UpdateClassification(b, m)
        PROVE Kept
    <3> SUFFICES ASSUME NEW a \in Documents
        PROVE \/ book'[a].manual = book[a].manual
              \/ UpdateClassification(a, book'[a].manual)
      OBVIOUS
    <3>1. book \in [Attachment -> Document] /\ a \in Attachment
      BY <1>1 DEF BookInv, TypeOK, Documents
    <3>2. CASE a = b
      <4>1. book'[a].manual = m
        BY <2>2, <3>1, <3>2 DEF UpdateClassification, Document
      <4>2. QED BY <2>2, <3>2, <4>1
    <3>3. CASE a # b
      BY <2>2, <3>1, <3>3 DEF UpdateClassification
    <3>4. QED BY <3>2, <3>3
  <2>3. QED BY <1>1, <2>1, <2>2, BookSteps
<1>2. QED
  BY <1>1, BookInvariant, PTL DEF Spec, ClassificationIsKept
=============================================================================
