-------------------------- MODULE LifecycleProofs --------------------------
(***************************************************************************)
(* Theorems about the accounts of a tenant, for every number of accounts   *)
(* and of concurrent requests: their types, the bound of the plan, and     *)
(* that the queue follows the database.                                    *)
(***************************************************************************)
EXTENDS AccountLifecycle, FiniteSetTheorems, TLAPS

(* TypeOK without the history.                                             *)
Shape ==
  /\ tenant \in TenantStatus
  /\ acct \in [Account -> [status : AccountStatus, deleted : BOOLEAN]]
  /\ jobs \subseteq Account /\ waiting \subseteq Account /\ lock \subseteq Account
  /\ fails \in [Account -> 0..Threshold]
  /\ api \in {"down", "booting", "up"}
  /\ call \in [Actor -> Call]
  /\ run \in [Account -> {"idle", "reading", "syncing", "marking", "removing"}]

(* An account that a PATCH is about to write, or that a run synchronises,  *)
(* has a row: rows are never deleted.                                      *)
RowsExist ==
  /\ \A q \in Request : At(q, "update", "write") => \A a \in call[q].on : Exists(a)
  /\ \A a \in Account : run[a] \in {"syncing", "marking"} => Exists(a)

LifecycleInv == TypeOK /\ RowsExist

(* What a step may do to the two sets that the plan's limit counts: no     *)
(* account comes to life, no request passes the check of the limit.        *)
LiveKept == \A a \in Account : Live(a)' => Live(a)
CheckKept == \A q \in Request : At(q, "create", "write")' => At(q, "create", "write")
Quiet == LiveKept /\ CheckKept
RowsKept == \A a \in Account : Exists(a) => Exists(a)'

-----------------------------------------------------------------------------
(* The helpers that change what an actor is doing *)

CallTyped == call \in [Actor -> Call]
OnlyOf(q) == call' \in [Actor -> Call] /\ \A p \in Actor \ {q} : call'[p] = call[p]

LEMMA BeginCall ==
  ASSUME CallTyped, NEW q \in Actor, NEW op \in Op, NEW step \in Step,
         NEW on \in SUBSET Account, NEW seen \in AccountStatus \cup TenantStatus,
         Begin(q, op, step, on, seen)
  PROVE  /\ OnlyOf(q)
         /\ call'[q].op = op /\ call'[q].step = step /\ call'[q].on = on
BY DEF CallTyped, OnlyOf, Begin, NoCall, Call

LEMMA DoneCall ==
  ASSUME CallTyped, NEW q \in Actor, Done(q)
  PROVE  OnlyOf(q) /\ call'[q].step = "idle"
BY DEF CallTyped, OnlyOf, Done, NoCall, Call, Op, Step, AccountStatus

LEMMA BecomesCall ==
  ASSUME CallTyped, NEW q \in Actor, NEW step \in Step, Becomes(q, step)
  PROVE  OnlyOf(q) /\ call'[q].step = step
BY DEF CallTyped, OnlyOf, Becomes, Call

LEMMA PlanCall ==
  ASSUME CallTyped, NEW q \in Actor, NEW step \in Step,
         NEW add \in SUBSET Account, NEW del \in SUBSET Account,
         Plan(q, add, del, step)
  PROVE  OnlyOf(q) /\ call'[q].step = step
<1>1. call'[q] = [call[q] EXCEPT !.step = step, !.add = add, !.del = del]
  BY DEF CallTyped, Plan
<1>2. call'[q] \in Call /\ call'[q].step = step
  BY <1>1 DEF CallTyped, Call
<1>3. call' \in [Actor -> Call] /\ \A p \in Actor \ {q} : call'[p] = call[p]
  BY <1>2 DEF CallTyped, Plan
<1> QED
  BY <1>2, <1>3 DEF OnlyOf

LEMMA PlanForCall ==
  ASSUME CallTyped, NEW q \in Actor, NEW step \in Step, NEW a \in Account, NEW row,
         PlanFor(q, a, row, step)
  PROVE  OnlyOf(q) /\ call'[q].step = step
<1>1. {a} \in SUBSET Account /\ {} \in SUBSET Account
  OBVIOUS
<1>2. Plan(q, {a}, {}, step) \/ Plan(q, {}, {a}, step)
  BY DEF PlanFor
<1> QED
  BY <1>1, <1>2, PlanCall

(* The words of the model.                                                 *)
LEMMA Words ==
  /\ {"write", "enqueue", "reset", "list", "schedule", "idle"} \subseteq Step
  /\ {"create", "update", "remove", "manual", "suspend", "activate", "boot"} \subseteq Op
  /\ {"NONE", "ACTIVA", "INACTIVA", "ERROR_AUTH"} \subseteq AccountStatus
  /\ {"ACTIVO", "SUSPENDIDO"} \subseteq TenantStatus
BY DEF Step, Op, AccountStatus, TenantStatus

-----------------------------------------------------------------------------
(* Three kinds of steps *)

(* An actor leaves its write behind, or never had one.                     *)
LEMMA CallMovesOn ==
  ASSUME LifecycleInv, NEW q \in Actor, OnlyOf(q), RowsKept, run' = run,
         call'[q].step # "write"
  PROVE  RowsExist' /\ CheckKept
<1>1. \A p \in Request : call'[p].step = "write" => call'[p] = call[p]
  BY DEF OnlyOf, Actor
<1>2. CheckKept
  BY <1>1 DEF CheckKept, At
<1>3. \A p \in Request : call[p].on \subseteq Account
  BY DEF LifecycleInv, TypeOK, Call, Actor
<1>4. \A p \in Request : At(p, "update", "write")' => \A a \in call'[p].on : Exists(a)'
  BY <1>1, <1>3 DEF LifecycleInv, RowsExist, RowsKept, At
<1>5. \A a \in Account : run'[a] \in {"syncing", "marking"} => Exists(a)'
  BY DEF LifecycleInv, RowsExist, RowsKept
<1> QED
  BY <1>2, <1>4, <1>5 DEF RowsExist, At

(* A request that is authorised.                                           *)
LEMMA CallStarts ==
  ASSUME LifecycleInv, NEW q \in Actor, OnlyOf(q), acct' = acct, run' = run,
         call'[q].op # "create",
         call'[q].op = "update" => \A a \in call'[q].on : Exists(a)
  PROVE  RowsExist' /\ Quiet
<1>1. \A p \in Request : p # q => call'[p] = call[p]
  BY DEF OnlyOf, Actor
<1>2. CheckKept
  BY <1>1 DEF CheckKept, At
<1>3. \A p \in Request : At(p, "update", "write")' => \A a \in call'[p].on : Exists(a)'
  BY <1>1 DEF LifecycleInv, RowsExist, At, Exists
<1>4. \A a \in Account : run'[a] \in {"syncing", "marking"} => Exists(a)'
  BY DEF LifecycleInv, RowsExist, Exists
<1>5. LiveKept
  BY DEF LiveKept, Live, Exists
<1> QED
  BY <1>2, <1>3, <1>4, <1>5 DEF RowsExist, At, Quiet

(* A step that leaves the rows alone.                                      *)
LEMMA SameRows ==
  ASSUME acct' = acct
  PROVE  RowsKept /\ LiveKept
BY DEF RowsKept, LiveKept, Live, Exists

-----------------------------------------------------------------------------
(* The requests *)

(* The steps of a request keep the types and the rows they rely on, and    *)
(* only create makes the plan's count grow.                                *)
LEMMA RequestKeeps ==
  ASSUME LifecycleInv, NEW q \in Request, RequestStep(q)
  PROVE  /\ Shape' /\ RowsExist'
         /\ Insert(q) \/ Quiet \/ \E a \in Account : Create(q, a)
<1> DEFINE Good == /\ Shape' /\ RowsExist'
                   /\ Insert(q) \/ Quiet \/ \E a \in Account : Create(q, a)
<1>q. q \in Actor /\ CallTyped /\ call[q] \in Call /\ call[q].on \in SUBSET Account
  BY DEF LifecycleInv, TypeOK, CallTyped, Actor, Call
<1>s. Shape
  BY DEF LifecycleInv, TypeOK, Shape
<1>1. ASSUME NEW a \in Account, Create(q, a) PROVE Good
  <2>1. OnlyOf(q) /\ call'[q].op = "create"
    BY <1>1, <1>q, Words, BeginCall DEF Create
  <2>2. UNCHANGED <<tenant, acct, jobs, waiting, fails, lock, api, run>>
    BY <1>1 DEF Create, dbVars, redisVars
  <2>3. \A p \in Request : At(p, "update", "write")' => call'[p] = call[p]
    BY <2>1 DEF OnlyOf, Actor, At
  <2>4. RowsExist'
    BY <2>2, <2>3 DEF LifecycleInv, RowsExist, At, Exists
  <2> QED
    BY <1>1, <1>s, <2>1, <2>2, <2>4 DEF Shape, OnlyOf
<1>2. ASSUME NEW a \in Account, Update(q, a) \/ Remove(q, a) PROVE Good
  <2>1. acct[a].status \in AccountStatus /\ {a} \in SUBSET Account
    BY <1>s DEF Shape
  <2>2. OnlyOf(q) /\ call'[q].op \in {"update", "remove"} /\ call'[q].on = {a}
    BY <1>2, <2>1, <1>q, Words, BeginCall DEF Update, Remove
  <2>3. Exists(a) /\ UNCHANGED <<tenant, acct, jobs, waiting, fails, lock, api, run>>
    BY <1>2 DEF Update, Remove, Live, dbVars, redisVars
  <2>4. RowsExist' /\ Quiet
    BY <2>2, <2>3, <1>q, CallStarts
  <2> QED
    BY <1>s, <2>2, <2>3, <2>4 DEF Shape, OnlyOf
<1>3. ASSUME NEW op \in {"suspend", "activate"}, SetTenant(q, op) PROVE Good
  <2>1. OnlyOf(q) /\ call'[q].op = op
    BY <1>3, <1>q, <1>s, Words, BeginCall DEF SetTenant, Shape
  <2>2. UNCHANGED <<tenant, acct, jobs, waiting, fails, lock, api, run>>
    BY <1>3 DEF SetTenant, dbVars, redisVars
  <2>3. RowsExist' /\ Quiet
    BY <2>1, <2>2, <1>q, CallStarts
  <2> QED
    BY <1>s, <2>1, <2>2, <2>3 DEF Shape, OnlyOf
<1>4. CASE Insert(q)
  <2>1. PICK a \in Account :
          \/ Done(q) /\ acct' = acct
          \/ acct' = [acct EXCEPT ![a].status = "ACTIVA"] /\ PlanFor(q, a, acct'[a], "schedule")
    BY <1>4, <1>q DEF Insert
  <2>2. OnlyOf(q) /\ call'[q].step # "write"
    BY <2>1, <1>q, Words, DoneCall, PlanForCall
  <2>3. acct' \in [Account -> [status : AccountStatus, deleted : BOOLEAN]] /\ RowsKept
    BY <2>1, <1>s DEF Shape, AccountStatus, RowsKept, Exists
  <2>4. UNCHANGED <<tenant, jobs, waiting, fails, lock, api, run>>
    BY <1>4 DEF Insert, redisVars
  <2>5. RowsExist'
    BY <2>2, <2>3, <2>4, <1>q, CallMovesOn
  <2> QED
    BY <1>4, <1>s, <2>2, <2>3, <2>4, <2>5 DEF Shape, OnlyOf
<1>5. CASE WriteUpdate(q)
  <2>1. PICK a \in call[q].on, wanted \in {"NONE", "ACTIVA", "INACTIVA"}, creds \in BOOLEAN :
          /\ acct' = [acct EXCEPT ![a].status = NewStatus(a, wanted, creds, call[q].seen)]
          /\ \/ PlanFor(q, a, acct'[a], "reset")
             \/ PlanFor(q, a, acct'[a], "schedule")
    BY <1>5 DEF WriteUpdate
  <2>2. a \in Account /\ Exists(a)
    BY <1>5, <2>1, <1>q DEF WriteUpdate, LifecycleInv, RowsExist
  <2> DEFINE status == NewStatus(a, wanted, creds, call[q].seen)
  <2>3. status \in AccountStatus \ {"NONE"}
    BY <2>1, <2>2, <1>s DEF NewStatus, AccountStatus, Shape, Exists
  <2> HIDE DEF status
  <2>4. OnlyOf(q) /\ call'[q].step # "write"
    BY <2>1, <2>2, <1>q, Words, PlanForCall
  <2>5. /\ acct' \in [Account -> [status : AccountStatus, deleted : BOOLEAN]]
        /\ \A b \in Account : acct'[b].deleted = acct[b].deleted
        /\ \A b \in Account : b # a => acct'[b] = acct[b]
        /\ acct'[a].status = status
    BY <2>1, <2>2, <2>3, <1>s DEF Shape, status
  <2>6. RowsKept /\ LiveKept
    BY <2>2, <2>3, <2>5 DEF RowsKept, LiveKept, Live, Exists
  <2>7. UNCHANGED <<tenant, jobs, waiting, fails, lock, api, run>>
    BY <1>5 DEF WriteUpdate, redisVars
  <2>8. RowsExist' /\ CheckKept
    BY <2>4, <2>6, <2>7, <1>q, CallMovesOn
  <2> QED
    BY <1>s, <2>4, <2>5, <2>6, <2>7, <2>8 DEF Shape, OnlyOf, Quiet
<1>6. CASE WriteRemove(q)
  <2>1. acct' = [a \in Account |-> IF a \in call[q].on
                   THEN [status |-> "INACTIVA", deleted |-> TRUE] ELSE acct[a]]
    BY <1>6 DEF WriteRemove
  <2>2. acct' \in [Account -> [status : AccountStatus, deleted : BOOLEAN]]
    BY <2>1, <1>s DEF Shape, AccountStatus
  <2>3. RowsKept /\ LiveKept
    BY <2>1, <1>s DEF Shape, RowsKept, LiveKept, Live, Exists
  <2>4. {} \in SUBSET Account
    OBVIOUS
  <2>5. OnlyOf(q) /\ call'[q].step # "write"
    BY <1>6, <2>4, <1>q, Words, PlanCall DEF WriteRemove
  <2>6. UNCHANGED <<tenant, jobs, waiting, fails, lock, api, run>>
    BY <1>6 DEF WriteRemove, redisVars
  <2>7. RowsExist' /\ CheckKept
    BY <2>3, <2>5, <2>6, <1>q, CallMovesOn
  <2> QED
    BY <1>s, <2>2, <2>3, <2>5, <2>6, <2>7 DEF Shape, OnlyOf, Quiet
<1>7. ASSUME NEW a \in Account, Manual(q, a) PROVE Good
  <2>1. call' = [call EXCEPT ![q] = [NoCall EXCEPT !.op = "manual",
                                       !.step = "enqueue", !.add = {a}]]
    BY <1>7 DEF Manual
  <2>2. OnlyOf(q) /\ call'[q].step # "write"
    BY <2>1, <1>q DEF CallTyped, OnlyOf, NoCall, Call, Op, Step, AccountStatus
  <2>3. UNCHANGED <<tenant, acct, jobs, waiting, fails, lock, api, run>>
    BY <1>7 DEF Manual, dbVars, redisVars
  <2>4. RowsExist' /\ Quiet
    BY <2>2, <2>3, <1>q, SameRows, CallMovesOn DEF Quiet
  <2> QED
    BY <1>s, <2>2, <2>3, <2>4 DEF Shape, OnlyOf
<1>8. CASE Reset(q)
  <2>1. OnlyOf(q) /\ call'[q].step # "write"
    BY <1>8, <1>q, Words, BecomesCall DEF Reset
  <2>2. fails' \in [Account -> 0..Threshold]
    BY <1>8, <1>s DEF Reset, Shape, Threshold
  <2>3. UNCHANGED <<tenant, acct, jobs, waiting, lock, api, run>>
    BY <1>8 DEF Reset, dbVars
  <2>4. RowsExist' /\ Quiet
    BY <2>1, <2>3, <1>q, SameRows, CallMovesOn DEF Quiet
  <2> QED
    BY <1>s, <2>1, <2>2, <2>3, <2>4 DEF Shape, OnlyOf
<1>9. CASE Enqueue(q) \/ Refuse(q)
  <2>1. OnlyOf(q) /\ call'[q].step # "write"
    BY <1>9, <1>q, DoneCall DEF Enqueue, Refuse
  <2>2. call[q].add \subseteq Account
    BY <1>q DEF Call
  <2>3. /\ waiting' \subseteq Account
        /\ UNCHANGED <<tenant, acct, jobs, fails, lock, api, run>>
    BY <1>9, <2>2, <1>s DEF Enqueue, Refuse, Shape, dbVars, redisVars
  <2>4. RowsExist' /\ Quiet
    BY <2>1, <2>3, <1>q, SameRows, CallMovesOn DEF Quiet
  <2> QED
    BY <1>s, <2>1, <2>3, <2>4 DEF Shape, OnlyOf
<1>10. ASSUME NEW op, NEW status \in TenantStatus, WriteTenant(q, op, status) PROVE Good
  <2>1. OnlyOf(q) /\ call'[q].step # "write"
    BY <1>10, <1>q, Words, DoneCall, BecomesCall DEF WriteTenant
  <2>2. /\ tenant' \in TenantStatus
        /\ UNCHANGED <<acct, jobs, waiting, fails, lock, api, run>>
    BY <1>10 DEF WriteTenant, redisVars
  <2>3. RowsExist' /\ Quiet
    BY <2>1, <2>2, <1>q, SameRows, CallMovesOn DEF Quiet
  <2> QED
    BY <1>s, <2>1, <2>2, <2>3 DEF Shape, OnlyOf
<1>11. CASE ListToSuspend(q) \/ ListToActivate(q)
  <2>1. PICK add \in SUBSET Account, del \in SUBSET Account : Plan(q, add, del, "schedule")
    <3>1. /\ {} \in SUBSET Account
          /\ {a \in Account : Exists(a)} \in SUBSET Account
          /\ {a \in Account : Syncable(a)} \in SUBSET Account
          /\ {a \in Account : Live(a) /\ ~Syncable(a)} \in SUBSET Account
      OBVIOUS
    <3> QED
      BY <1>11, <3>1 DEF ListToSuspend, ListToActivate
  <2>2. OnlyOf(q) /\ call'[q].step # "write"
    BY <2>1, <1>q, Words, PlanCall
  <2>3. UNCHANGED <<tenant, acct, jobs, waiting, fails, lock, api, run>>
    BY <1>11 DEF ListToSuspend, ListToActivate, dbVars, redisVars
  <2>4. RowsExist' /\ Quiet
    BY <2>2, <2>3, <1>q, SameRows, CallMovesOn DEF Quiet
  <2> QED
    BY <1>s, <2>2, <2>3, <2>4 DEF Shape, OnlyOf
<1> QED
  BY <1>1, <1>2, <1>3, <1>4, <1>5, <1>6, <1>7, <1>8, <1>9, <1>10, <1>11, Words
  DEF RequestStep

-----------------------------------------------------------------------------
(* The schedule, the bootstrap, the worker and the faults *)

LEMMA ScheduleKeeps ==
  ASSUME LifecycleInv, NEW q \in Actor, Schedule(q)
  PROVE  Shape' /\ RowsExist' /\ Quiet
<1>q. CallTyped /\ call[q] \in Call /\ call[q].step = "schedule"
  BY DEF LifecycleInv, TypeOK, CallTyped, Schedule
<1>s. Shape
  BY DEF LifecycleInv, TypeOK, Shape
<1>1. /\ api' \in {"down", "booting", "up"}
      /\ UNCHANGED <<tenant, acct, waiting, fails, lock, run>>
  BY <1>s DEF Schedule, Shape, dbVars
<1>2. jobs' \subseteq Account /\ OnlyOf(q) /\ call'[q].step # "write"
  <2>1. CASE Done(q) /\ jobs' = jobs
    BY <2>1, <1>q, <1>s, DoneCall DEF Shape
  <2>2. ASSUME NEW a \in call[q].add, jobs' = jobs \cup {a},
               call' = [call EXCEPT ![q].add = @ \ {a}]
        PROVE  jobs' \subseteq Account /\ OnlyOf(q) /\ call'[q].step # "write"
    BY <2>2, <1>q, <1>s DEF Shape, CallTyped, OnlyOf, Call
  <2>3. ASSUME NEW a \in call[q].del, jobs' = jobs \ {a},
               call' = [call EXCEPT ![q].del = @ \ {a}]
        PROVE  jobs' \subseteq Account /\ OnlyOf(q) /\ call'[q].step # "write"
    BY <2>3, <1>q, <1>s DEF Shape, CallTyped, OnlyOf, Call
  <2> QED
    BY <2>1, <2>2, <2>3 DEF Schedule
<1>3. RowsExist' /\ Quiet
  BY <1>1, <1>2, SameRows, CallMovesOn DEF Quiet
<1> QED
  BY <1>s, <1>1, <1>2, <1>3 DEF Shape, OnlyOf

LEMMA BootKeeps ==
  ASSUME LifecycleInv, StartApi \/ ReadActive \/ ListJobs
  PROVE  Shape' /\ RowsExist' /\ Quiet
<1>q. Bootstrap \in Actor /\ CallTyped /\ call[Bootstrap] \in Call
  BY DEF LifecycleInv, TypeOK, CallTyped, Actor
<1>s. Shape
  BY DEF LifecycleInv, TypeOK, Shape
<1>1. OnlyOf(Bootstrap) /\ call'[Bootstrap].step # "write"
  <2>1. CASE StartApi
    BY <2>1, <1>q, Words, BeginCall DEF StartApi
  <2>2. CASE ReadActive
    <3>1. {a \in Account : Should(a)} \in SUBSET Account /\ {} \in SUBSET Account
      OBVIOUS
    <3> QED
      BY <2>2, <3>1, <1>q, Words, PlanCall DEF ReadActive
  <2>3. CASE ListJobs
    <3>1. /\ call[Bootstrap].add \in SUBSET Account
          /\ Orphans(call[Bootstrap].add) \in SUBSET Account
      BY <1>q, <1>s DEF Call, Orphans, Shape
    <3> QED
      BY <2>3, <3>1, <1>q, Words, PlanCall DEF ListJobs
  <2> QED
    BY <2>1, <2>2, <2>3
<1>2. /\ api' \in {"down", "booting", "up"}
      /\ UNCHANGED <<tenant, acct, jobs, waiting, fails, lock, run>>
  BY <1>s DEF StartApi, ReadActive, ListJobs, Shape, dbVars, redisVars
<1>3. RowsExist' /\ Quiet
  BY <1>1, <1>2, <1>q, SameRows, CallMovesOn DEF Quiet
<1> QED
  BY <1>s, <1>1, <1>2, <1>3 DEF Shape, OnlyOf

(* What the worker does to an account.                                     *)
WorkerAction(a) ==
  Fire(a) \/ Take(a) \/ RunStep(a) \/ CounterExpires(a) \/ LockExpires(a)

LEMMA WorkerShape ==
  ASSUME TypeOK, NEW a \in Account, WorkerAction(a)
  PROVE  Shape'
<1> USE DEF TypeOK, Shape, AccountStatus, TenantStatus, dbVars, redisVars, Threshold,
            EndRun, Retry
<1>1. CASE Fire(a) \/ Take(a)
  BY <1>1 DEF Fire, Take
<1>2. CASE Read(a)
  BY <1>2 DEF Read
<1>7. CASE Synced(a)
  BY <1>7 DEF Synced
<1>8. CASE SyncFails(a)
  BY <1>8 DEF SyncFails
<1>3. CASE LoginFails(a)
  BY <1>3 DEF LoginFails, FailCount
<1>4. CASE MarkAuthError(a)
  <2>1. acct' \in [Account -> [status : AccountStatus, deleted : BOOLEAN]]
    BY <1>4 DEF MarkAuthError
  <2> QED
    BY <1>4, <2>1 DEF MarkAuthError
<1>5. CASE RemoveJob(a)
  BY <1>5 DEF RemoveJob
<1>6. CASE CounterExpires(a) \/ LockExpires(a)
  BY <1>6 DEF CounterExpires, LockExpires
<1> QED
  BY <1>1, <1>2, <1>3, <1>4, <1>5, <1>6, <1>7, <1>8 DEF RunStep, WorkerAction

LEMMA WorkerKeeps ==
  ASSUME LifecycleInv, NEW a \in Account, WorkerAction(a)
  PROVE  RowsExist' /\ Quiet
<1>1. call' = call /\ (acct' = acct \/ MarkAuthError(a))
  BY DEF WorkerAction, Fire, Take, RunStep, Read, Synced, SyncFails, LoginFails,
         MarkAuthError, RemoveJob, CounterExpires, LockExpires, dbVars
<1>2. RowsKept /\ LiveKept
  <2>1. CASE MarkAuthError(a)
    <3>1. Exists(a)
      BY <2>1 DEF LifecycleInv, RowsExist, MarkAuthError
    <3>2. /\ acct'[a].status = "ERROR_AUTH" /\ acct'[a].deleted = acct[a].deleted
          /\ \A b \in Account : b # a => acct'[b] = acct[b]
      BY <2>1 DEF MarkAuthError, LifecycleInv, TypeOK
    <3> QED
      BY <3>1, <3>2 DEF RowsKept, LiveKept, Live, Exists
  <2> QED
    BY <1>1, <2>1, SameRows
<1>3. \A b \in Account : run'[b] \in {"syncing", "marking"} =>
                           run[b] \in {"syncing", "marking"} \/ Exists(b)
  BY DEF WorkerAction, Fire, Take, RunStep, Read, Synced, SyncFails, LoginFails,
         MarkAuthError, RemoveJob, CounterExpires, LockExpires, EndRun, Syncable, Live,
         LifecycleInv, TypeOK
<1>4. \A b \in Account : run'[b] \in {"syncing", "marking"} => Exists(b)'
  BY <1>2, <1>3 DEF LifecycleInv, RowsExist, RowsKept
<1>5. \A q \in Request : call[q].on \subseteq Account
  BY DEF LifecycleInv, TypeOK, Call, Actor
<1>6. \A q \in Request : At(q, "update", "write")' => \A b \in call'[q].on : Exists(b)'
  BY <1>1, <1>2, <1>5 DEF LifecycleInv, RowsExist, RowsKept, At
<1>7. CheckKept
  BY <1>1 DEF CheckKept, At
<1> QED
  BY <1>2, <1>4, <1>6, <1>7 DEF RowsExist, At, Quiet

LEMMA FaultKeeps ==
  ASSUME LifecycleInv, ApiDies \/ WorkerDies \/ \E q \in Failing : Interrupted(q)
  PROVE  LifecycleInv' /\ Quiet
<1>s. Shape /\ RowsExist /\ CallTyped /\ unsure \subseteq Account
  BY DEF LifecycleInv, TypeOK, Shape, CallTyped
<1>1. CASE ApiDies
  <2>1. /\ call' \in [Actor -> Call] /\ \A q \in Actor : call'[q].step = "idle"
        /\ UNCHANGED <<tenant, acct, jobs, waiting, fails, lock, run, unsure>>
        /\ api' = "down"
    BY <1>1 DEF ApiDies, NoCall, Call, Op, Step, AccountStatus, dbVars, redisVars
  <2>2. TypeOK'
    BY <1>s, <2>1 DEF TypeOK, Shape
  <2>3. RowsExist' /\ CheckKept
    BY <1>s, <2>1 DEF RowsExist, CheckKept, At, Actor, Exists
  <2> QED
    BY <2>1, <2>2, <2>3, SameRows DEF LifecycleInv, Quiet
<1>2. CASE WorkerDies
  <2>1. /\ run' = [a \in Account |-> "idle"] /\ waiting' \subseteq Account
        /\ UNCHANGED <<tenant, acct, jobs, fails, lock, api, call>>
        /\ unsure' \subseteq Account
    BY <1>2, <1>s DEF WorkerDies, Shape, dbVars
  <2>2. TypeOK'
    BY <1>s, <2>1 DEF TypeOK, Shape
  <2>3. RowsExist' /\ CheckKept
    BY <1>s, <2>1 DEF RowsExist, CheckKept, At, Exists
  <2> QED
    BY <2>1, <2>2, <2>3, SameRows DEF LifecycleInv, Quiet
<1>3. ASSUME NEW q \in Failing, Interrupted(q) PROVE LifecycleInv' /\ Quiet
  <2>1. q \in Actor /\ call[q] \in Call
    BY <1>s, LifecycleAssumption DEF Actor, CallTyped
  <2>2. OnlyOf(q) /\ call'[q].step # "write"
    BY <1>3, <2>1, <1>s, DoneCall DEF Interrupted
  <2>3. /\ UNCHANGED <<tenant, acct, jobs, waiting, fails, lock, api, run>>
        /\ unsure' \subseteq Account
    BY <1>3, <2>1, <1>s DEF Interrupted, Call, dbVars, redisVars
  <2>4. RowsExist' /\ Quiet
    BY <2>1, <2>2, <2>3, SameRows, CallMovesOn DEF Quiet
  <2>5. TypeOK'
    BY <1>s, <2>2, <2>3 DEF TypeOK, Shape, OnlyOf
  <2> QED
    BY <2>4, <2>5 DEF LifecycleInv
<1> QED
  BY <1>1, <1>2, <1>3

-----------------------------------------------------------------------------
(* The inductive invariant *)

LEMMA InitInv == Init => LifecycleInv
<1> SUFFICES ASSUME Init PROVE LifecycleInv
  OBVIOUS
<1>1. TypeOK
  BY DEF Init, TypeOK, Actor, Call, NoCall, Op, Step, AccountStatus, TenantStatus,
         Threshold
<1>2. RowsExist
  BY DEF Init, RowsExist, At, NoCall, Actor
<1> QED
  BY <1>1, <1>2 DEF LifecycleInv

(* Every step keeps the invariant, and all but the check and the insert of *)
(* create are quiet.                                                       *)
LEMMA StepInv ==
  ASSUME LifecycleInv, [Next]_vars
  PROVE  /\ LifecycleInv'
         /\ \/ Quiet
            \/ \E q \in Request : Insert(q) \/ \E a \in Account : Create(q, a)
<1> DEFINE Grows == \E q \in Request : Insert(q) \/ \E a \in Account : Create(q, a)
<1>t. Track => unsure' \subseteq Account
  BY DEF Track, LifecycleInv, TypeOK
<1>1. ASSUME NEW q \in Request, RequestStep(q), Track
      PROVE  LifecycleInv' /\ (Quiet \/ Grows)
  BY <1>1, <1>t, RequestKeeps DEF LifecycleInv, TypeOK, Shape
<1>2. ASSUME NEW q \in Actor, Schedule(q), Track PROVE LifecycleInv' /\ Quiet
  BY <1>2, <1>t, ScheduleKeeps DEF LifecycleInv, TypeOK, Shape
<1>3. ASSUME StartApi \/ ReadActive \/ ListJobs, Track PROVE LifecycleInv' /\ Quiet
  BY <1>3, <1>t, BootKeeps DEF LifecycleInv, TypeOK, Shape
<1>4. ASSUME NEW a \in Account, WorkerAction(a), Track PROVE LifecycleInv' /\ Quiet
  BY <1>4, <1>t, WorkerShape, WorkerKeeps DEF LifecycleInv, TypeOK, Shape
<1>5. CASE ApiDies \/ WorkerDies \/ \E q \in Failing : Interrupted(q)
  BY <1>5, FaultKeeps
<1>6. CASE UNCHANGED vars
  <2>1. UNCHANGED <<tenant, acct, jobs, waiting, fails, lock, api, call, run, unsure>>
    BY <1>6 DEF vars, dbVars, redisVars
  <2>2. LifecycleInv'
    BY <2>1 DEF LifecycleInv, TypeOK, RowsExist, At, Exists
  <2> QED
    BY <2>1, <2>2, SameRows DEF Quiet, CheckKept, At
<1> QED
  BY <1>1, <1>2, <1>3, <1>4, <1>5, <1>6 DEF Next, WorkerAction

THEOREM InvariantHolds == Spec => []LifecycleInv
<1>1. LifecycleInv /\ [Next]_vars => LifecycleInv'
  BY StepInv
<1> QED
  BY <1>1, InitInv, PTL DEF Spec

(* Every reachable state is well typed, whatever the number of accounts,   *)
(* of requests and the plan.                                               *)
THEOREM LifecycleTypes == Spec => []TypeOK
<1>1. LifecycleInv => TypeOK
  BY DEF LifecycleInv
<1> QED
  BY <1>1, InvariantHolds, PTL

-----------------------------------------------------------------------------
(* The plan's limit *)

(* Both sets that the bound counts are finite.                             *)
LEMMA CountsAreFinite ==
  /\ IsFiniteSet(LiveAccounts) /\ Cardinality(LiveAccounts) \in Nat
  /\ IsFiniteSet(Inserting) /\ Cardinality(Inserting) \in Nat
  /\ Cardinality(Request) \in Nat \ {0}
<1>1. LiveAccounts \subseteq Account /\ Inserting \subseteq Request
  BY DEF LiveAccounts, Inserting
<1> QED
  BY <1>1, LifecycleAssumption, FS_Subset, FS_CardinalityType, FS_EmptySet

(* A quiet step keeps the bound.                                           *)
LEMMA QuietKeeps ==
  ASSUME OvershootBounded, Quiet
  PROVE  OvershootBounded'
<1>1. LiveAccounts' \subseteq LiveAccounts
  BY DEF Quiet, LiveKept, LiveAccounts
<1>2. Inserting' \subseteq Inserting
  BY DEF Quiet, CheckKept, Inserting
<1>3. /\ Cardinality(LiveAccounts') <= Cardinality(LiveAccounts)
      /\ Cardinality(Inserting') <= Cardinality(Inserting)
      /\ Cardinality(LiveAccounts') \in Nat /\ Cardinality(Inserting') \in Nat
  BY <1>1, <1>2, CountsAreFinite, FS_Subset, FS_CardinalityType
<1> QED
  BY <1>3, CountsAreFinite, LifecycleAssumption DEF OvershootBounded

(* create: the check passed, so that there was room for one more.          *)
LEMMA CreateKeeps ==
  ASSUME NEW q \in Request, NEW a \in Account, Create(q, a)
  PROVE  OvershootBounded'
<1>1. LiveAccounts' = LiveAccounts
  BY DEF Create, LiveAccounts, Live, Exists, dbVars
<1>2. Cardinality(LiveAccounts) < MaxAccounts
  BY DEF Create, RoomForOne
<1>3. Inserting' \subseteq Request
  BY DEF Inserting
<1>4. Cardinality(Inserting') <= Cardinality(Request) /\ Cardinality(Inserting') \in Nat
  BY <1>3, LifecycleAssumption, FS_Subset, FS_CardinalityType
<1> QED
  BY <1>1, <1>2, <1>4, CountsAreFinite, LifecycleAssumption DEF OvershootBounded

(* The insert turns a request that passed the check into an account.       *)
LEMMA InsertKeeps ==
  ASSUME LifecycleInv, OvershootBounded, NEW q \in Request, Insert(q)
  PROVE  OvershootBounded'
<1>q. q \in Actor /\ CallTyped /\ call[q].on \subseteq Account
  BY DEF LifecycleInv, TypeOK, CallTyped, Actor, Call
<1>1. PICK a \in Account :
        \/ Done(q) /\ acct' = acct
        \/ acct' = [acct EXCEPT ![a].status = "ACTIVA"] /\ PlanFor(q, a, acct'[a], "schedule")
  BY <1>q DEF Insert
<1>2. q \in Inserting
  BY DEF Insert, Inserting
<1>3. OnlyOf(q) /\ call'[q].step # "write"
  BY <1>1, <1>q, Words, DoneCall, PlanForCall
<1>4. Inserting' \subseteq Inserting \ {q}
  BY <1>3 DEF OnlyOf, Inserting, At, Actor
<1>5. Cardinality(Inserting \ {q}) = Cardinality(Inserting) - 1
  BY <1>2, CountsAreFinite, FS_RemoveElement
<1>6. IsFiniteSet(Inserting \ {q})
  BY CountsAreFinite, FS_RemoveElement
<1>7. Cardinality(Inserting') \in Nat /\ Cardinality(Inserting') <= Cardinality(Inserting) - 1
  BY <1>4, <1>5, <1>6, FS_Subset, FS_CardinalityType
<1>8. LiveAccounts' \subseteq LiveAccounts \cup {a}
  BY <1>1 DEF LiveAccounts, Live, Exists, LifecycleInv, TypeOK
<1>9. /\ IsFiniteSet(LiveAccounts \cup {a})
      /\ Cardinality(LiveAccounts \cup {a})
           = IF a \in LiveAccounts THEN Cardinality(LiveAccounts)
                                   ELSE Cardinality(LiveAccounts) + 1
  BY CountsAreFinite, FS_AddElement
<1>10. /\ Cardinality(LiveAccounts') <= Cardinality(LiveAccounts \cup {a})
       /\ Cardinality(LiveAccounts') \in Nat
  BY <1>8, <1>9, FS_Subset, FS_CardinalityType
<1>11. Cardinality(LiveAccounts') <= Cardinality(LiveAccounts) + 1
  BY <1>9, <1>10, CountsAreFinite
<1> QED
  BY <1>7, <1>10, <1>11, CountsAreFinite, LifecycleAssumption DEF OvershootBounded

(* The plan may be exceeded by requests that race between the count and    *)
(* the insert, but never by more accounts than the requests served at once *)
(* less one, whatever else happens, restarts included.                     *)
THEOREM PlanNearlyKept == Spec => []OvershootBounded
<1>1. Init => OvershootBounded
  <2> SUFFICES ASSUME Init PROVE OvershootBounded
    OBVIOUS
  <2>1. LiveAccounts = {}
    BY DEF Init, LiveAccounts, Live, Exists
  <2>2. Inserting = {}
    BY DEF Init, Inserting, At, NoCall, Actor
  <2> QED
    BY <2>1, <2>2, FS_EmptySet, CountsAreFinite, LifecycleAssumption DEF OvershootBounded
<1>2. LifecycleInv /\ OvershootBounded /\ [Next]_vars => OvershootBounded'
  BY StepInv, QuietKeeps, CreateKeeps, InsertKeeps
<1> QED
  BY <1>1, <1>2, InvariantHolds, PTL DEF Spec

----------------------------------------------------------------------------
(* The queue follows the database.                                         *)

(* The shape of a call at each step: what it is on and what it may touch.  *)
CallOK(q) ==
  LET c == call[q] IN
  /\ c.step = "write" => c.op \in {"create", "update", "remove", "suspend", "activate"}
  /\ c.step = "list" => c.op \in {"suspend", "activate", "boot"}
  /\ c.step = "reset" => c.op \in {"update", "boot"}
  /\ c.step = "enqueue" => c.op = "manual"
  /\ c.step = "schedule" => c.op \in Op \ {"none", "manual"}
  /\ c.step \in {"reset", "schedule"} => c.add \cup c.del \subseteq c.on
  /\ c.op \in {"suspend", "activate", "boot"} => c.on = Account
  /\ c.op = "manual" => c.on = {}
  /\ c.op = "boot" => q = Bootstrap

(* A process that is down serves nothing; one that boots serves no request *)
(* yet, and one that is up has booted.                                     *)
ProcessOK ==
  /\ api # "up" => \A q \in Request : call[q].step = "idle"
  /\ api = "booting" <=> call[Bootstrap].step # "idle"
  /\ api = "booting" => call[Bootstrap].op = "boot"

Agrees(a) == a \in jobs <=> Should(a)

(* What remains of the plan of a call brings the schedule to agree.        *)
Planned(q, a) ==
  /\ a \in call[q].add => Should(a)
  /\ a \in call[q].del => ~Should(a)
  /\ a \notin call[q].add \cup call[q].del => Agrees(a)

(* What an actor that works alone on an account knows of it.               *)
Knows(q, a) ==
  /\ call[q].op \in {"create", "update", "remove"} => tenant = "ACTIVO"
  /\ call[q].step = "write" => Agrees(a)
  /\ call[q].op \in {"suspend", "activate"} /\ call[q].step = "write"
       => call[q].seen = tenant
  /\ At(q, "suspend", "list") => tenant = "SUSPENDIDO" /\ (a \in jobs => Exists(a))
  /\ At(q, "activate", "list") => tenant = "ACTIVO" /\ a \notin jobs
  /\ At(q, "boot", "reset") => (a \in call[q].add <=> Should(a))
  /\ At(q, "update", "reset") \/ call[q].step = "schedule" => Planned(q, a)

(* The schedule of an account that no overlap or failure has spoiled.      *)
Sound(a) ==
  /\ ~Overlap(a)
  /\ \A q \in Working(a) : Knows(q, a)
  /\ api = "up" /\ Working(a) = {} /\ run[a] # "removing" => Agrees(a)
  /\ run[a] = "removing" => ~Should(a)

(* A run holds the lock of its account.                                    *)
LockHeld == \A a \in Account : run[a] # "idle" => a \in lock

ScheduleInv ==
  /\ LifecycleInv
  /\ LockHeld
  /\ \A q \in Actor : CallOK(q)
  /\ ProcessOK
  /\ \A a \in Account \ unsure : Sound(a)

-----------------------------------------------------------------------------
(* What the helpers leave in a call *)

LEMMA BeginFields ==
  ASSUME CallTyped, NEW q \in Actor, NEW op, NEW step, NEW on, NEW seen,
         Begin(q, op, step, on, seen)
  PROVE  call'[q] = [op |-> op, step |-> step, on |-> on, seen |-> seen,
                     add |-> {}, del |-> {}]
BY DEF CallTyped, Begin, NoCall

LEMMA BecomesFields ==
  ASSUME CallTyped, NEW q \in Actor, NEW step, Becomes(q, step)
  PROVE  /\ call'[q].step = step /\ call'[q].op = call[q].op
         /\ call'[q].on = call[q].on /\ call'[q].seen = call[q].seen
         /\ call'[q].add = call[q].add /\ call'[q].del = call[q].del
BY DEF CallTyped, Becomes, Call

LEMMA PlanFields ==
  ASSUME CallTyped, NEW q \in Actor, NEW step, NEW add, NEW del,
         Plan(q, add, del, step)
  PROVE  /\ call'[q].step = step /\ call'[q].op = call[q].op
         /\ call'[q].on = call[q].on /\ call'[q].seen = call[q].seen
         /\ call'[q].add = add /\ call'[q].del = del
<1>1. call'[q] = [call[q] EXCEPT !.step = step, !.add = add, !.del = del]
  BY DEF CallTyped, Plan
<1> QED
  BY <1>1 DEF CallTyped, Call

LEMMA DoneFields ==
  ASSUME CallTyped, NEW q \in Actor, Done(q)
  PROVE  call'[q] = NoCall
BY DEF CallTyped, Done

-----------------------------------------------------------------------------
(* A step of one actor *)

(* What an account sees of a step that is not about it.                    *)
Untouched(a) ==
  /\ acct'[a] = acct[a] /\ tenant' = tenant
  /\ a \in jobs' <=> a \in jobs
  /\ run'[a] = run[a]

LEMMA UntouchedAgrees ==
  ASSUME NEW a \in Account, Untouched(a)
  PROVE  (Should(a)' <=> Should(a)) /\ (Agrees(a)' <=> Agrees(a)) /\ (Exists(a)' <=> Exists(a))
BY DEF Untouched, Should, Syncable, Live, Exists, Agrees

(* An account on which the actor works neither before nor after its step.  *)
LEMMA ElsewhereSound ==
  ASSUME NEW q \in Actor, OnlyOf(q), NEW a \in Account, Sound(a), Untouched(a),
         q \notin Working(a), q \notin Working(a)', api' = api
  PROVE  Sound(a)'
<1>1. \A p \in Actor : p # q => call'[p] = call[p]
  BY DEF OnlyOf
<1>2. Working(a)' = Working(a)
  BY <1>1 DEF Working
<1>3. Overlap(a)' <=> Overlap(a)
  BY <1>2 DEF Overlap, Locking, Untouched
<1>4. ASSUME NEW p \in Working(a) PROVE Knows(p, a)'
  <2>1. Knows(p, a) /\ call'[p] = call[p]
    BY <1>1, <1>4 DEF Sound, Working
  <2> QED
    BY <2>1, UntouchedAgrees DEF Knows, Planned, At, Untouched
<1> QED
  BY <1>2, <1>3, <1>4, UntouchedAgrees DEF Sound, Untouched

(* An account on which the actor works: alone, or the account is spoiled.  *)
LEMMA HereSound ==
  ASSUME NEW q \in Actor, OnlyOf(q), NEW a \in Account, Sound(a), ~Overlap(a)',
         q \in Working(a) \/ q \in Working(a)', run'[a] = run[a],
         q \in Working(a)' => Knows(q, a)',
         q \notin Working(a)' => Agrees(a)'
  PROVE  Sound(a)'
<1>1. \A p \in Actor : p # q => call'[p] = call[p]
  BY DEF OnlyOf
<1>2. \A p \in Working(a)' : p = q
  BY <1>1 DEF Sound, Overlap, Working
<1>3. ~Locking(a)
  BY DEF Sound, Overlap, Locking
<1>4. run'[a] # "removing"
  BY <1>3 DEF Locking
<1>5. q \notin Working(a)' => Working(a)' = {}
  BY <1>2
<1> QED
  BY <1>2, <1>4, <1>5 DEF Sound

-----------------------------------------------------------------------------
(* The requests *)

LEMMA StillOK ==
  ASSUME ScheduleInv, NEW q \in Actor, OnlyOf(q), CallOK(q)'
  PROVE  \A p \in Actor : CallOK(p)'
BY DEF ScheduleInv, OnlyOf, CallOK

(* A request served by a process that is up keeps ProcessOK.               *)
LEMMA ServedOK ==
  ASSUME ScheduleInv, NEW q \in Request, OnlyOf(q), api' = api, api = "up"
  PROVE  ProcessOK'
<1>1. call'[Bootstrap] = call[Bootstrap]
  BY LifecycleAssumption DEF OnlyOf, Actor
<1> QED
  BY <1>1 DEF ScheduleInv, ProcessOK

(* A request that begins, on the accounts that it found to agree.          *)
LEMMA BeginSound ==
  ASSUME ScheduleInv, NEW q \in Request, OnlyOf(q), call[q].step = "idle", api = "up",
         UNCHANGED <<tenant, acct, jobs, api, run>>,
         call'[q].step \in {"write", "enqueue"},
         call'[q].step = "enqueue" => call'[q].op = "manual" /\ call'[q].on = {},
         call'[q].op \in {"create", "update", "remove"} => tenant = "ACTIVO",
         call'[q].op \in {"suspend", "activate"} => call'[q].seen = tenant,
         NEW a \in Account \ unsure, ~Overlap(a)'
  PROVE  Sound(a)'
<1>q. q \in Actor
  BY DEF Actor
<1>1. Sound(a) /\ Untouched(a)
  BY DEF ScheduleInv, Untouched
<1>2. q \notin Working(a)
  BY DEF Working
<1>3. CASE q \notin Working(a)'
  BY <1>q, <1>1, <1>2, <1>3, ElsewhereSound
<1>4. CASE q \in Working(a)'
  <2>1. call'[q].step = "write"
    BY <1>4 DEF Working
  <2>2. Working(a) = {} /\ ~Locking(a)
    BY <1>q, <1>2, <1>4 DEF Overlap, Working, OnlyOf, Locking
  <2>3. Agrees(a)
    BY <1>1, <2>2 DEF Sound, Locking
  <2>4. Knows(q, a)'
    BY <2>1, <2>3, <1>1, UntouchedAgrees DEF Knows, At
  <2> QED
    BY <1>q, <1>1, <1>4, <2>4, HereSound
<1> QED
  BY <1>3, <1>4

(* What each step has to leave; the accounts that overlap join unsure.     *)
Fine ==
  /\ \A p \in Actor : CallOK(p)'
  /\ ProcessOK'
  /\ \A a \in Account \ unsure : ~Overlap(a)' => Sound(a)'

LEMMA BeginFine ==
  ASSUME ScheduleInv, NEW q \in Request,
         \/ \E a \in Account : Create(q, a) \/ Update(q, a) \/ Remove(q, a) \/ Manual(q, a)
         \/ SetTenant(q, "suspend") \/ SetTenant(q, "activate")
  PROVE  Fine
<1>q. q \in Actor /\ CallTyped
  BY DEF ScheduleInv, LifecycleInv, TypeOK, CallTyped, Actor
<1>1. /\ call[q].step = "idle" /\ api = "up"
      /\ UNCHANGED <<tenant, acct, jobs, api, run>>
  BY DEF Create, Update, Remove, Manual, SetTenant, Authorised, Free, dbVars, redisVars
<1> DEFINE
  Begun ==
    /\ call'[q].op \in {"create", "update", "remove", "manual", "suspend", "activate"}
    /\ call'[q].step = IF call'[q].op = "manual" THEN "enqueue" ELSE "write"
    /\ call'[q].op \in {"create", "update", "remove"} => tenant = "ACTIVO"
    /\ call'[q].op \in {"suspend", "activate"} =>
         call'[q].seen = tenant /\ call'[q].on = Account
    /\ call'[q].op = "manual" => call'[q].on = {}
    /\ \A p \in Actor \ {q} : call'[p] = call[p]
<1>2. Begun
  <2>1. ASSUME NEW a \in Account, NEW op \in {"create", "update", "remove"}, NEW seen,
               Begin(q, op, "write", {a}, seen), tenant = "ACTIVO"
        PROVE  Begun
    <3>1. call'[q] = [op |-> op, step |-> "write", on |-> {a}, seen |-> seen,
                      add |-> {}, del |-> {}]
      BY <2>1, <1>q, BeginFields
    <3>2. \A p \in Actor \ {q} : call'[p] = call[p]
      BY <2>1, <1>q DEF Begin, CallTyped
    <3> QED
      BY <3>1, <3>2, <2>1
  <2>2. ASSUME NEW a \in Account, Manual(q, a)
        PROVE  Begun
    BY <2>2, <1>q DEF Manual, NoCall, CallTyped
  <2>3. ASSUME NEW op \in {"suspend", "activate"}, SetTenant(q, op)
        PROVE  Begun
    <3>1. call'[q] = [op |-> op, step |-> "write", on |-> Account, seen |-> tenant,
                      add |-> {}, del |-> {}]
      BY <2>3, <1>q, BeginFields DEF SetTenant
    <3>2. \A p \in Actor \ {q} : call'[p] = call[p]
      BY <2>3, <1>q DEF SetTenant, Begin, CallTyped
    <3> QED
      BY <3>1, <3>2
  <2> QED
    BY <2>1, <2>2, <2>3 DEF Create, Update, Remove, Authorised
<1>4. call' \in [Actor -> Call]
  BY RequestKeeps DEF ScheduleInv, RequestStep, Shape
<1>5. OnlyOf(q)
  BY <1>2, <1>4 DEF OnlyOf
<1>6. CallOK(q)'
  BY <1>2, LifecycleAssumption DEF CallOK
<1>7. \A a \in Account \ unsure : ~Overlap(a)' => Sound(a)'
  BY <1>1, <1>2, <1>5, BeginSound
<1> QED
  BY <1>1, <1>5, <1>6, <1>7, <1>q, StillOK, ServedOK DEF Fine

(* A request that goes on: what the accounts it works on need, and what    *)
(* the others see.                                                         *)
LEMMA GoesOnFine ==
  ASSUME ScheduleInv, NEW q \in Request, OnlyOf(q), call[q].step # "idle", CallOK(q)',
         api' = api, run' = run, call'[q].on = call[q].on \/ call'[q].step = "idle",
         \A a \in Account \ call[q].on : Untouched(a),
         \A a \in call[q].on : Knows(q, a) =>
           IF call'[q].step = "idle" THEN Agrees(a)' ELSE Knows(q, a)'
  PROVE  Fine
<1>q. q \in Actor /\ call[q].on \subseteq Account
  BY DEF ScheduleInv, LifecycleInv, TypeOK, Actor, Call
<1>1. api = "up"
  BY DEF ScheduleInv, ProcessOK
<1>2. ASSUME NEW a \in Account \ unsure, ~Overlap(a)' PROVE Sound(a)'
  <2>1. Sound(a)
    BY DEF ScheduleInv
  <2>2. CASE a \in call[q].on
    <3>1. q \in Working(a) /\ Knows(q, a)
      BY <2>1, <2>2, <1>q DEF Working, Sound
    <3>2. q \in Working(a)' <=> call'[q].step # "idle"
      BY <2>2, <1>q DEF Working
    <3> QED
      BY <1>2, <1>q, <2>1, <2>2, <3>1, <3>2, HereSound
  <2>3. CASE a \notin call[q].on
    <3>1. q \notin Working(a) /\ q \notin Working(a)'
      BY <2>3 DEF Working
    <3> QED
      BY <1>q, <2>1, <2>3, <3>1, ElsewhereSound
  <2> QED
    BY <2>2, <2>3
<1> QED
  BY <1>1, <1>2, <1>q, StillOK, ServedOK DEF Fine

LEMMA IdleOK ==
  ASSUME NEW q \in Actor, call'[q] = NoCall
  PROVE  CallOK(q)' /\ call'[q].step = "idle"
BY DEF CallOK, NoCall

(* create and update write their row and plan what its status asks for.    *)
LEMMA WriteRowFine ==
  ASSUME ScheduleInv, NEW q \in Request, NEW b \in call[q].on,
         call[q].step = "write", call[q].op \in {"create", "update"},
         NEW status \in AccountStatus, acct' = [acct EXCEPT ![b].status = status],
         NEW step \in {"reset", "schedule"}, step = "reset" => call[q].op = "update",
         PlanFor(q, b, acct'[b], step),
         UNCHANGED <<tenant, jobs, api, run>>
  PROVE  Fine
<1>q. q \in Actor /\ CallTyped /\ b \in Account
  BY DEF ScheduleInv, LifecycleInv, TypeOK, CallTyped, Actor, Call
<1>1. acct \in [Account -> [status : AccountStatus, deleted : BOOLEAN]]
  BY DEF ScheduleInv, LifecycleInv, TypeOK
<1>2. /\ acct'[b].status = status /\ acct'[b].deleted = acct[b].deleted
      /\ \A a \in Account : a # b => acct'[a] = acct[a]
  BY <1>q, <1>1
<1>3. CASE status = "ACTIVA" /\ ~acct[b].deleted
  <2>1. Plan(q, {b}, {}, step)
    BY <1>2, <1>3 DEF PlanFor
  <2>2. /\ OnlyOf(q)
        /\ call'[q].step = step /\ call'[q].op = call[q].op
        /\ call'[q].on = call[q].on /\ call'[q].seen = call[q].seen
        /\ call'[q].add = {b} /\ call'[q].del = {}
    BY <2>1, <1>q, Words, PlanCall, PlanFields
  <2>3. CallOK(q)'
    BY <2>2, LifecycleAssumption DEF CallOK, Op
  <2>4. ASSUME NEW a \in Account, Knows(q, a) PROVE Knows(q, a)'
    <3>1. tenant = "ACTIVO" /\ Agrees(a)
      BY <2>4 DEF Knows
    <3>2. a = b => Should(a)'
      BY <1>2, <1>3, <3>1 DEF Should, Syncable, Live, Exists
    <3>3. a # b => Agrees(a)'
      BY <1>2, <3>1 DEF Agrees, Should, Syncable, Live, Exists
    <3> QED
      BY <2>2, <3>1, <3>2, <3>3 DEF Knows, Planned, At
  <2>5. \A a \in Account \ call[q].on : Untouched(a)
    BY <1>2 DEF Untouched
  <2> QED
    BY <1>q, <2>2, <2>3, <2>4, <2>5, GoesOnFine DEF Call, CallTyped
<1>4. CASE ~(status = "ACTIVA" /\ ~acct[b].deleted)
  <2>1. Plan(q, {}, {b}, step)
    BY <1>2, <1>4 DEF PlanFor
  <2>2. /\ OnlyOf(q)
        /\ call'[q].step = step /\ call'[q].op = call[q].op
        /\ call'[q].on = call[q].on /\ call'[q].seen = call[q].seen
        /\ call'[q].add = {} /\ call'[q].del = {b}
    BY <2>1, <1>q, Words, PlanCall, PlanFields
  <2>3. CallOK(q)'
    BY <2>2, LifecycleAssumption DEF CallOK, Op
  <2>4. ASSUME NEW a \in Account, Knows(q, a) PROVE Knows(q, a)'
    <3>1. tenant = "ACTIVO" /\ Agrees(a)
      BY <2>4 DEF Knows
    <3>2. a = b => ~Should(a)'
      BY <1>2, <1>4, <3>1 DEF Should, Syncable, Live, Exists
    <3>3. a # b => Agrees(a)'
      BY <1>2, <3>1 DEF Agrees, Should, Syncable, Live, Exists
    <3> QED
      BY <2>2, <3>1, <3>2, <3>3 DEF Knows, Planned, At
  <2>5. \A a \in Account \ call[q].on : Untouched(a)
    BY <1>2 DEF Untouched
  <2> QED
    BY <1>q, <2>2, <2>3, <2>4, <2>5, GoesOnFine DEF Call, CallTyped
<1> QED
  BY <1>3, <1>4

(* A request that ends without having changed a thing.                     *)
LEMMA EndsFine ==
  ASSUME ScheduleInv, NEW q \in Request, Done(q), call[q].step \in {"write", "enqueue"},
         UNCHANGED <<tenant, acct, jobs, api, run>>
  PROVE  Fine
<1>q. q \in Actor /\ CallTyped
  BY DEF ScheduleInv, LifecycleInv, TypeOK, CallTyped, Actor
<1>1. OnlyOf(q) /\ CallOK(q)' /\ call'[q].step = "idle"
  BY <1>q, DoneCall, DoneFields, IdleOK
<1>2. \A a \in Account : Untouched(a)
  BY DEF Untouched
<1>3. call[q].on \subseteq Account
  BY <1>q DEF CallTyped, Call
<1>4. call[q].step = "enqueue" => call[q].on = {}
  BY <1>q DEF ScheduleInv, CallOK
<1>5. ASSUME NEW a \in call[q].on, Knows(q, a) PROVE Agrees(a)'
  BY <1>2, <1>3, <1>4, <1>5, UntouchedAgrees DEF Knows
<1> QED
  BY <1>1, <1>2, <1>5, GoesOnFine

LEMMA InsertFine ==
  ASSUME ScheduleInv, NEW q \in Request, Insert(q)
  PROVE  Fine
<1>1. PICK a \in call[q].on :
        \/ Done(q) /\ acct' = acct
        \/ acct' = [acct EXCEPT ![a].status = "ACTIVA"] /\ PlanFor(q, a, acct'[a], "schedule")
  BY DEF Insert
<1>2. /\ call[q].step = "write" /\ call[q].op = "create"
      /\ UNCHANGED <<tenant, jobs, api, run>>
  BY DEF Insert, At, redisVars
<1> QED
  BY <1>1, <1>2, Words, EndsFine, WriteRowFine

LEMMA WriteUpdateFine ==
  ASSUME ScheduleInv, NEW q \in Request, WriteUpdate(q)
  PROVE  Fine
<1>1. PICK a \in call[q].on, wanted \in {"NONE", "ACTIVA", "INACTIVA"}, creds \in BOOLEAN :
        /\ acct' = [acct EXCEPT ![a].status = NewStatus(a, wanted, creds, call[q].seen)]
        /\ \/ PlanFor(q, a, acct'[a], "reset")
           \/ PlanFor(q, a, acct'[a], "schedule")
  BY DEF WriteUpdate
<1>2. acct[a].status \in AccountStatus
  BY DEF ScheduleInv, LifecycleInv, TypeOK, Actor, Call
<1>3. NewStatus(a, wanted, creds, call[q].seen) \in AccountStatus
  BY <1>1, <1>2 DEF NewStatus, AccountStatus
<1>4. /\ call[q].step = "write" /\ call[q].op = "update"
      /\ UNCHANGED <<tenant, jobs, api, run>>
  BY DEF WriteUpdate, At, redisVars
<1> QED
  BY <1>1, <1>3, <1>4, WriteRowFine

LEMMA WriteRemoveFine ==
  ASSUME ScheduleInv, NEW q \in Request, WriteRemove(q)
  PROVE  Fine
<1>q. q \in Actor /\ CallTyped /\ call[q].on \in SUBSET Account /\ {} \in SUBSET Account
  BY DEF ScheduleInv, LifecycleInv, TypeOK, CallTyped, Actor, Call
<1>1. /\ call[q].step = "write" /\ call[q].op = "remove"
      /\ UNCHANGED <<tenant, jobs, api, run>>
      /\ Plan(q, {}, call[q].on, "schedule")
  BY DEF WriteRemove, At, redisVars
<1>2. \A a \in Account : acct'[a] = IF a \in call[q].on
        THEN [status |-> "INACTIVA", deleted |-> TRUE] ELSE acct[a]
  BY DEF WriteRemove
<1>3. /\ OnlyOf(q)
      /\ call'[q].step = "schedule" /\ call'[q].op = "remove"
      /\ call'[q].on = call[q].on
      /\ call'[q].add = {} /\ call'[q].del = call[q].on
  BY <1>1, <1>q, Words, PlanCall, PlanFields
<1>4. CallOK(q)'
  BY <1>3, LifecycleAssumption DEF CallOK, Op
<1>5. ASSUME NEW a \in call[q].on, Knows(q, a) PROVE Knows(q, a)'
  <2>1. tenant = "ACTIVO"
    BY <1>1, <1>5 DEF Knows
  <2>2. ~Should(a)'
    BY <1>2, <1>q DEF Should, Syncable, Live
  <2> QED
    BY <1>1, <1>3, <2>1, <2>2 DEF Knows, Planned, At
<1>6. \A a \in Account \ call[q].on : Untouched(a)
  BY <1>1, <1>2 DEF Untouched
<1> QED
  BY <1>1, <1>3, <1>4, <1>5, <1>6, GoesOnFine

LEMMA ResetFine ==
  ASSUME ScheduleInv, NEW q \in Request, Reset(q)
  PROVE  Fine
<1>q. q \in Actor /\ CallTyped /\ call[q].on \subseteq Account
  BY DEF ScheduleInv, LifecycleInv, TypeOK, CallTyped, Actor, Call
<1>1. /\ At(q, "update", "reset") /\ Becomes(q, "schedule")
      /\ UNCHANGED <<tenant, acct, jobs, api, run>>
  BY DEF Reset, dbVars
<1>2. /\ OnlyOf(q) /\ call'[q].step = "schedule" /\ call'[q].op = "update"
      /\ call'[q].on = call[q].on /\ call'[q].add = call[q].add
      /\ call'[q].del = call[q].del
  BY <1>1, <1>q, Words, BecomesCall, BecomesFields DEF At
<1>3. CallOK(q)'
  BY <1>1, <1>2, <1>q DEF ScheduleInv, CallOK, Op, At
<1>4. \A a \in Account : Untouched(a)
  BY <1>1 DEF Untouched
<1>5. ASSUME NEW a \in call[q].on, Knows(q, a) PROVE Knows(q, a)'
  <2>1. Planned(q, a) /\ tenant = "ACTIVO"
    BY <1>1, <1>5 DEF Knows, At
  <2>2. Planned(q, a)'
    BY <2>1, <1>2, <1>4, <1>q, UntouchedAgrees DEF Planned
  <2> QED
    BY <1>1, <1>2, <2>1, <2>2 DEF Knows, At
<1> QED
  BY <1>1, <1>2, <1>3, <1>4, <1>5, GoesOnFine DEF At

LEMMA WriteTenantFine ==
  ASSUME ScheduleInv, NEW q \in Request,
         \/ WriteTenant(q, "suspend", "SUSPENDIDO")
         \/ WriteTenant(q, "activate", "ACTIVO")
  PROVE  Fine
<1>q. q \in Actor /\ CallTyped
  BY DEF ScheduleInv, LifecycleInv, TypeOK, CallTyped, Actor
<1>1. PICK op \in {"suspend", "activate"} :
        WriteTenant(q, op, IF op = "suspend" THEN "SUSPENDIDO" ELSE "ACTIVO")
  OBVIOUS
<1> DEFINE status == IF op = "suspend" THEN "SUSPENDIDO" ELSE "ACTIVO"
<1>2. /\ call[q].op = op /\ call[q].step = "write" /\ call[q].on = Account
      /\ tenant' = status /\ UNCHANGED <<acct, jobs, api, run>>
      /\ IF call[q].seen # status THEN Becomes(q, "list") ELSE Done(q)
  BY <1>1, <1>q DEF WriteTenant, At, redisVars, ScheduleInv, CallOK
<1>3. CASE call[q].seen = status
  <2>1. OnlyOf(q) /\ CallOK(q)' /\ call'[q].step = "idle"
    BY <1>2, <1>3, <1>q, DoneCall, DoneFields, IdleOK
  <2>2. ASSUME NEW a \in Account, Knows(q, a) PROVE Agrees(a)'
    <3>1. Agrees(a) /\ tenant' = tenant
      BY <1>2, <1>3, <2>2 DEF Knows
    <3> QED
      BY <1>2, <3>1, UntouchedAgrees DEF Untouched
  <2> QED
    BY <1>2, <2>1, <2>2, GoesOnFine
<1>4. CASE call[q].seen # status
  <2>1. /\ OnlyOf(q) /\ call'[q].step = "list" /\ call'[q].op = op
        /\ call'[q].on = Account
    BY <1>2, <1>4, <1>q, Words, BecomesCall, BecomesFields
  <2>2. CallOK(q)'
    BY <2>1 DEF CallOK
  <2>3. ASSUME NEW a \in Account, Knows(q, a) PROVE Knows(q, a)'
    <3>1. Agrees(a) /\ tenant # status
      BY <1>2, <1>4, <2>3 DEF Knows
    <3>2. op = "suspend" => (a \in jobs' => Exists(a)')
      BY <1>2, <3>1 DEF Agrees, Should, Syncable, Live, Exists
    <3>3. op = "activate" => a \notin jobs'
      BY <1>2, <3>1 DEF Agrees, Should
    <3> QED
      BY <1>2, <2>1, <3>2, <3>3 DEF Knows, At
  <2> QED
    BY <1>2, <2>1, <2>2, <2>3, GoesOnFine
<1> QED
  BY <1>3, <1>4

LEMMA ListFine ==
  ASSUME ScheduleInv, NEW q \in Request, ListToSuspend(q) \/ ListToActivate(q)
  PROVE  Fine
<1>q. q \in Actor /\ CallTyped
  BY DEF ScheduleInv, LifecycleInv, TypeOK, CallTyped, Actor
<1>1. /\ call[q].step = "list" /\ call[q].op \in {"suspend", "activate"}
      /\ call[q].on = Account /\ UNCHANGED <<tenant, acct, jobs, api, run>>
  BY <1>q DEF ListToSuspend, ListToActivate, At, dbVars, redisVars, ScheduleInv, CallOK
<1>2. \A a \in Account : Untouched(a)
  BY <1>1 DEF Untouched
<1>3. CASE ListToSuspend(q)
  <2> DEFINE del == {a \in Account : Exists(a)}
  <2>1. Plan(q, {}, del, "schedule") /\ At(q, "suspend", "list")
    BY <1>3 DEF ListToSuspend
  <2>2. {} \in SUBSET Account /\ del \in SUBSET Account
    OBVIOUS
  <2> HIDE DEF del
  <2>3. /\ OnlyOf(q) /\ call'[q].step = "schedule" /\ call'[q].op = "suspend"
        /\ call'[q].on = Account /\ call'[q].add = {} /\ call'[q].del = del
    BY <1>1, <1>q, <2>1, <2>2, Words, PlanCall, PlanFields DEF At
  <2>4. CallOK(q)'
    BY <2>2, <2>3 DEF CallOK, Op
  <2>5. ASSUME NEW a \in Account, Knows(q, a) PROVE Knows(q, a)'
    <3>1. tenant = "SUSPENDIDO" /\ (a \in jobs => Exists(a))
      BY <2>1, <2>5 DEF Knows
    <3>2. a \in del <=> Exists(a)
      BY DEF del
    <3>3. ~Should(a)' /\ (a \notin del => a \notin jobs')
      BY <1>1, <3>1, <3>2 DEF Should
    <3> QED
      BY <2>3, <3>3 DEF Knows, Planned, Agrees, At
  <2> QED
    BY <1>1, <1>2, <2>3, <2>4, <2>5, GoesOnFine
<1>4. CASE ListToActivate(q)
  <2> DEFINE add == {a \in Account : Syncable(a)}
             del == {a \in Account : Live(a) /\ ~Syncable(a)}
  <2>1. Plan(q, add, del, "schedule") /\ At(q, "activate", "list")
    BY <1>4 DEF ListToActivate
  <2>2. add \in SUBSET Account /\ del \in SUBSET Account
    OBVIOUS
  <2>3. \A a \in Account : /\ a \in add <=> Syncable(a)
                           /\ a \in del => ~Syncable(a)
    OBVIOUS
  <2> HIDE DEF add, del
  <2>4. /\ OnlyOf(q) /\ call'[q].step = "schedule" /\ call'[q].op = "activate"
        /\ call'[q].on = Account /\ call'[q].add = add /\ call'[q].del = del
    BY <1>1, <1>q, <2>1, <2>2, Words, PlanCall, PlanFields DEF At
  <2>5. CallOK(q)'
    BY <2>2, <2>4 DEF CallOK, Op
  <2>6. ASSUME NEW a \in Account, Knows(q, a) PROVE Knows(q, a)'
    <3>1. tenant = "ACTIVO" /\ a \notin jobs
      BY <2>1, <2>6 DEF Knows
    <3>2. Should(a)' <=> a \in add
      BY <1>2, <2>3, <3>1, UntouchedAgrees DEF Should
    <3> QED
      BY <1>1, <2>3, <2>4, <3>1, <3>2, UntouchedAgrees, <1>2
      DEF Knows, Planned, Agrees, At, Should
  <2> QED
    BY <1>1, <1>2, <2>4, <2>5, <2>6, GoesOnFine
<1> QED
  BY <1>3, <1>4

-----------------------------------------------------------------------------
(* The schedule and the bootstrap *)

(* One job of a plan: what remains still brings the schedule to agree.     *)
LEMMA ScheduleOne ==
  ASSUME ScheduleInv, NEW q \in Actor, Schedule(q), NEW a \in call[q].on, Knows(q, a)
  PROVE  IF call'[q].step = "idle" THEN Agrees(a)' ELSE Knows(q, a)'
<1>q. CallTyped /\ call[q] \in Call /\ call[q].step = "schedule" /\ a \in Account
  BY DEF ScheduleInv, LifecycleInv, TypeOK, CallTyped, Schedule, Call
<1>1. UNCHANGED <<tenant, acct>>
  BY DEF Schedule, dbVars
<1>2. Should(a)' <=> Should(a)
  BY <1>1 DEF Should, Syncable, Live, Exists
<1>3. Planned(q, a)
  BY <1>q DEF Knows
<1>4. CASE call[q].add \cup call[q].del = {} /\ Done(q) /\ jobs' = jobs
  BY <1>1, <1>2, <1>3, <1>4, <1>q, DoneFields DEF Planned, Agrees, NoCall
<1>5. ASSUME NEW b \in call[q].add, jobs' = jobs \cup {b},
             call' = [call EXCEPT ![q].add = @ \ {b}]
      PROVE  Knows(q, a)' /\ call'[q].step = "schedule"
  <2>1. /\ call'[q].op = call[q].op /\ call'[q].step = "schedule"
        /\ call'[q].add = call[q].add \ {b} /\ call'[q].del = call[q].del
    BY <1>5, <1>q DEF CallTyped, Call
  <2>2. Planned(q, a)'
    BY <1>2, <1>3, <1>5, <2>1 DEF Planned, Agrees
  <2> QED
    BY <1>1, <2>1, <2>2 DEF Knows, At
<1>6. ASSUME NEW b \in call[q].del, jobs' = jobs \ {b},
             call' = [call EXCEPT ![q].del = @ \ {b}]
      PROVE  Knows(q, a)' /\ call'[q].step = "schedule"
  <2>1. /\ call'[q].op = call[q].op /\ call'[q].step = "schedule"
        /\ call'[q].add = call[q].add /\ call'[q].del = call[q].del \ {b}
    BY <1>6, <1>q DEF CallTyped, Call
  <2>2. Planned(q, a)'
    BY <1>2, <1>3, <1>6, <2>1 DEF Planned, Agrees
  <2> QED
    BY <1>1, <2>1, <2>2 DEF Knows, At
<1> QED
  BY <1>4, <1>5, <1>6 DEF Schedule

(* What a step of a plan leaves of the call, and of the other accounts.    *)
LEMMA ScheduleCall ==
  ASSUME ScheduleInv, NEW q \in Actor, Schedule(q)
  PROVE  /\ OnlyOf(q) /\ CallOK(q)'
         /\ \/ call'[q] = NoCall
            \/ /\ call'[q].step = "schedule" /\ call'[q].on = call[q].on
               /\ call'[q].op = call[q].op /\ call'[q] # NoCall
         /\ \A a \in Account \ call[q].on : Untouched(a)
<1>q. /\ CallTyped /\ call[q] \in Call /\ call[q].step = "schedule"
      /\ call[q].add \cup call[q].del \subseteq call[q].on /\ CallOK(q)
  BY DEF ScheduleInv, LifecycleInv, TypeOK, CallTyped, Schedule, CallOK
<1>1. UNCHANGED <<tenant, acct, run>>
  BY DEF Schedule, dbVars
<1>2. CASE Done(q) /\ jobs' = jobs
  <2>1. \A a \in Account : Untouched(a)
    BY <1>1, <1>2 DEF Untouched
  <2> QED
    BY <1>2, <2>1, <1>q, DoneCall, DoneFields, IdleOK
<1>3. ASSUME NEW b \in call[q].on, jobs' \in {jobs \cup {b}, jobs \ {b}},
             NEW add \in SUBSET call[q].add, NEW del \in SUBSET call[q].del,
             call' = [call EXCEPT ![q] = [call[q] EXCEPT !.add = add, !.del = del]]
      PROVE  /\ OnlyOf(q) /\ CallOK(q)'
             /\ call'[q].step = "schedule" /\ call'[q].on = call[q].on
             /\ call'[q].op = call[q].op /\ call'[q] # NoCall
             /\ \A a \in Account \ call[q].on : Untouched(a)
  <2>1. /\ call'[q].op = call[q].op /\ call'[q].step = "schedule"
        /\ call'[q].on = call[q].on /\ call'[q].seen = call[q].seen
        /\ call'[q].add = add /\ call'[q].del = del
        /\ call' \in [Actor -> Call]
        /\ \A p \in Actor \ {q} : call'[p] = call[p]
    BY <1>3, <1>q DEF CallTyped, Call
  <2>2. call'[q] # NoCall
    BY <2>1 DEF NoCall
  <2>3. CallOK(q)'
    BY <2>1, <1>q DEF CallOK
  <2>4. \A a \in Account \ call[q].on : Untouched(a)
    BY <1>1, <1>3 DEF Untouched
  <2> QED
    BY <2>1, <2>2, <2>3, <2>4 DEF OnlyOf
<1>4. ASSUME NEW b \in call[q].add, jobs' = jobs \cup {b},
             call' = [call EXCEPT ![q].add = @ \ {b}]
      PROVE  call' = [call EXCEPT ![q] =
               [call[q] EXCEPT !.add = call[q].add \ {b}, !.del = call[q].del]]
  BY <1>4, <1>q DEF CallTyped, Call
<1>5. ASSUME NEW b \in call[q].del, jobs' = jobs \ {b},
             call' = [call EXCEPT ![q].del = @ \ {b}]
      PROVE  call' = [call EXCEPT ![q] =
               [call[q] EXCEPT !.add = call[q].add, !.del = call[q].del \ {b}]]
  BY <1>5, <1>q DEF CallTyped, Call
<1>6. CASE \E b \in call[q].add : /\ jobs' = jobs \cup {b}
                                  /\ call' = [call EXCEPT ![q].add = @ \ {b}]
  <2>1. PICK b \in call[q].add : /\ jobs' = jobs \cup {b}
                                 /\ call' = [call EXCEPT ![q].add = @ \ {b}]
    BY <1>6
  <2>2. call[q].add \ {b} \in SUBSET call[q].add /\ b \in call[q].on
    BY <1>q
  <2> QED
    BY <1>3, <1>4, <2>1, <2>2
<1>7. CASE \E b \in call[q].del : /\ jobs' = jobs \ {b}
                                  /\ call' = [call EXCEPT ![q].del = @ \ {b}]
  <2>1. PICK b \in call[q].del : /\ jobs' = jobs \ {b}
                                 /\ call' = [call EXCEPT ![q].del = @ \ {b}]
    BY <1>7
  <2>2. call[q].del \ {b} \in SUBSET call[q].del /\ b \in call[q].on
    BY <1>q
  <2> QED
    BY <1>3, <1>5, <2>1, <2>2
<1> QED
  BY <1>2, <1>6, <1>7 DEF Schedule

LEMMA ScheduleFine ==
  ASSUME ScheduleInv, NEW q \in Actor, Schedule(q)
  PROVE  Fine
<1>q. call[q].step = "schedule" /\ call[q].on \subseteq Account
  BY DEF ScheduleInv, LifecycleInv, TypeOK, Call, Schedule
<1>1. CASE q \in Request
  <2>1. api' = api /\ run' = run
    BY <1>1, LifecycleAssumption DEF Schedule
  <2> QED
    BY <1>1, <2>1, <1>q, ScheduleCall, ScheduleOne, GoesOnFine DEF NoCall
<1>2. CASE q = Bootstrap
  <2>1. /\ call[q].on = Account /\ call[q].op = "boot" /\ api = "booting"
        /\ \A p \in Request : call[p].step = "idle"
    BY <1>q, <1>2 DEF ScheduleInv, ProcessOK, CallOK
  <2>2. /\ api' = IF call'[q] = NoCall THEN "up" ELSE api
        /\ run' = run
    BY <1>2 DEF Schedule
  <2>3. \A p \in Request : call'[p].step = "idle"
    BY <1>2, <2>1, ScheduleCall, LifecycleAssumption DEF OnlyOf, Actor
  <2>4. ProcessOK'
    BY <1>2, <2>1, <2>2, <2>3, ScheduleCall DEF ProcessOK, NoCall
  <2>5. ASSUME NEW a \in Account \ unsure, ~Overlap(a)' PROVE Sound(a)'
    <3>1. Sound(a) /\ q \in Working(a)
      BY <1>q, <2>1 DEF ScheduleInv, Working
    <3>2. IF call'[q].step = "idle" THEN Agrees(a)' ELSE Knows(q, a)'
      BY <2>1, <3>1, ScheduleOne DEF Sound
    <3>3. q \in Working(a)' <=> call'[q].step # "idle"
      BY <2>1, ScheduleCall DEF Working, NoCall
    <3> QED
      BY <2>2, <2>5, <3>1, <3>2, <3>3, ScheduleCall, HereSound
  <2> QED
    BY <2>4, <2>5, ScheduleCall, StillOK DEF Fine
<1> QED
  BY <1>1, <1>2 DEF Actor

(* The API starts: the history starts afresh.                              *)
LEMMA StartFine ==
  ASSUME ScheduleInv, StartApi
  PROVE  /\ \A p \in Actor : CallOK(p)'
         /\ ProcessOK'
         /\ \A a \in Account : ~Overlap(a)' => Sound(a)'
<1>q. Bootstrap \in Actor /\ CallTyped /\ Account \in SUBSET Account
  BY DEF ScheduleInv, LifecycleInv, TypeOK, CallTyped, Actor
<1>1. /\ api = "down" /\ api' = "booting"
      /\ Begin(Bootstrap, "boot", "list", Account, "NONE")
  BY DEF StartApi
<1>2. /\ OnlyOf(Bootstrap)
      /\ call'[Bootstrap].op = "boot" /\ call'[Bootstrap].step = "list"
      /\ call'[Bootstrap].on = Account
  BY <1>1, <1>q, Words, BeginCall
<1>3. CallOK(Bootstrap)'
  BY <1>2 DEF CallOK
<1>4. \A p \in Request : call'[p].step = "idle"
  BY <1>1, <1>2, LifecycleAssumption DEF OnlyOf, Actor, ScheduleInv, ProcessOK
<1>5. ProcessOK'
  BY <1>1, <1>2, <1>4 DEF ProcessOK
<1>6. ASSUME NEW a \in Account, ~Overlap(a)' PROVE Sound(a)'
  <2>1. Working(a)' = {Bootstrap}
    BY <1>2, <1>4 DEF Working, Actor
  <2>2. run'[a] # "removing"
    BY <1>6, <2>1 DEF Overlap, Locking
  <2>3. Knows(Bootstrap, a)'
    BY <1>2 DEF Knows, At
  <2> QED
    BY <1>6, <2>1, <2>2, <2>3 DEF Sound
<1> QED
  BY <1>2, <1>3, <1>5, <1>6, <1>q, StillOK

LEMMA BootFine ==
  ASSUME ScheduleInv, ReadActive \/ ListJobs
  PROVE  Fine
<1>q. Bootstrap \in Actor /\ CallTyped
  BY DEF ScheduleInv, LifecycleInv, TypeOK, CallTyped, Actor
<1>1. /\ call[Bootstrap].op = "boot" /\ call[Bootstrap].step # "idle"
      /\ call[Bootstrap].on = Account
      /\ UNCHANGED <<tenant, acct, jobs, api, run>>
  BY <1>q DEF ReadActive, ListJobs, At, dbVars, redisVars, ScheduleInv, CallOK
<1>2. api = "booting" /\ \A p \in Request : call[p].step = "idle"
  BY <1>1 DEF ScheduleInv, ProcessOK
<1>3. PICK add \in SUBSET Account, del \in SUBSET Account, step \in {"reset", "schedule"} :
        /\ Plan(Bootstrap, add, del, step)
        /\ step = "reset" => \A a \in Account : a \in add <=> Should(a)
        /\ step = "schedule" => /\ At(Bootstrap, "boot", "reset")
                                /\ add = call[Bootstrap].add /\ del = jobs \ add
  <2>1. CASE ReadActive
    <3>1. {a \in Account : Should(a)} \in SUBSET Account /\ {} \in SUBSET Account
      OBVIOUS
    <3>2. Plan(Bootstrap, {a \in Account : Should(a)}, {}, "reset")
      BY <2>1 DEF ReadActive
    <3> QED
      BY <3>1, <3>2
  <2>2. CASE ListJobs
    <3>1. call[Bootstrap].add \in SUBSET Account /\ jobs \ call[Bootstrap].add \in SUBSET Account
      BY <1>q DEF ScheduleInv, LifecycleInv, TypeOK, Call
    <3>2. /\ At(Bootstrap, "boot", "reset")
          /\ Plan(Bootstrap, call[Bootstrap].add, jobs \ call[Bootstrap].add, "schedule")
      BY <2>2 DEF ListJobs, Orphans
    <3> QED
      BY <3>1, <3>2
  <2> QED
    BY <2>1, <2>2
<1>4. /\ OnlyOf(Bootstrap)
      /\ call'[Bootstrap].step = step /\ call'[Bootstrap].op = "boot"
      /\ call'[Bootstrap].on = Account
      /\ call'[Bootstrap].add = add /\ call'[Bootstrap].del = del
  BY <1>1, <1>3, <1>q, Words, PlanCall, PlanFields
<1>5. CallOK(Bootstrap)'
  BY <1>4 DEF CallOK, Op
<1>6. ProcessOK'
  BY <1>1, <1>2, <1>4, LifecycleAssumption DEF ProcessOK, OnlyOf, Actor
<1>7. ASSUME NEW a \in Account \ unsure, ~Overlap(a)' PROVE Sound(a)'
  <2>1. Sound(a) /\ Bootstrap \in Working(a) /\ Bootstrap \in Working(a)'
    BY <1>1, <1>4, <1>q DEF ScheduleInv, Working
  <2>2. Untouched(a)
    BY <1>1 DEF Untouched
  <2>3. Knows(Bootstrap, a)
    BY <2>1 DEF Sound
  <2>4. Knows(Bootstrap, a)'
    <3>1. CASE step = "reset"
      BY <1>3, <1>4, <2>2, <3>1, UntouchedAgrees DEF Knows, At
    <3>2. CASE step = "schedule"
      <4>1. a \in add <=> Should(a)
        BY <1>3, <2>3, <3>2 DEF Knows
      <4>2. Planned(Bootstrap, a)'
        BY <1>3, <1>4, <2>2, <3>2, <4>1, UntouchedAgrees DEF Planned, Agrees
      <4> QED
        BY <1>4, <3>2, <4>2 DEF Knows, At
    <3> QED
      BY <3>1, <3>2
  <2> QED
    BY <1>4, <1>7, <1>q, <2>1, <2>2, <2>4, HereSound DEF Untouched
<1> QED
  BY <1>4, <1>5, <1>6, <1>7, <1>q, StillOK DEF Fine

-----------------------------------------------------------------------------
(* The worker and the faults *)

LEMMA WorkerFine ==
  ASSUME ScheduleInv, NEW b \in Account, WorkerAction(b)
  PROVE  Fine
<1> USE DEF WorkerAction
<1>1. UNCHANGED <<tenant, api, call>>
  BY DEF Fire, Take, RunStep, Read, Synced, SyncFails, LoginFails, MarkAuthError,
         RemoveJob, CounterExpires, LockExpires, dbVars
<1>2. (\A p \in Actor : CallOK(p)') /\ ProcessOK'
  BY <1>1 DEF ScheduleInv, CallOK, ProcessOK
<1>3. \A a \in Account \ {b} : Untouched(a)
  <2> USE DEF ScheduleInv, LifecycleInv, TypeOK
  <2>1. \A a \in Account \ {b} : run'[a] = run[a]
    <3>1. CASE Fire(b) \/ CounterExpires(b) \/ LockExpires(b)
      BY <3>1 DEF Fire, CounterExpires, LockExpires
    <3>2. CASE Take(b) \/ Read(b)
      BY <3>2 DEF Take, Read, EndRun
    <3>3. CASE Synced(b) \/ SyncFails(b) \/ LoginFails(b)
      BY <3>3 DEF Synced, SyncFails, LoginFails, EndRun
    <3>4. CASE MarkAuthError(b) \/ RemoveJob(b)
      BY <3>4 DEF MarkAuthError, RemoveJob, EndRun
    <3> QED
      BY <3>1, <3>2, <3>3, <3>4 DEF RunStep
  <2>2. acct' = acct \/ acct' = [acct EXCEPT ![b].status = "ERROR_AUTH"]
    BY DEF Fire, Take, RunStep, Read, Synced, SyncFails, LoginFails, MarkAuthError,
           RemoveJob, CounterExpires, LockExpires, dbVars
  <2>3. jobs' = jobs \/ jobs' = jobs \ {b}
    BY DEF Fire, Take, RunStep, Read, Synced, SyncFails, LoginFails, MarkAuthError,
           RemoveJob, CounterExpires, LockExpires, redisVars
  <2>4. \A a \in Account \ {b} : acct'[a] = acct[a]
    BY <2>2
  <2> QED
    BY <1>1, <2>1, <2>3, <2>4 DEF Untouched
<1>4. ASSUME NEW a \in Account PROVE Working(a)' = Working(a)
  BY <1>1 DEF Working
<1>5. ASSUME NEW a \in Account \ unsure, Untouched(a) PROVE Sound(a)'
  <2>1. \A p \in Working(a) : Knows(p, a)'
    <3> SUFFICES ASSUME NEW p \in Working(a) PROVE Knows(p, a)'
      OBVIOUS
    <3>1. Knows(p, a)
      BY DEF ScheduleInv, Sound
    <3> QED
      BY <1>1, <1>5, <3>1, UntouchedAgrees DEF Knows, Planned, At, Untouched
  <2> QED
    BY <1>1, <1>4, <1>5, <2>1, UntouchedAgrees
    DEF ScheduleInv, Sound, Overlap, Locking, Untouched
<1>6. ASSUME b \notin unsure, ~Overlap(b)' PROVE Sound(b)'
  <2>1. Sound(b)
    BY <1>6 DEF ScheduleInv
  <2>2. ASSUME UNCHANGED <<acct, jobs>>, run[b] # "removing", run'[b] # "removing"
        PROVE  Sound(b)'
    <3>1. \A p \in Working(b) : Knows(p, b)'
      <4> SUFFICES ASSUME NEW p \in Working(b) PROVE Knows(p, b)'
        OBVIOUS
      <4>1. Knows(p, b)
        BY <2>1 DEF Sound
      <4> QED
        BY <1>1, <2>2, <4>1
        DEF Knows, Planned, At, Agrees, Should, Syncable, Live, Exists
    <3>2. Agrees(b)' <=> Agrees(b)
      BY <1>1, <2>2 DEF Agrees, Should, Syncable, Live, Exists
    <3> QED
      BY <1>1, <1>4, <1>6, <2>1, <2>2, <3>1, <3>2 DEF Sound
  <2>3. CASE MarkAuthError(b)
    <3>1. Working(b) = {} /\ run'[b] = "removing"
      BY <2>1, <2>3 DEF MarkAuthError, Sound, Overlap, Locking, ScheduleInv, LifecycleInv, TypeOK
    <3>2. acct'[b].status = "ERROR_AUTH"
      BY <2>3 DEF MarkAuthError, ScheduleInv, LifecycleInv, TypeOK
    <3>3. ~Should(b)'
      BY <3>2 DEF Should, Syncable
    <3> QED
      BY <1>4, <1>6, <3>1, <3>3 DEF Sound
  <2>4. CASE RemoveJob(b)
    <3>1. Working(b) = {} /\ ~Should(b)
      BY <2>1, <2>4 DEF RemoveJob, Sound, Overlap, Locking
    <3>2. b \notin jobs' /\ run'[b] = "idle" /\ UNCHANGED <<tenant, acct>>
      BY <2>4 DEF RemoveJob, EndRun, dbVars, ScheduleInv, LifecycleInv, TypeOK
    <3>3. ~Should(b)'
      BY <3>1, <3>2 DEF Should, Syncable, Live, Exists
    <3> QED
      BY <1>4, <1>6, <3>1, <3>2, <3>3 DEF Sound, Agrees
  <2>5. CASE Read(b) \/ Synced(b) \/ SyncFails(b) \/ LoginFails(b)
    <3>1. run[b] \in {"reading", "syncing"} /\ UNCHANGED <<acct, jobs>>
      BY <2>5 DEF Read, Synced, SyncFails, LoginFails, dbVars
    <3>2. run'[b] \in {"idle", "syncing", "marking"}
      BY <2>5 DEF Read, Synced, SyncFails, LoginFails, EndRun, ScheduleInv, LifecycleInv, TypeOK
    <3> QED
      BY <2>2, <3>1, <3>2
  <2>6. CASE Fire(b) \/ CounterExpires(b) \/ LockExpires(b)
    BY <1>1, <1>5, <1>6, <2>6 DEF Fire, CounterExpires, LockExpires, dbVars, Untouched
  <2>7. CASE Take(b)
    <3>1. UNCHANGED <<acct, jobs>>
      BY <2>7 DEF Take, dbVars
    <3>2. run' = run \/ run'[b] = "reading"
      BY <2>7 DEF Take, ScheduleInv, LifecycleInv, TypeOK
    <3>3. CASE run' = run
      BY <1>1, <1>5, <1>6, <3>1, <3>3 DEF Untouched
    <3>4. CASE run'[b] = "reading" /\ run[b] # "removing"
      BY <2>2, <3>1, <3>4
    <3>5. CASE run'[b] = "reading" /\ run[b] = "removing"
      BY <2>7, <3>5 DEF Take, ScheduleInv, LockHeld
    <3> QED
      BY <3>2, <3>3, <3>4, <3>5
  <2> QED
    BY <2>3, <2>4, <2>5, <2>6, <2>7 DEF RunStep
<1> QED
  BY <1>2, <1>3, <1>5, <1>6 DEF Fine

LEMMA FaultFine ==
  ASSUME ScheduleInv, ApiDies \/ WorkerDies \/ \E q \in Failing : Interrupted(q)
  PROVE  /\ \A p \in Actor : CallOK(p)'
         /\ ProcessOK'
         /\ \A a \in Account \ unsure' : Sound(a)'
<1>1. CASE ApiDies
  <2>1. /\ \A p \in Actor : call'[p] = NoCall
        /\ api' = "down" /\ UNCHANGED <<tenant, acct, jobs, run, unsure>>
    BY <1>1 DEF ApiDies, dbVars, redisVars
  <2>2. \A p \in Actor : CallOK(p)'
    BY <2>1, IdleOK
  <2>3. ProcessOK'
    BY <2>1 DEF ProcessOK, NoCall, Actor
  <2>4. ASSUME NEW a \in Account \ unsure PROVE Sound(a)'
    <3>1. Working(a)' = {}
      BY <2>1 DEF Working, NoCall
    <3>2. run[a] = "removing" => ~Should(a)
      BY DEF ScheduleInv, Sound
    <3>3. run'[a] = "removing" => ~Should(a)'
      BY <2>1, <3>2 DEF Should, Syncable, Live, Exists
    <3> QED
      BY <2>1, <3>1, <3>3 DEF Sound, Overlap
  <2> QED
    BY <2>1, <2>2, <2>3, <2>4
<1>2. CASE WorkerDies
  <2>1. /\ run' = [a \in Account |-> "idle"]
        /\ unsure' = unsure \cup {a \in Account : Locking(a)}
        /\ UNCHANGED <<tenant, acct, jobs, api, call>>
    BY <1>2 DEF WorkerDies, dbVars
  <2>2. (\A p \in Actor : CallOK(p)') /\ ProcessOK'
    BY <2>1 DEF ScheduleInv, CallOK, ProcessOK
  <2>3. ASSUME NEW a \in Account \ unsure' PROVE Sound(a)'
    <3>1. Sound(a) /\ ~Locking(a)
      BY <2>1 DEF ScheduleInv
    <3>2. Working(a)' = Working(a)
      BY <2>1 DEF Working
    <3>3. \A p \in Working(a) : Knows(p, a)'
      <4> SUFFICES ASSUME NEW p \in Working(a) PROVE Knows(p, a)'
        OBVIOUS
      <4>1. Knows(p, a)
        BY <3>1 DEF Sound
      <4> QED
        BY <2>1, <4>1 DEF Knows, Planned, At, Agrees, Should, Syncable, Live, Exists
    <3>4. Agrees(a)' <=> Agrees(a)
      BY <2>1 DEF Agrees, Should, Syncable, Live, Exists
    <3>5. run'[a] = "idle"
      BY <2>1
    <3> QED
      BY <2>1, <3>1, <3>2, <3>3, <3>4, <3>5 DEF Sound, Overlap, Locking
  <2> QED
    BY <2>2, <2>3
<1>3. ASSUME NEW q \in Failing, Interrupted(q)
      PROVE  /\ \A p \in Actor : CallOK(p)'
             /\ ProcessOK'
             /\ \A a \in Account \ unsure' : Sound(a)'
  <2>q. q \in Request /\ q \in Actor /\ CallTyped
    BY LifecycleAssumption DEF Actor, ScheduleInv, LifecycleInv, TypeOK, CallTyped
  <2>1. /\ call[q].step # "idle" /\ Done(q)
        /\ UNCHANGED <<tenant, acct, jobs, api, run>>
        /\ unsure' = unsure \cup call[q].on
    BY <1>3 DEF Interrupted, dbVars, redisVars
  <2>2. OnlyOf(q) /\ CallOK(q)' /\ call'[q].step = "idle"
    BY <2>1, <2>q, DoneCall, DoneFields, IdleOK
  <2>3. api = "up"
    BY <2>1, <2>q DEF ScheduleInv, ProcessOK
  <2>4. ASSUME NEW a \in Account \ unsure' PROVE Sound(a)'
    <3>1. Sound(a) /\ Untouched(a)
      BY <2>1 DEF ScheduleInv, Untouched
    <3>2. q \notin Working(a) /\ q \notin Working(a)'
      BY <2>1, <2>2 DEF Working
    <3> QED
      BY <2>q, <2>1, <2>2, <3>1, <3>2, ElsewhereSound
  <2> QED
    BY <2>q, <2>1, <2>2, <2>3, <2>4, StillOK, ServedOK
<1> QED
  BY <1>1, <1>2, <1>3

-----------------------------------------------------------------------------
(* The theorem *)

LEMMA RequestFine ==
  ASSUME ScheduleInv, NEW q \in Request, RequestStep(q)
  PROVE  Fine
<1>1. CASE Enqueue(q) \/ Refuse(q)
  BY <1>1, EndsFine DEF Enqueue, Refuse, At, dbVars, redisVars
<1> QED
  BY <1>1, BeginFine, InsertFine, WriteUpdateFine, WriteRemoveFine, ResetFine,
     WriteTenantFine, ListFine DEF RequestStep

(* The lock is taken with the run and released with it.                    *)
LEMMA LockKept ==
  ASSUME ScheduleInv, [Next]_vars
  PROVE  LockHeld'
<1> USE DEF ScheduleInv, LockHeld
<1>1. ASSUME UNCHANGED <<run, lock>> PROVE LockHeld'
  BY <1>1
<1>2. ASSUME NEW q \in Request, RequestStep(q) PROVE LockHeld'
  BY <1>1, <1>2 DEF RequestStep, Create, Update, Remove, Manual, Insert, WriteUpdate,
     Reset, WriteRemove, Enqueue, Refuse, SetTenant, WriteTenant, ListToSuspend,
     ListToActivate, redisVars
<1>3. ASSUME NEW q \in Actor, Schedule(q) PROVE LockHeld'
  BY <1>1, <1>3 DEF Schedule
<1>4. CASE StartApi \/ ReadActive \/ ListJobs
  BY <1>1, <1>4 DEF StartApi, ReadActive, ListJobs, redisVars
<1>5. ASSUME NEW a \in Account, WorkerAction(a) PROVE LockHeld'
  <2> USE DEF LifecycleInv, TypeOK
  <2>1. CASE Fire(a) \/ CounterExpires(a)
    BY <1>1, <2>1 DEF Fire, CounterExpires
  <2>2. CASE Take(a)
    BY <2>2 DEF Take
  <2>3. CASE Read(a)
    BY <2>3 DEF Read, EndRun
  <2>4. CASE Synced(a) \/ SyncFails(a)
    BY <2>4 DEF Synced, SyncFails, EndRun
  <2>5. CASE LoginFails(a)
    BY <2>5 DEF LoginFails, EndRun
  <2>6. CASE MarkAuthError(a)
    BY <2>6 DEF MarkAuthError, redisVars
  <2>7. CASE RemoveJob(a)
    BY <2>7 DEF RemoveJob, EndRun
  <2>8. CASE LockExpires(a)
    BY <2>8 DEF LockExpires
  <2> QED
    BY <1>5, <2>1, <2>2, <2>3, <2>4, <2>5, <2>6, <2>7, <2>8 DEF WorkerAction, RunStep
<1>6. CASE ApiDies
  BY <1>1, <1>6 DEF ApiDies, redisVars
<1>7. CASE WorkerDies
  BY <1>7 DEF WorkerDies
<1>8. ASSUME NEW q \in Failing, Interrupted(q) PROVE LockHeld'
  BY <1>1, <1>8 DEF Interrupted, redisVars
<1>9. CASE UNCHANGED vars
  BY <1>1, <1>9 DEF vars, redisVars
<1> QED
  BY <1>2, <1>3, <1>4, <1>5, <1>6, <1>7, <1>8, <1>9 DEF Next, WorkerAction

LEMMA InitSchedule == Init => ScheduleInv
<1> SUFFICES ASSUME Init PROVE ScheduleInv
  OBVIOUS
<1>1. \A q \in Actor : call[q] = NoCall
  BY DEF Init
<1>2. \A q \in Actor : CallOK(q)
  BY <1>1 DEF CallOK, NoCall
<1>3. ProcessOK
  BY <1>1 DEF Init, ProcessOK, NoCall, Actor
<1>4. ASSUME NEW a \in Account PROVE Sound(a)
  <2>1. Working(a) = {}
    BY <1>1 DEF Working, NoCall
  <2> QED
    BY <2>1 DEF Init, Sound, Overlap
<1>5. LockHeld
  BY DEF Init, LockHeld
<1> QED
  BY <1>2, <1>3, <1>4, <1>5, InitInv DEF ScheduleInv

LEMMA StepSchedule ==
  ASSUME ScheduleInv, [Next]_vars
  PROVE  ScheduleInv'
<1>1. LifecycleInv' /\ LockHeld'
  BY StepInv, LockKept DEF ScheduleInv
<1>2. ASSUME Fine, Track, api' # "booting" \/ api # "down" PROVE ScheduleInv'
  <2>1. unsure' = unsure \cup {a \in Account : Overlap(a)'}
    BY <1>2 DEF Track
  <2> QED
    BY <1>1, <1>2, <2>1 DEF Fine, ScheduleInv
<1>3. ASSUME NEW q \in Request, RequestStep(q), Track PROVE ScheduleInv'
  <2>1. Fine
    BY <1>3, RequestFine
  <2>2. api' = api
    BY <1>3 DEF RequestStep, Create, Update, Remove, Manual, Insert, WriteUpdate, Reset,
       WriteRemove, Enqueue, Refuse, SetTenant, WriteTenant, ListToSuspend, ListToActivate
  <2> QED
    BY <1>2, <1>3, <2>1, <2>2
<1>4. ASSUME NEW q \in Actor, Schedule(q), Track PROVE ScheduleInv'
  <2>1. api' # "booting" \/ api # "down"
    BY <1>4 DEF Schedule
  <2> QED
    BY <1>2, <1>4, <2>1, ScheduleFine
<1>5. CASE StartApi /\ Track
  <2>1. unsure' = {a \in Account : Overlap(a)'}
    BY <1>5 DEF Track, StartApi
  <2> QED
    BY <1>1, <1>5, <2>1, StartFine DEF ScheduleInv
<1>6. CASE (ReadActive \/ ListJobs) /\ Track
  <2>1. api' = api
    BY <1>6 DEF ReadActive, ListJobs
  <2> QED
    BY <1>2, <1>6, <2>1, BootFine
<1>7. ASSUME NEW a \in Account, WorkerAction(a), Track PROVE ScheduleInv'
  <2>1. api' = api
    BY <1>7 DEF WorkerAction, Fire, Take, RunStep, Read, Synced, SyncFails, LoginFails,
       MarkAuthError, RemoveJob, CounterExpires, LockExpires
  <2> QED
    BY <1>2, <1>7, <2>1, WorkerFine
<1>8. CASE ApiDies \/ WorkerDies \/ \E q \in Failing : Interrupted(q)
  BY <1>1, <1>8, FaultFine DEF ScheduleInv
<1>9. CASE UNCHANGED vars
  <2>1. UNCHANGED <<tenant, acct, jobs, lock, api, call, run, unsure>>
    BY <1>9 DEF vars, dbVars, redisVars
  <2>2. (\A p \in Actor : CallOK(p)') /\ ProcessOK'
    BY <2>1 DEF ScheduleInv, CallOK, ProcessOK
  <2>3. ASSUME NEW a \in Account \ unsure PROVE Sound(a)'
    <3>1. Sound(a)
      BY DEF ScheduleInv
    <3>2. \A p \in Working(a) : Knows(p, a)'
      <4> SUFFICES ASSUME NEW p \in Working(a) PROVE Knows(p, a)'
        OBVIOUS
      <4>1. Knows(p, a)
        BY <3>1 DEF Sound
      <4> QED
        BY <2>1, <4>1 DEF Knows, Planned, At, Agrees, Should, Syncable, Live, Exists
    <3>3. Working(a)' = Working(a) /\ Untouched(a)
      BY <2>1 DEF Working, Untouched
    <3> QED
      BY <2>1, <3>1, <3>2, <3>3, UntouchedAgrees DEF Sound, Overlap, Locking
  <2> QED
    BY <1>1, <2>1, <2>2, <2>3 DEF ScheduleInv
<1> QED
  BY <1>3, <1>4, <1>5, <1>6, <1>7, <1>8, <1>9 DEF Next, WorkerAction

(* The queue follows the database: whatever the accounts, the requests,    *)
(* the failed logins and the restarts, an account at rest that no overlap  *)
(* and no failure has spoiled since the last bootstrap has a repeatable    *)
(* job exactly when it is ACTIVA, not deleted and of an ACTIVO tenant.     *)
THEOREM QueueFollowsDatabase == Spec => []ScheduleAgrees
<1>1. ScheduleInv /\ [Next]_vars => ScheduleInv'
  BY StepSchedule
<1>2. ScheduleInv => ScheduleAgrees
  <2> SUFFICES ASSUME ScheduleInv, NEW a \in Account \ unsure, api = "up", AtRest(a)
               PROVE  a \in jobs <=> Should(a)
    BY DEF ScheduleAgrees
  <2>1. Sound(a) /\ Working(a) = {} /\ run[a] # "removing"
    BY DEF ScheduleInv, AtRest, Locking
  <2> QED
    BY <2>1 DEF Sound, Agrees
<1> QED
  BY <1>1, <1>2, InitSchedule, PTL DEF Spec
============================================================================
