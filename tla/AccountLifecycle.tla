-------------------------- MODULE AccountLifecycle --------------------------
(***************************************************************************)
(* The accounts of one tenant and the repeatable jobs that synchronise     *)
(* them: AccountsService and AdminService in the API process,              *)
(* SyncBootstrap at its start, and the worker, which runs the jobs and     *)
(* locks an account out after three failed logins.                         *)
(*                                                                         *)
(* PostgreSQL says which accounts ought to be synchronised, Redis holds    *)
(* the jobs, and nothing writes both at once. A request is the steps of    *)
(* one HTTP call, from its authorisation to its last await; a request      *)
(* leaves behind a list of jobs to register or to remove, worked off one   *)
(* at a time.                                                              *)
(***************************************************************************)
EXTENDS Integers, FiniteSets

CONSTANTS
  Account,      \* e-mail addresses the tenant may register
  Request,      \* HTTP calls the API may be serving at once
  Failing,      \* those of them that Redis may fail half way
  Ops,          \* the operations they may ask for
  Bootstrap,    \* the actor of SyncBootstrap
  MaxAccounts   \* the plan's limit

ASSUME LifecycleAssumption ==
  /\ IsFiniteSet(Account) /\ IsFiniteSet(Request)
  /\ Request # {} /\ Failing \subseteq Request /\ Bootstrap \notin Request
  /\ Ops \subseteq {"create", "update", "remove", "manual", "suspend", "activate"}
  /\ MaxAccounts \in Nat

Threshold == 3                       \* AUTH_FAIL_THRESHOLD

Actor == Request \cup {Bootstrap}
Op == {"none", "boot", "create", "update", "remove", "manual", "suspend",
       "activate"}
Step == {"idle", "write", "enqueue", "reset", "list", "schedule"}
TenantStatus == {"ACTIVO", "SUSPENDIDO"}
AccountStatus == {"NONE", "ACTIVA", "INACTIVA", "ERROR_AUTH"}
Call == [op : Op, step : Step, on : SUBSET Account,
         seen : AccountStatus \cup TenantStatus,
         add : SUBSET Account, del : SUBSET Account]
NoCall == [op |-> "none", step |-> "idle", on |-> {}, seen |-> "NONE",
           add |-> {}, del |-> {}]

VARIABLES
  \* PostgreSQL
  tenant,    \* status of the tenant
  acct,      \* row of each account; NONE when there is no row
  \* Redis
  jobs,      \* accounts with a repeatable job
  waiting,   \* accounts with a job ready to run: fired, manual or retried
  fails,     \* auth-fail:{account}
  lock,      \* accounts with a lock:sync:{account}
  \* processes
  api,       \* the API process
  call,      \* what each request, or the bootstrap, is doing
  run,       \* the worker's run of each account
  \* history
  unsure     \* accounts whose schedule an overlap or a death may have spoiled

dbVars == <<tenant, acct>>
redisVars == <<jobs, waiting, fails, lock>>
vars == <<dbVars, redisVars, api, call, run, unsure>>

Init ==
  /\ tenant = "ACTIVO"
  /\ acct = [a \in Account |-> [status |-> "NONE", deleted |-> FALSE]]
  /\ jobs = {} /\ waiting = {} /\ lock = {}
  /\ fails = [a \in Account |-> 0]
  /\ api = "down"
  /\ call = [q \in Actor |-> NoCall]
  /\ run = [a \in Account |-> "idle"]
  /\ unsure = {}

-----------------------------------------------------------------------------
(* Helpers *)

Exists(a) == acct[a].status # "NONE"
Live(a) == Exists(a) /\ ~acct[a].deleted
LiveAccounts == {a \in Account : Live(a)}
Syncable(a) == Live(a) /\ acct[a].status = "ACTIVA"
Should(a) == tenant = "ACTIVO" /\ Syncable(a)

(* Who is at work on the schedule of an account: actors of the API, and    *)
(* the worker while it locks the account out.                              *)
Working(a) == {q \in Actor : call[q].step # "idle" /\ a \in call[q].on}
Locking(a) == run[a] \in {"marking", "removing"}
AtRest(a) == Working(a) = {} /\ ~Locking(a)
Overlap(a) ==
  (\E p, q \in Working(a) : p # q) \/ (Working(a) # {} /\ Locking(a))

Begin(q, op, step, on, seen) ==
  call' = [call EXCEPT ![q] = [NoCall EXCEPT !.op = op, !.step = step,
                                             !.on = on, !.seen = seen]]
Done(q) == call' = [call EXCEPT ![q] = NoCall]
Becomes(q, step) == call' = [call EXCEPT ![q].step = step]
Plan(q, add, del, step) ==
  call' = [call EXCEPT ![q].step = step, ![q].add = add, ![q].del = del]
At(q, op, step) == call[q].op = op /\ call[q].step = step

(* syncRepeatableFor(row): register the job of an ACTIVA account that is   *)
(* not deleted, remove any other.                                          *)
PlanFor(q, a, row, step) ==
  IF row.status = "ACTIVA" /\ ~row.deleted THEN Plan(q, {a}, {}, step)
                                           ELSE Plan(q, {}, {a}, step)

Free(q, op) == api = "up" /\ op \in Ops /\ call[q].step = "idle"

(* The guard of the business API.                                          *)
Authorised(q, op) == Free(q, op) /\ tenant = "ACTIVO"

-----------------------------------------------------------------------------
(* AccountsService *)

RoomForOne == Cardinality(LiveAccounts) < MaxAccounts

(* create: the count against maxAccounts; IMAP is verified before the      *)
(* insert, which may take seconds.                                         *)
Create(q, a) ==
  /\ Authorised(q, "create")
  /\ RoomForOne
  /\ Begin(q, "create", "write", {a}, "NONE")
  /\ UNCHANGED <<dbVars, redisVars, api, run>>

(* An address that has a row, deleted or not, is refused with 409.         *)
Insert(q) ==
  /\ At(q, "create", "write")
  /\ \E a \in call[q].on :
       IF Exists(a) THEN Done(q) /\ acct' = acct
       ELSE /\ acct' = [acct EXCEPT ![a].status = "ACTIVA"]
            /\ PlanFor(q, a, acct'[a], "schedule")
  /\ UNCHANGED <<tenant, redisVars, api, run>>

Update(q, a) ==
  /\ Authorised(q, "update") /\ Live(a)
  /\ Begin(q, "update", "write", {a}, acct[a].status)
  /\ UNCHANGED <<dbVars, redisVars, api, run>>

(* The PATCH may set ACTIVA or INACTIVA, or only change credentials, which *)
(* brings an account that was ERROR_AUTH back.                             *)
NewStatus(a, wanted, creds, seen) ==
  CASE wanted # "NONE"                 -> wanted
    [] creds /\ seen = "ERROR_AUTH"    -> "ACTIVA"
    [] OTHER                           -> acct[a].status

WriteUpdate(q) ==
  /\ At(q, "update", "write")
  /\ \E a \in call[q].on, wanted \in {"NONE", "ACTIVA", "INACTIVA"},
        creds \in BOOLEAN :
       LET status == NewStatus(a, wanted, creds, call[q].seen)
           recovered == creds /\ call[q].seen = "ERROR_AUTH" /\ status = "ACTIVA"
       IN /\ acct' = [acct EXCEPT ![a].status = status]
          /\ PlanFor(q, a, acct'[a], IF recovered THEN "reset" ELSE "schedule")
  /\ UNCHANGED <<tenant, redisVars, api, run>>

(* resetAuthFailures, for an account that comes back from ERROR_AUTH.      *)
Reset(q) ==
  /\ At(q, "update", "reset")
  /\ fails' = [a \in Account |-> IF a \in call[q].on THEN 0 ELSE fails[a]]
  /\ Becomes(q, "schedule")
  /\ UNCHANGED <<dbVars, jobs, waiting, lock, api, run>>

Remove(q, a) ==
  /\ Authorised(q, "remove") /\ Live(a)
  /\ Begin(q, "remove", "write", {a}, acct[a].status)
  /\ UNCHANGED <<dbVars, redisVars, api, run>>

WriteRemove(q) ==
  /\ At(q, "remove", "write")
  /\ acct' = [a \in Account |-> IF a \in call[q].on
                THEN [status |-> "INACTIVA", deleted |-> TRUE] ELSE acct[a]]
  /\ Plan(q, {}, call[q].on, "schedule")
  /\ UNCHANGED <<tenant, redisVars, api, run>>

(* triggerManualSync and resyncFrom enqueue one job; no schedule changes.  *)
Manual(q, a) ==
  /\ Authorised(q, "manual") /\ Syncable(a)
  /\ call' = [call EXCEPT ![q] = [NoCall EXCEPT !.op = "manual",
                                    !.step = "enqueue", !.add = {a}]]
  /\ UNCHANGED <<dbVars, redisVars, api, run>>

Enqueue(q) ==
  /\ At(q, "manual", "enqueue")
  /\ waiting' = waiting \cup call[q].add
  /\ Done(q)
  /\ UNCHANGED <<dbVars, jobs, fails, lock, api, run>>

(* IMAP does not accept the credentials: nothing is persisted.             *)
Refuse(q) ==
  /\ call[q].op \in {"create", "update"} /\ call[q].step = "write"
  /\ Done(q)
  /\ UNCHANGED <<dbVars, redisVars, api, run>>

-----------------------------------------------------------------------------
(* AdminService: suspend and activate *)

SetTenant(q, op) ==
  /\ Free(q, op)
  /\ Begin(q, op, "write", Account, tenant)
  /\ UNCHANGED <<dbVars, redisVars, api, run>>

(* The jobs are touched only when the status that was read says so.        *)
WriteTenant(q, op, status) ==
  /\ At(q, op, "write")
  /\ tenant' = status
  /\ IF call[q].seen # status THEN Becomes(q, "list") ELSE Done(q)
  /\ UNCHANGED <<acct, redisVars, api, run>>

ListToSuspend(q) ==
  /\ At(q, "suspend", "list")
  /\ Plan(q, {}, {a \in Account : Exists(a)}, "schedule")
  /\ UNCHANGED <<dbVars, redisVars, api, run>>

ListToActivate(q) ==
  /\ At(q, "activate", "list")
  /\ Plan(q, {a \in Account : Syncable(a)},
             {a \in Account : Live(a) /\ ~Syncable(a)}, "schedule")
  /\ UNCHANGED <<dbVars, redisVars, api, run>>

(* One registerRepeatable or removeRepeatable of the list. The bootstrap   *)
(* removes the orphans before it registers.                                *)
Schedule(q) ==
  /\ call[q].step = "schedule"
  /\ \/ call[q].add \cup call[q].del = {} /\ Done(q) /\ jobs' = jobs
     \/ \E a \in call[q].add : /\ q = Bootstrap => call[q].del = {}
                               /\ jobs' = jobs \cup {a}
                               /\ call' = [call EXCEPT ![q].add = @ \ {a}]
     \/ \E a \in call[q].del : /\ jobs' = jobs \ {a}
                               /\ call' = [call EXCEPT ![q].del = @ \ {a}]
  /\ api' = IF q = Bootstrap /\ call'[q] = NoCall THEN "up" ELSE api
  /\ UNCHANGED <<dbVars, waiting, fails, lock, run>>

-----------------------------------------------------------------------------
(* SyncBootstrap: before the API listens *)

StartApi ==
  /\ api = "down"
  /\ api' = "booting"
  /\ Begin(Bootstrap, "boot", "list", Account, "NONE")
  /\ UNCHANGED <<dbVars, redisVars, run>>

(* The ACTIVA accounts of ACTIVO tenants.                                  *)
ReadActive ==
  /\ At(Bootstrap, "boot", "list")
  /\ Plan(Bootstrap, {a \in Account : Should(a)}, {}, "reset")
  /\ UNCHANGED <<dbVars, redisVars, api, run>>

(* The jobs of the others are orphans.                                     *)
NoOrphans(active) == {}              \* mutant: orphan jobs stay
Orphans(active) == jobs \ active
ListJobs ==
  /\ At(Bootstrap, "boot", "reset")
  /\ Plan(Bootstrap, call[Bootstrap].add, Orphans(call[Bootstrap].add), "schedule")
  /\ UNCHANGED <<dbVars, redisVars, api, run>>

-----------------------------------------------------------------------------
(* The worker *)

(* The repeatable job fires.                                               *)
Fire(a) ==
  /\ a \in jobs
  /\ waiting' = waiting \cup {a}
  /\ UNCHANGED <<dbVars, jobs, fails, lock, api, call, run>>

AnyTenant == TRUE                    \* mutant: the tenant is not asked for
TenantActive == tenant = "ACTIVO"

(* revalidateJob and the lock: a job of a suspended tenant ends there, and *)
(* so does one that finds the lock taken.                                  *)
Take(a) ==
  /\ a \in waiting
  /\ waiting' = waiting \ {a}
  /\ IF Exists(a) /\ TenantActive /\ a \notin lock
     THEN run' = [run EXCEPT ![a] = "reading"] /\ lock' = lock \cup {a}
     ELSE UNCHANGED <<run, lock>>
  /\ UNCHANGED <<dbVars, jobs, fails, api, call>>

EndRun(a) == run' = [run EXCEPT ![a] = "idle"] /\ lock' = lock \ {a}

(* BullMQ tries a failed job again while it has attempts left.             *)
Retry(a) == waiting' \in {waiting, waiting \cup {a}}

(* runSync reads the account.                                              *)
Read(a) ==
  /\ run[a] = "reading"
  /\ IF Syncable(a) THEN run' = [run EXCEPT ![a] = "syncing"] /\ lock' = lock
                    ELSE EndRun(a)
  /\ UNCHANGED <<dbVars, jobs, waiting, fails, api, call>>

(* The run ends well: the failures are forgotten.                          *)
Synced(a) ==
  /\ run[a] = "syncing"
  /\ fails' = [fails EXCEPT ![a] = 0]
  /\ EndRun(a)
  /\ UNCHANGED <<dbVars, jobs, waiting, api, call>>

(* A failure other than of the login.                                      *)
SyncFails(a) ==
  /\ run[a] = "syncing"
  /\ EndRun(a) /\ Retry(a)
  /\ UNCHANGED <<dbVars, jobs, fails, api, call>>

(* INCR of the counter; nothing tells values over the threshold apart.     *)
FailCount(n) == IF n < Threshold THEN n + 1 ELSE n

(* onConnectionFailure: IMAP_AUTH_FAILED is counted; the third one locks   *)
(* the account out, whatever its status is by now.                         *)
LoginFails(a) ==
  /\ run[a] = "syncing"
  /\ fails' = [fails EXCEPT ![a] = FailCount(@)]
  /\ IF fails'[a] >= Threshold
     THEN run' = [run EXCEPT ![a] = "marking"] /\ UNCHANGED <<waiting, lock>>
     ELSE EndRun(a) /\ Retry(a)
  /\ UNCHANGED <<dbVars, jobs, api, call>>

MarkAuthError(a) ==
  /\ run[a] = "marking"
  /\ acct' = [acct EXCEPT ![a].status = "ERROR_AUTH"]
  /\ run' = [run EXCEPT ![a] = "removing"]
  /\ UNCHANGED <<tenant, redisVars, api, call>>

RemoveJob(a) ==
  /\ run[a] = "removing"
  /\ jobs' = jobs \ {a}
  /\ EndRun(a) /\ Retry(a)
  /\ UNCHANGED <<dbVars, fails, api, call>>

(* auth-fail:{account} lives 24 hours after the last failure.              *)
CounterExpires(a) ==
  /\ fails[a] > 0
  /\ fails' = [fails EXCEPT ![a] = 0]
  /\ UNCHANGED <<dbVars, jobs, waiting, lock, api, call, run>>

(* The lock of a run that died lives ten minutes.                          *)
LockExpires(a) ==
  /\ a \in lock /\ run[a] = "idle"
  /\ lock' = lock \ {a}
  /\ UNCHANGED <<dbVars, jobs, waiting, fails, api, call, run>>

-----------------------------------------------------------------------------
(* Deaths and failures *)

(* The API dies with the requests it was serving.                          *)
ApiDies ==
  /\ api # "down"
  /\ api' = "down"
  /\ call' = [q \in Actor |-> NoCall]
  /\ UNCHANGED <<dbVars, redisVars, run, unsure>>

(* Redis, or the folder of a new account, fails a request after its write. *)
Interrupted(q) ==
  /\ call[q].step \in {"reset", "list", "schedule"}
  /\ Done(q)
  /\ unsure' = unsure \cup call[q].on
  /\ UNCHANGED <<dbVars, redisVars, api, run>>

(* The worker dies; BullMQ gives its stalled jobs to the next one.         *)
WorkerDies ==
  /\ \E a \in Account : run[a] # "idle"
  /\ run' = [a \in Account |-> "idle"]
  /\ waiting' = waiting \cup {a \in Account : run[a] # "idle"}
  /\ unsure' = unsure \cup {a \in Account : Locking(a)}
  /\ UNCHANGED <<dbVars, jobs, fails, lock, api, call>>

-----------------------------------------------------------------------------

(* History: two actors at work on one account's schedule. A bootstrap      *)
(* starts afresh.                                                          *)
Track ==
  unsure' = (IF api = "down" /\ api' = "booting" THEN {} ELSE unsure)
              \cup {a \in Account : Overlap(a)'}

RequestStep(q) ==
  \/ \E a \in Account : Create(q, a) \/ Update(q, a) \/ Remove(q, a) \/ Manual(q, a)
  \/ Insert(q) \/ WriteUpdate(q) \/ Reset(q) \/ WriteRemove(q) \/ Enqueue(q)
  \/ Refuse(q)
  \/ SetTenant(q, "suspend") \/ WriteTenant(q, "suspend", "SUSPENDIDO")
  \/ SetTenant(q, "activate") \/ WriteTenant(q, "activate", "ACTIVO")
  \/ ListToSuspend(q) \/ ListToActivate(q)

RunStep(a) ==
  \/ Read(a) \/ Synced(a) \/ SyncFails(a) \/ LoginFails(a)
  \/ MarkAuthError(a) \/ RemoveJob(a)

Next ==
  \/ /\ \/ \E q \in Request : RequestStep(q)
        \/ \E q \in Actor : Schedule(q)
        \/ StartApi \/ ReadActive \/ ListJobs
        \/ \E a \in Account : Fire(a) \/ Take(a) \/ RunStep(a)
                              \/ CounterExpires(a) \/ LockExpires(a)
     /\ Track
  \/ ApiDies \/ WorkerDies \/ \E q \in Failing : Interrupted(q)

Spec == Init /\ [][Next]_vars

(* Every await of a run ends; nothing is assumed of jobs, people or faults.*)
Fairness == \A a \in Account : WF_vars(RunStep(a) /\ Track)
FairSpec == Spec /\ Fairness

-----------------------------------------------------------------------------
(* Properties *)

(* Every variable holds a value of the shape the code gives it.            *)
TypeOK ==
  /\ tenant \in TenantStatus
  /\ acct \in [Account -> [status : AccountStatus, deleted : BOOLEAN]]
  /\ jobs \subseteq Account /\ waiting \subseteq Account /\ lock \subseteq Account
  /\ fails \in [Account -> 0..Threshold]
  /\ api \in {"down", "booting", "up"}
  /\ call \in [Actor -> Call]
  /\ run \in [Account -> {"idle", "reading", "syncing", "marking", "removing"}]
  /\ unsure \subseteq Account

(* The queue follows the database: once nobody is at work on an account,   *)
(* it has a repeatable job exactly when it is ACTIVA, not deleted and of   *)
(* an ACTIVO tenant, through any sequence of requests, logins, suspensions *)
(* and restarts. Only two actors at work on it at once, or one that died   *)
(* half way, can break this, and the next bootstrap repairs it.            *)
ScheduleAgrees ==
  \A a \in Account \ unsure :
    api = "up" /\ AtRest(a) => (a \in jobs <=> Should(a))

(* create checks the limit and inserts seconds later: requests that race   *)
(* may exceed the plan, but never by more than there are requests.         *)
Inserting == {q \in Request : At(q, "create", "write")}
OvershootBounded ==
  Cardinality(LiveAccounts) + Cardinality(Inserting)
    <= MaxAccounts + Cardinality(Request) - 1

(* A tenant that stays suspended, or an account that stays inactive,       *)
(* locked out or deleted, is left alone in the end, orphan jobs included.  *)
StoppedGoesQuiet ==
  \A a \in Account :
    <>[](tenant = "SUSPENDIDO") \/ <>[]~Syncable(a) => <>[](run[a] # "syncing")

(* sync.scheduler.ts:57 and RUNBOOK.md:892-896: the schedule follows the   *)
(* state of the account; one that a PATCH brings back to ACTIVA has its    *)
(* job registered, with no further step.                                   *)
ActiveIsScheduled ==
  \A a \in Account :
    api = "up" /\ AtRest(a) /\ Should(a) => a \in jobs
=============================================================================
