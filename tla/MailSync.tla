------------------------------ MODULE MailSync ------------------------------
(***************************************************************************)
(* One e-mail account synchronised by the worker process                   *)
(* (src/src/sync/sync.service.ts, src/src/storage/storage.service.ts).     *)
(*                                                                         *)
(* A run is one execution of SyncService.syncAccount for the account: it   *)
(* takes the Redis lock, walks the IMAP mailbox from the persisted cursor, *)
(* writes each message's attachments to disk and then the message's row to *)
(* the database, reconciles the storage counter and gives the lock back.   *)
(* Each action is the code between two awaits whose interleaving with the  *)
(* other runs, with the users of the mailbox and with the administrators   *)
(* can be observed.                                                        *)
(*                                                                         *)
(* A message is a model value; its attachments are the JSON and PDF files  *)
(* of allowed size, each a name (the directory is part of the name) and a  *)
(* body, and every attachment counts one unit of storage.                  *)
(***************************************************************************)
EXTENDS Integers, Sequences, FiniteSets

CONSTANTS
  Run,            \* executions of the sync job that may coexist
  NoRun,          \* the lock's value when nobody holds it
  Msg, NoMsg,     \* messages, and the message of an absent row
  Name, Body,     \* attachment names and contents
  Absent,         \* content of a path where there is no file
  Attachments,    \* the attachments of each message, in order
  HasHeader,      \* the messages that carry a Message-ID header
  Day,            \* the day each message was received
  SyncDates,      \* the values syncFromDate may be given
  SinceExclusive, \* IMAP servers whose SEARCH SINCE d leaves out day d
  Quotas,         \* the values the plan's maxStorageBytes may be given
  MaxUid,         \* bound: messages in the mailbox
  Slow,           \* runs that may last longer than LOCK_TTL_SECONDS
  Budget,         \* bound: how often each event of Event happens
  Together        \* bound: the kinds of events that happen in one behaviour

(* What may go wrong or be changed around a run: the server renumbers the *)
(* mailbox, an administrator's resyncFrom, the operator's rewind, a new    *)
(* plan, the death of the process, a failure of IMAP, of the file system,  *)
(* of PostgreSQL or Redis outside processMessage's own error handling, of  *)
(* the message's transaction, of the acknowledgement of its COMMIT, of the *)
(* transaction of its ERROR row, a message without source, and the end of  *)
(* the lock under the run that holds it.                                   *)
Event == {"epoch", "resync", "rewind", "plan", "crash", "imap", "disk",
          "store", "tx", "ack", "errtx", "source", "lapse"}

Attachment == [name : Name, body : Body]

ASSUME ConstantsAssumption ==
  /\ NoRun \notin Run /\ NoMsg \notin Msg
  /\ Absent \notin Body /\ "primary" \notin Body
  /\ IsFiniteSet(Msg)
  /\ Attachments \in [Msg -> Seq(Attachment)]
  /\ HasHeader \subseteq Msg
  /\ Day \in [Msg -> Nat]
  /\ SyncDates \subseteq Nat \ {0}
  /\ SinceExclusive \in BOOLEAN
  /\ Quotas \subseteq Nat
  /\ MaxUid \in Nat
  /\ Slow \subseteq Run
  /\ Budget \in [Event -> Nat]
  /\ Together \subseteq SUBSET Event

(* A file is stored under its sanitized name, or under the name with a    *)
(* suffix cut from its SHA-256 when the name holds other content.         *)
Path == Name \X (Body \cup {"primary"})
Primary(n) == <<n, "primary">>
Suffixed(n, b) == <<n, b>>

(* The idempotency key of a message: its Message-ID header, or a name     *)
(* made from the account and the UID when it has none.                    *)
MessageId == ({"header"} \X Msg) \cup ({"synthetic"} \X (1..MaxUid))
Synthetic(u) == <<"synthetic", u>>
IdOf(m, u) == IF m \in HasHeader THEN <<"header", m>> ELSE Synthetic(u)

FileRef == [path : Path, body : Body]
SavedFile == [path : Path, body : Body, reused : BOOLEAN]
RowStatus == {"NONE", "PROCESADO", "SIN_ADJUNTOS", "ERROR"}
ErrorDetail == {"none", "QUOTA_EXCEEDED", "NO_SOURCE", "PERSIST", "DUPLICATE"}
Row == [status : RowStatus, detail : ErrorDetail, msg : Msg \cup {NoMsg},
        files : Seq(FileRef)]
NoRow == [status |-> "NONE", detail |-> "none", msg |-> NoMsg, files |-> <<>>]

Account == [lastUid : Nat, uidValidity : Nat, synced : BOOLEAN, syncFrom : Nat]
LogStatus == {"NONE", "EJECUTANDO", "COMPLETADO", "COMPLETADO_CON_ERRORES",
              "ERROR"}

(* Program counters: the ones of syncMailbox, while the IMAP session is   *)
(* open, and the ones of the code around it.                              *)
InSession == {"first", "fetch", "next", "lookup", "skip", "plain", "quota",
              "write", "hash", "rename", "charge", "commit", "rollback",
              "refund", "error"}
Around == {"reading", "cleaning", "opening", "finish", "finalize", "failing",
           "sum", "reconcile", "release", "unlock"}
InSync == InSession \cup Around

VARIABLES
  \* the world outside: the mailbox and the tenant's plan
  mailbox,    \* UIDVALIDITY and the messages by UID
  plan,       \* maxStorageBytes
  \* PostgreSQL
  account,    \* the e-mail account's row (uidValidity 0 is NULL; synced is
              \* lastSyncAt # NULL)
  rows,       \* processed_emails with their attachments, by message id
  syncLog,    \* status of the SyncLog row of each run
  \* the file system
  disk,       \* content of each path
  tmp,        \* content of each name's .tmp file
  \* Redis
  lock,       \* lock:sync:{account}: the run whose id it holds
  usage,      \* usage:bytes:{tenant}
  \* the worker's memory, per run
  pc,
  limit,      \* maxStorageBytes as revalidateJob read it
  snap,       \* the account as runSync read it
  cursor,     \* local lastUid
  hi,         \* last UID of the mailbox when it was opened or fetched
  hadErrors,
  why,        \* cause of the message's error, when there is one
  target,     \* path saveAttachment is looking at
  saved,      \* files saveAttachment returned for the current message
  total,      \* sum reconcileUsage read from the database
  \* the bound on events
  left

worldVars == <<mailbox, plan>>
dbVars == <<account, rows>>
diskVars == <<disk, tmp>>
redisVars == <<lock, usage>>
walkVars == <<limit, snap, cursor, hi, hadErrors>>
fileVars == <<target, saved>>
vars == <<worldVars, dbVars, syncLog, diskVars, redisVars, pc, walkVars, why,
          fileVars, total, left>>

Init ==
  /\ mailbox = [epoch |-> 1, msgs |-> <<>>]
  /\ plan \in Quotas
  /\ \E d \in SyncDates :
       account = [lastUid |-> 0, uidValidity |-> 0, synced |-> FALSE,
                  syncFrom |-> d]
  /\ rows = [id \in MessageId |-> NoRow]
  /\ syncLog = [r \in Run |-> "NONE"]
  /\ disk = [p \in Path |-> Absent]
  /\ tmp = [n \in Name |-> Absent]
  /\ lock = NoRun
  /\ usage = 0
  /\ pc = [r \in Run |-> "idle"]
  /\ limit = [r \in Run |-> 0]
  /\ snap = [r \in Run |-> [lastUid |-> 0, uidValidity |-> 0,
                            synced |-> FALSE, syncFrom |-> 0]]
  /\ cursor = [r \in Run |-> 0]
  /\ hi = [r \in Run |-> 0]
  /\ hadErrors = [r \in Run |-> FALSE]
  /\ why = [r \in Run |-> "none"]
  /\ target = [r \in Run |-> Absent]
  /\ saved = [r \in Run |-> <<>>]
  /\ total = [r \in Run |-> 0]
  /\ left = Budget

-----------------------------------------------------------------------------
(* Helpers *)

Go(r, next) == pc' = [pc EXCEPT ![r] = next]
Happened == {e \in Event : left[e] < Budget[e]}
Spend(e) == /\ left[e] > 0
            /\ \E kinds \in Together : Happened \cup {e} \subseteq kinds
            /\ left' = [left EXCEPT ![e] = @ - 1]

Uid(r) == cursor[r] + 1
MsgOf(r) == mailbox.msgs[Uid(r)]
ThisId(r) == IF why[r] = "NO_SOURCE" THEN Synthetic(Uid(r))
             ELSE IdOf(MsgOf(r), Uid(r))
Registered(id) == rows[id].status # "NONE"

(* The attachment processMessage is saving: the first one not saved yet.  *)
Current(r) == Attachments[MsgOf(r)][Len(saved[r]) + 1]
AllSaved(files, m) == Len(files) = Len(Attachments[m])

(* Files of the message that this run itself wrote.                       *)
EveryIndex(r) == DOMAIN saved[r]      \* mutant: the reused ones too
FreshIndexes(r) == {i \in DOMAIN saved[r] : ~saved[r][i].reused}
NoPath(r) == {}                       \* mutant: nothing is rolled back
FreshPaths(r) == {saved[r][i].path : i \in FreshIndexes(r)}

(* processMessage is over: syncMailbox goes on to the next UID.           *)
MessageDone(r) ==
  /\ cursor' = [cursor EXCEPT ![r] = Uid(r)]
  /\ why' = [why EXCEPT ![r] = "none"]
  /\ target' = [target EXCEPT ![r] = Absent]
  /\ saved' = [saved EXCEPT ![r] = <<>>]
  /\ Go(r, "next")

(* The run's memory is gone: it returned, or its process died.            *)
Forget(r) ==
  /\ limit' = [limit EXCEPT ![r] = 0]
  /\ snap' = [snap EXCEPT ![r] = [lastUid |-> 0, uidValidity |-> 0,
                                  synced |-> FALSE, syncFrom |-> 0]]
  /\ cursor' = [cursor EXCEPT ![r] = 0]
  /\ hi' = [hi EXCEPT ![r] = 0]
  /\ hadErrors' = [hadErrors EXCEPT ![r] = FALSE]
  /\ why' = [why EXCEPT ![r] = "none"]
  /\ target' = [target EXCEPT ![r] = Absent]
  /\ saved' = [saved EXCEPT ![r] = <<>>]
  /\ total' = [total EXCEPT ![r] = 0]
  /\ Go(r, "idle")

(* INSERT of a processed_emails row together with the cursor, in one      *)
(* transaction.                                                           *)
Insert(id, row, u) ==
  /\ rows' = [rows EXCEPT ![id] = row]
  /\ account' = [account EXCEPT !.lastUid = u]

(* What the attachment rows of the tenant add up to.                      *)
DbUnits == Cardinality(UNION {{id} \X DOMAIN rows[id].files : id \in MessageId})

-----------------------------------------------------------------------------
(* syncAccount: lock, snapshot, preparation *)

LockIgnored(r) == TRUE                \* mutant: SET without NX
LockFree(r) == lock = NoRun

(* revalidateJob, then SET lock id EX 600 NX. When another run holds the   *)
(* lock the job ends there and changes nothing.                            *)
Acquire(r) ==
  /\ pc[r] = "idle" /\ LockFree(r)
  /\ lock' = r
  /\ limit' = [limit EXCEPT ![r] = plan]
  /\ Go(r, "reading")
  /\ UNCHANGED <<worldVars, dbVars, syncLog, diskVars, usage, snap, cursor, hi,
                 hadErrors, why, fileVars, total, left>>

(* runSync reads the account, then creates its SyncLog.                    *)
ReadAccount(r) ==
  /\ pc[r] = "reading"
  /\ snap' = [snap EXCEPT ![r] = account]
  /\ syncLog' = [syncLog EXCEPT ![r] = "EJECUTANDO"]
  /\ Go(r, "cleaning")
  /\ UNCHANGED <<worldVars, dbVars, diskVars, redisVars, limit, cursor, hi,
                 hadErrors, why, fileVars, total, left>>

CleanOrphanTmp(r) ==
  /\ pc[r] = "cleaning"
  /\ tmp' = [n \in Name |-> Absent]
  /\ Go(r, "opening")
  /\ UNCHANGED <<worldVars, dbVars, syncLog, disk, redisVars, walkVars, why,
                 fileVars, total, left>>

-----------------------------------------------------------------------------
(* syncMailbox: from the persisted cursor to the end of the mailbox *)

LastUid == Len(mailbox.msgs)

(* A UIDVALIDITY other than the account's makes the cursor meaningless,    *)
(* unless it is the first one the account sees.                            *)
CursorKept(r) == snap[r].lastUid      \* mutant: the reset is forgotten
StartUid(r) ==
  IF snap[r].uidValidity \in {0, mailbox.epoch} THEN snap[r].lastUid ELSE 0

(* connect and mailboxOpen; a new UIDVALIDITY is persisted with the cursor *)
(* it starts from.                                                         *)
OpenMailbox(r) ==
  /\ pc[r] = "opening"
  /\ cursor' = [cursor EXCEPT ![r] = StartUid(r)]
  /\ hi' = [hi EXCEPT ![r] = LastUid]
  /\ account' = IF mailbox.epoch # snap[r].uidValidity
                THEN [account EXCEPT !.uidValidity = mailbox.epoch,
                                     !.lastUid = StartUid(r)]
                ELSE account
  /\ Go(r, IF snap[r].synced THEN "fetch" ELSE "first")
  /\ UNCHANGED <<worldVars, rows, syncLog, diskVars, redisVars, limit, snap,
                 hadErrors, why, fileVars, total, left>>

(* SEARCH SINCE on the server.                                             *)
SearchSince(d) ==
  {u \in 1..LastUid :
     IF SinceExclusive THEN Day[mailbox.msgs[u]] > d
                       ELSE Day[mailbox.msgs[u]] >= d}

(* The days subtracted from syncFromDate before searching.                 *)
NoMargin == 0                         \* mutant: the date itself
SearchMargin == 1

(* resolveFirstSyncStartUid: the UID before the first match, or uidNext-1  *)
(* when nothing matches.                                                   *)
FirstOf(uids) == {u \in uids : \A v \in uids : u <= v}
StartAtMatch(r) ==                    \* mutant: the first match is left out
  LET matches == SearchSince(snap[r].syncFrom - SearchMargin)
  IN IF matches = {} THEN {hi[r]} ELSE FirstOf(matches)
FirstSyncStartUid(r) ==
  LET matches == SearchSince(snap[r].syncFrom - SearchMargin)
  IN IF matches = {} THEN {hi[r]} ELSE {u - 1 : u \in FirstOf(matches)}

FirstSync(r) ==
  /\ pc[r] = "first"
  /\ \E start \in FirstSyncStartUid(r) :
        /\ cursor' = [cursor EXCEPT ![r] = start]
        /\ account' = [account EXCEPT !.lastUid = start]
  /\ Go(r, "fetch")
  /\ UNCHANGED <<worldVars, rows, syncLog, diskVars, redisVars, limit, snap, hi,
                 hadErrors, why, fileVars, total, left>>

(* Mutant: the cursor is persisted for the whole batch before it is read.  *)
FetchAndAdvance(r) ==
  /\ pc[r] = "fetch"
  /\ hi' = [hi EXCEPT ![r] = LastUid]
  /\ account' = [account EXCEPT !.lastUid = LastUid]
  /\ Go(r, "next")
  /\ UNCHANGED <<worldVars, rows, syncLog, diskVars, redisVars, limit, snap,
                 cursor, hadErrors, why, fileVars, total, left>>

(* FETCH lastUid+1:* ; the server fixes the range when it gets the command.*)
Fetch(r) ==
  /\ pc[r] = "fetch"
  /\ hi' = [hi EXCEPT ![r] = LastUid]
  /\ Go(r, "next")
  /\ UNCHANGED <<worldVars, dbVars, syncLog, diskVars, redisVars, limit, snap,
                 cursor, hadErrors, why, fileVars, total, left>>

NextMessage(r) ==
  /\ pc[r] = "next"
  /\ Go(r, IF cursor[r] < hi[r] THEN "lookup" ELSE "finish")
  /\ UNCHANGED <<worldVars, dbVars, syncLog, diskVars, redisVars, walkVars, why,
                 fileVars, total, left>>

-----------------------------------------------------------------------------
(* processMessage: what to do with the message *)

(* The server returned no source: an ERROR row under a synthetic id.       *)
EmptySource(r) ==
  /\ pc[r] = "lookup"
  /\ Spend("source")
  /\ why' = [why EXCEPT ![r] = "NO_SOURCE"]
  /\ Go(r, "error")
  /\ UNCHANGED <<worldVars, dbVars, syncLog, diskVars, redisVars, walkVars,
                 fileVars, total>>

Lookup(r) ==
  /\ pc[r] = "lookup"
  /\ Go(r, IF Registered(ThisId(r)) THEN "skip"
           ELSE IF Attachments[MsgOf(r)] = <<>> THEN "plain" ELSE "quota")
  /\ UNCHANGED <<worldVars, dbVars, syncLog, diskVars, redisVars, walkVars, why,
                 fileVars, total, left>>

(* Mutant: the walk does not move on from a duplicate.                     *)
SkipInPlace(r) ==
  /\ pc[r] = "skip"
  /\ account' = [account EXCEPT !.lastUid = Uid(r)]
  /\ Go(r, "next")
  /\ UNCHANGED <<worldVars, rows, syncLog, diskVars, redisVars, walkVars, why,
                 fileVars, total, left>>

(* A duplicate advances the cursor as a processed message does.            *)
Skip(r) ==
  /\ pc[r] = "skip"
  /\ account' = [account EXCEPT !.lastUid = Uid(r)]
  /\ MessageDone(r)
  /\ UNCHANGED <<worldVars, rows, syncLog, diskVars, redisVars, limit, snap, hi,
                 hadErrors, total, left>>

(* persistEmail: the row of a message without attachments; losing the race *)
(* for the unique key (P2002) makes it a duplicate, or ends the run: the   *)
(* name of the key, by which the code knows the race, may not come with    *)
(* the error under row-level security (accounts.service.ts, create).       *)
PersistPlain(r) ==
  /\ pc[r] = "plain"
  /\ IF Registered(ThisId(r))
     THEN /\ \E next \in {"skip", "failing"} : Go(r, next)
          /\ UNCHANGED <<dbVars, cursor, why, fileVars>>
     ELSE /\ Insert(ThisId(r), [status |-> "SIN_ADJUNTOS", detail |-> "none",
                                msg |-> MsgOf(r), files |-> <<>>], Uid(r))
          /\ MessageDone(r)
  /\ UNCHANGED <<worldVars, syncLog, diskVars, redisVars, limit, snap, hi,
                 hadErrors, total, left>>

(* The quota check reads the counter before anything is written.           *)
QuotaCheck(r) ==
  /\ pc[r] = "quota"
  /\ IF usage + Len(Attachments[MsgOf(r)]) > limit[r]
     THEN /\ why' = [why EXCEPT ![r] = "QUOTA_EXCEEDED"]
          /\ Go(r, "error")
     ELSE /\ why' = why
          /\ Go(r, "write")
  /\ UNCHANGED <<worldVars, dbVars, syncLog, diskVars, redisVars, walkVars,
                 fileVars, total, left>>

-----------------------------------------------------------------------------
(* StorageService.saveAttachment *)

(* The content goes to {name}.tmp first, whoever else is writing it.       *)
WriteTmp(r) ==
  /\ pc[r] = "write"
  /\ tmp' = [tmp EXCEPT ![Current(r).name] = Current(r).body]
  /\ target' = [target EXCEPT ![r] = Primary(Current(r).name)]
  /\ Go(r, "hash")
  /\ UNCHANGED <<worldVars, dbVars, syncLog, disk, redisVars, walkVars, why,
                 saved, total, left>>

(* saveAttachment returned: the next attachment, or the row.               *)
Keep(r, reused, next) ==
  LET files == Append(saved[r], [path |-> target[r], body |-> Current(r).body,
                                 reused |-> reused])
  IN /\ saved' = [saved EXCEPT ![r] = files]
     /\ target' = [target EXCEPT ![r] = Absent]
     /\ Go(r, IF next # "save" THEN next
              ELSE IF AllSaved(files, MsgOf(r)) THEN "commit" ELSE "write")

(* The path already holds this content: reuse the file, drop the .tmp.     *)
ReuseFile(r) ==
  /\ pc[r] = "hash" /\ disk[target[r]] = Current(r).body
  /\ tmp' = [tmp EXCEPT ![Current(r).name] = Absent]
  /\ Keep(r, TRUE, "save")
  /\ UNCHANGED <<worldVars, dbVars, syncLog, disk, redisVars, walkVars, why,
                 total, left>>

EveryPathFree(p) == TRUE              \* mutant: collisions go unnoticed
PathFree(p) == disk[p] = Absent

(* hashIfExists found no file, or other content under the primary name.    *)
ChoosePath(r) ==
  /\ pc[r] = "hash"
  /\ \/ /\ PathFree(target[r]) /\ disk[target[r]] # Current(r).body
        /\ target' = target
        /\ Go(r, "rename")
     \/ /\ disk[target[r]] \notin {Absent, Current(r).body}
        /\ target[r] = Primary(Current(r).name)
        /\ target' = [target EXCEPT ![r] = Suffixed(Current(r).name, Current(r).body)]
        /\ pc' = pc
  /\ UNCHANGED <<worldVars, dbVars, syncLog, diskVars, redisVars, walkVars, why,
                 saved, total, left>>

(* The suffixed name holds other content: saveAttachment throws.           *)
HashCollision(r) ==
  /\ pc[r] = "hash" /\ disk[target[r]] \notin {Absent, Current(r).body}
  /\ target[r] = Suffixed(Current(r).name, Current(r).body)
  /\ tmp' = [tmp EXCEPT ![Current(r).name] = Absent]
  /\ Go(r, "failing")
  /\ UNCHANGED <<worldVars, dbVars, syncLog, disk, redisVars, walkVars, why,
                 fileVars, total, left>>

(* rename(tmp, path) moves whatever the .tmp holds by now; a .tmp somebody *)
(* else moved or removed makes it throw.                                   *)
Rename(r) ==
  /\ pc[r] = "rename"
  /\ IF tmp[Current(r).name] = Absent
     THEN /\ Go(r, "failing")
          /\ UNCHANGED <<diskVars, fileVars>>
     ELSE /\ disk' = [disk EXCEPT ![target[r]] = tmp[Current(r).name]]
          /\ tmp' = [tmp EXCEPT ![Current(r).name] = Absent]
          /\ Keep(r, FALSE, "charge")
  /\ UNCHANGED <<worldVars, dbVars, syncLog, redisVars, walkVars, why, total,
                 left>>

(* incrUsageBytes for a file that was not there before.                    *)
Charge(r) ==
  /\ pc[r] = "charge"
  /\ usage' = usage + 1
  /\ Go(r, IF AllSaved(saved[r], MsgOf(r)) THEN "commit" ELSE "write")
  /\ UNCHANGED <<worldVars, dbVars, syncLog, diskVars, lock, walkVars, why,
                 fileVars, total, left>>

-----------------------------------------------------------------------------
(* processMessage: the transaction and its rollback on disk *)

ArchivedRow(r) ==
  [status |-> "PROCESADO", detail |-> "none", msg |-> MsgOf(r),
   files |-> [i \in DOMAIN saved[r] |-> [path |-> saved[r][i].path,
                                        body |-> saved[r][i].body]]]

(* The message's row, its attachment rows and the cursor in one            *)
(* transaction; the unique key refuses a message somebody else stored,     *)
(* which the code takes for a duplicate or, without the name of the key,   *)
(* for any other failure.                                                  *)
Commit(r) ==
  /\ pc[r] = "commit"
  /\ IF Registered(ThisId(r))
     THEN /\ \E cause \in {"DUPLICATE", "PERSIST"} : why' = [why EXCEPT ![r] = cause]
          /\ Go(r, "rollback")
          /\ UNCHANGED <<dbVars, cursor, fileVars>>
     ELSE /\ Insert(ThisId(r), ArchivedRow(r), Uid(r))
          /\ MessageDone(r)
  /\ UNCHANGED <<worldVars, syncLog, diskVars, redisVars, limit, snap, hi,
                 hadErrors, total, left>>

(* The transaction fails for another reason.                               *)
CommitFails(r) ==
  /\ pc[r] = "commit"
  /\ Spend("tx")
  /\ why' = [why EXCEPT ![r] = "PERSIST"]
  /\ Go(r, "rollback")
  /\ UNCHANGED <<worldVars, dbVars, syncLog, diskVars, redisVars, walkVars,
                 fileVars, total>>

(* PostgreSQL commits, but the worker gets an error instead of the answer: *)
(* to the catch this is any other failure.                                 *)
CommitUnacknowledged(r) ==
  /\ pc[r] = "commit" /\ ~Registered(ThisId(r))
  /\ Spend("ack")
  /\ Insert(ThisId(r), ArchivedRow(r), Uid(r))
  /\ why' = [why EXCEPT ![r] = "PERSIST"]
  /\ Go(r, "rollback")
  /\ UNCHANGED <<worldVars, syncLog, diskVars, redisVars, walkVars, fileVars,
                 total>>

(* deleteFiles of what this run wrote for the message; a file that cannot  *)
(* be deleted is only logged.                                              *)
Rollback(r) ==
  /\ pc[r] = "rollback"
  /\ \E stuck \in SUBSET FreshPaths(r) :
        /\ disk' = [p \in Path |-> IF p \in FreshPaths(r) \ stuck THEN Absent
                                  ELSE disk[p]]
        /\ IF stuck = {} THEN left' = left ELSE Spend("disk")
  /\ Go(r, "refund")
  /\ UNCHANGED <<worldVars, dbVars, syncLog, tmp, redisVars, walkVars, why,
                 fileVars, total>>

(* decrUsageBytes; then the message is a duplicate or an error.            *)
Refund(r) ==
  /\ pc[r] = "refund"
  /\ usage' = usage - Cardinality(FreshIndexes(r))
  /\ Go(r, IF why[r] = "DUPLICATE" THEN "skip" ELSE "error")
  /\ UNCHANGED <<worldVars, dbVars, syncLog, diskVars, lock, walkVars, why,
                 fileVars, total, left>>

(* registerEmailError: an ERROR row and the cursor, unless the id is       *)
(* taken. A transaction that fails is only logged. Either way the walk     *)
(* goes on with the next message.                                          *)
RegisterError(r) ==
  /\ pc[r] = "error"
  /\ \/ /\ IF Registered(ThisId(r)) THEN UNCHANGED dbVars
           ELSE Insert(ThisId(r), [status |-> "ERROR", detail |-> why[r],
                                   msg |-> MsgOf(r), files |-> <<>>], Uid(r))
        /\ left' = left
     \/ /\ Spend("errtx")
        /\ UNCHANGED dbVars
  /\ hadErrors' = [hadErrors EXCEPT ![r] = TRUE]
  /\ MessageDone(r)
  /\ UNCHANGED <<worldVars, syncLog, diskVars, redisVars, limit, snap, hi, total>>

-----------------------------------------------------------------------------
(* runSync: the end of a run, good or bad *)

(* lastSyncAt := now, whatever happened to the account during the run.     *)
Finish(r) ==
  /\ pc[r] = "finish"
  /\ account' = [account EXCEPT !.synced = TRUE]
  /\ Go(r, "finalize")
  /\ UNCHANGED <<worldVars, rows, syncLog, diskVars, redisVars, walkVars, why,
                 fileVars, total, left>>

FinalizeSyncLog(r) ==
  /\ \/ /\ pc[r] = "finalize"
        /\ syncLog' = [syncLog EXCEPT ![r] = IF hadErrors[r]
                          THEN "COMPLETADO_CON_ERRORES" ELSE "COMPLETADO"]
     \/ /\ pc[r] = "failing"    \* after onConnectionFailure
        /\ syncLog' = [syncLog EXCEPT ![r] = "ERROR"]
  /\ Go(r, "sum")
  /\ UNCHANGED <<worldVars, dbVars, diskVars, redisVars, walkVars, why, fileVars,
                 total, left>>

(* Mutant: the counter is read back instead of the attachment rows.        *)
SumCounter(r) ==
  /\ pc[r] = "sum"
  /\ total' = [total EXCEPT ![r] = usage]
  /\ Go(r, "reconcile")
  /\ UNCHANGED <<worldVars, dbVars, syncLog, diskVars, redisVars, walkVars, why,
                 fileVars, left>>

(* reconcileUsage: the sum is read from PostgreSQL ...                     *)
SumUsage(r) ==
  /\ pc[r] = "sum"
  /\ total' = [total EXCEPT ![r] = DbUnits]
  /\ Go(r, "reconcile")
  /\ UNCHANGED <<worldVars, dbVars, syncLog, diskVars, redisVars, walkVars, why,
                 fileVars, left>>

(* ... and then written to Redis.                                          *)
ReconcileUsage(r) ==
  /\ pc[r] = "reconcile"
  /\ usage' = total[r]
  /\ Go(r, "release")
  /\ UNCHANGED <<worldVars, dbVars, syncLog, diskVars, lock, walkVars, why,
                 fileVars, total, left>>

(* The finally of syncAccount: GET the lock ...                            *)
Release(r) ==
  /\ pc[r] = "release"
  /\ IF lock = r THEN /\ Go(r, "unlock")
                      /\ UNCHANGED <<walkVars, why, fileVars, total>>
                 ELSE Forget(r)
  /\ UNCHANGED <<worldVars, dbVars, syncLog, diskVars, redisVars, left>>

(* ... and DEL it, whoever holds it by now.                                *)
Unlock(r) ==
  /\ pc[r] = "unlock"
  /\ lock' = NoRun
  /\ Forget(r)
  /\ UNCHANGED <<worldVars, dbVars, syncLog, diskVars, usage, left>>

(* Where an exception of the IMAP connection, of the file system or of     *)
(* PostgreSQL and Redis leaves the code that awaits it.                    *)
ThrowsAt(e) ==
  CASE e = "imap"  -> {"opening", "first", "fetch", "next"}
    [] e = "disk"  -> {"cleaning", "write", "hash", "rename"}
    [] e = "store" -> {"reading", "opening", "first", "lookup", "skip", "plain",
                       "quota", "charge", "refund", "finish", "finalize",
                       "failing", "sum", "reconcile"}

(* Inside the try of runSync the catch handles it; before the try, and in  *)
(* the catch itself, it escapes to the finally of syncAccount.             *)
Abort(r) ==
  /\ \E e \in {"imap", "disk", "store"} : pc[r] \in ThrowsAt(e) /\ Spend(e)
  /\ Go(r, IF pc[r] \in {"reading", "failing"} \/ syncLog[r] = "ERROR"
           THEN "release" ELSE "failing")
  /\ UNCHANGED <<worldVars, dbVars, syncLog, diskVars, redisVars, walkVars, why,
                 fileVars, total>>

(* The worker process dies; its lock and its SyncLog stay.                 *)
Crash(r) ==
  /\ pc[r] # "idle"
  /\ Spend("crash")
  /\ Forget(r)
  /\ UNCHANGED <<worldVars, dbVars, syncLog, diskVars, redisVars>>

(* The lock's 600 seconds are over. Nothing renews it.                     *)
ExpireLock ==
  /\ lock # NoRun
  /\ \/ pc[lock] = "idle" /\ UNCHANGED left
     \/ pc[lock] # "idle" /\ lock \in Slow /\ Spend("lapse")
  /\ lock' = NoRun
  /\ UNCHANGED <<worldVars, dbVars, syncLog, diskVars, usage, pc, walkVars, why,
                 fileVars, total>>

-----------------------------------------------------------------------------
(* The mailbox, the administrators and the operator *)

Deliver(m) ==
  /\ Len(mailbox.msgs) < MaxUid
  /\ mailbox' = [mailbox EXCEPT !.msgs = Append(@, m)]
  /\ UNCHANGED <<plan, dbVars, syncLog, diskVars, redisVars, pc, walkVars, why,
                 fileVars, total, left>>

(* The server renumbers the mailbox: a new UIDVALIDITY, some of the        *)
(* messages, in any order. It may not do so while a session has it open.   *)
NewUidValidity ==
  LET old == mailbox.msgs
  IN
  /\ \A r \in Run : pc[r] \notin InSession
  /\ Spend("epoch")
  /\ \E n \in 0..Len(old) : \E pick \in [1..n -> DOMAIN old] :
        /\ \A i, j \in 1..n : pick[i] = pick[j] => i = j
        /\ mailbox' = [epoch |-> mailbox.epoch + 1,
                       msgs |-> [i \in 1..n |-> old[pick[i]]]]
  /\ UNCHANGED <<plan, dbVars, syncLog, diskVars, redisVars, pc, walkVars, why,
                 fileVars, total>>

(* AccountsService.resyncFrom: a new starting date, and lastSyncAt back to *)
(* NULL. The manual job it enqueues is an Acquire that may come any time.  *)
ResyncFrom(d) ==
  /\ Spend("resync")
  /\ account' = [account EXCEPT !.syncFrom = d, !.synced = FALSE]
  /\ UNCHANGED <<worldVars, rows, syncLog, diskVars, redisVars, pc, walkVars,
                 why, fileVars, total>>

(* The operator's UPDATE for reprocessing a period.                        *)
OperatorRewind(d) ==
  /\ Spend("rewind")
  /\ account' = [account EXCEPT !.syncFrom = d, !.lastUid = 0]
  /\ UNCHANGED <<worldVars, rows, syncLog, diskVars, redisVars, pc, walkVars,
                 why, fileVars, total>>

(* AdminService.update changes the plan's storage.                         *)
ChangePlan(q) ==
  /\ q # plan
  /\ Spend("plan")
  /\ plan' = q
  /\ UNCHANGED <<mailbox, dbVars, syncLog, diskVars, redisVars, pc, walkVars,
                 why, fileVars, total>>

World ==
  \/ \E m \in Msg : Deliver(m)
  \/ NewUidValidity
  \/ \E d \in SyncDates : ResyncFrom(d) \/ OperatorRewind(d)
  \/ \E q \in Quotas : ChangePlan(q)

SaveAttachment(r) ==
  WriteTmp(r) \/ ReuseFile(r) \/ ChoosePath(r) \/ HashCollision(r) \/ Rename(r)
    \/ Charge(r)

ProcessMessage(r) ==
  Lookup(r) \/ Skip(r) \/ PersistPlain(r) \/ QuotaCheck(r) \/ SaveAttachment(r)
    \/ Commit(r) \/ Rollback(r) \/ Refund(r) \/ RegisterError(r)

(* What a run does when nothing goes wrong around it.                      *)
RunStep(r) ==
  \/ ReadAccount(r) \/ CleanOrphanTmp(r) \/ OpenMailbox(r) \/ FirstSync(r)
  \/ Fetch(r) \/ NextMessage(r) \/ ProcessMessage(r)
  \/ Finish(r) \/ FinalizeSyncLog(r) \/ SumUsage(r) \/ ReconcileUsage(r)
  \/ Release(r) \/ Unlock(r)

Fault(r) ==
  EmptySource(r) \/ CommitFails(r) \/ CommitUnacknowledged(r) \/ Abort(r)
    \/ Crash(r)

Next ==
  \/ World
  \/ ExpireLock
  \/ \E r \in Run : Acquire(r) \/ RunStep(r) \/ Fault(r)

Spec == Init /\ [][Next]_vars

(* The worker's event loop runs every pending continuation, Redis expires  *)
(* the keys of dead processes, and the repeatable job of an ACTIVA account *)
(* starts runs for ever.                                                   *)
Fairness ==
  /\ \A r \in Run : WF_vars(RunStep(r))
  /\ WF_vars(ExpireLock)
  /\ WF_vars(\E r \in Run : Acquire(r))

FairSpec == Spec /\ Fairness

-----------------------------------------------------------------------------
(* Types *)

Uids == 0..MaxUid

(* Every variable holds a value of the shape the code gives it; no walk    *)
(* ends past the last UID of the mailbox.                                  *)
TypeOK ==
  /\ mailbox \in [epoch : Nat \ {0}, msgs : Seq(Msg)]
  /\ Len(mailbox.msgs) <= MaxUid
  /\ plan \in Quotas
  /\ account \in Account
  /\ rows \in [MessageId -> Row]
  /\ syncLog \in [Run -> LogStatus]
  /\ disk \in [Path -> Body \cup {Absent}]
  /\ tmp \in [Name -> Body \cup {Absent}]
  /\ lock \in Run \cup {NoRun}
  /\ usage \in Int
  /\ pc \in [Run -> InSync \cup {"idle"}]
  /\ limit \in [Run -> Nat]
  /\ snap \in [Run -> Account]
  /\ cursor \in [Run -> Nat]
  /\ hi \in [Run -> Uids]
  /\ hadErrors \in [Run -> BOOLEAN]
  /\ why \in [Run -> ErrorDetail]
  /\ target \in [Run -> Path \cup {Absent}]
  /\ saved \in [Run -> Seq(SavedFile)]
  /\ total \in [Run -> Nat]
  /\ left \in [Event -> Nat]

-----------------------------------------------------------------------------
(* Safety *)

(* RF-02.4: the lock keeps two runs of the account apart.                  *)
MutualExclusion ==
  \A r, s \in Run : pc[r] \in InSync /\ pc[s] \in InSync => r = s

FilesOf(id) == {rows[id].files[i] : i \in DOMAIN rows[id].files}
Intact(f) == disk[f.path] = f.body

(* Every attachment a committed row points to is on disk with the content  *)
(* the row describes, through collisions, reuse, rollbacks, crashes and    *)
(* failures: neither an upload of another message nor the rollback of a    *)
(* failed one may touch it.                                                *)
RowsHaveFiles ==
  \A id \in MessageId : \A f \in FilesOf(id) : Intact(f)

Archived(m) == \E id \in MessageId : rows[id].msg = m /\ Registered(id)

(* A step that moves the persisted cursor forward never leaves a message   *)
(* without a row behind it, nor passes the last message: no UID up to the  *)
(* cursor of the current UIDVALIDITY is lost. Left out on purpose are only *)
(* the messages from before the date the account asked for, of which the   *)
(* first synchronisation makes its starting point, and a message whose     *)
(* ERROR row fails too, which leaves a line in the log.                    *)
NoMessageSkipped ==
  [][ \/ \E r \in Run : pc[r] = "first" /\ pc'[r] = "fetch"
      \/ "errtx" \in Happened
      \/ \A u \in 1..account'.lastUid :
            \/ u <= account.lastUid /\ account'.uidValidity = account.uidValidity
            \/ (u <= Len(mailbox.msgs) /\ Archived(mailbox.msgs[u]))'
            \/ u <= Len(mailbox.msgs) /\ Day[mailbox.msgs[u]] < account.syncFrom
    ]_vars

(* A first synchronisation that has walked the mailbox to its end leaves a *)
(* row for every message there was when it was fetched, but those received *)
(* before the date the account asked for: whichever way the server reads   *)
(* SINCE, and whatever failed, was renumbered or ran besides.  A message   *)
(* whose ERROR row fails too is left out, as above.                        *)
FirstSyncCoversDate ==
  [][ \A r \in Run : pc[r] = "next" /\ pc'[r] = "finish" /\ ~snap[r].synced =>
        \/ "errtx" \in Happened
        \/ \A u \in 1..hi[r] : \/ Day[mailbox.msgs[u]] < snap[r].syncFrom
                              \/ Archived(mailbox.msgs[u]) ]_vars

(* Failed transactions and lost races leave no file behind: when no run is *)
(* in progress and none was cut short, every file belongs to a row.        *)
NoOrphanFiles ==
  (/\ \A r \in Run : pc[r] = "idle"
   /\ \A e \in {"crash", "disk", "store"} : left[e] = Budget[e])
  => \A p \in Path : disk[p] # Absent =>
       \E id \in MessageId : \E f \in FilesOf(id) : f.path = p

(* A run that reaches its end leaves the counter equal to what the         *)
(* database holds, whatever a crash did to it before.                      *)
UsageReconciled ==
  \A r \in Run : pc[r] \in {"release", "unlock"} /\ left["store"] = Budget["store"]
                 => usage = DbUnits

-----------------------------------------------------------------------------
(* Refinement *)

(* The archive a reader sees: the status of each row, and the rows all of  *)
(* whose files are on disk.                                                *)
Outcome == [id \in MessageId |-> rows[id].status]
Readable == {id \in MessageId : /\ rows[id].status = "PROCESADO"
                                /\ \A f \in FilesOf(id) : Intact(f)}

Archive == INSTANCE MailArchive
             WITH Id <- MessageId, outcome <- Outcome, readable <- Readable

(* The whole machinery of locks, temporary files and rollbacks implements  *)
(* an archive that records each message once and keeps it readable.        *)
ImplementsArchive == Archive!Spec

-----------------------------------------------------------------------------
(* Liveness *)

InMailbox(m) == \E u \in 1..Len(mailbox.msgs) : mailbox.msgs[u] = m

(* A message received on or after every date the account may start from    *)
(* ends up in the archive: crashes, lost connections and failed            *)
(* transactions only delay it.                                             *)
EveryMessageRecorded ==
  \A m \in Msg : (/\ InMailbox(m)
                  /\ \A d \in SyncDates : Day[m] >= d) ~> Archived(m)

(* No SyncLog of a live run stays EJECUTANDO: every run comes to its end.  *)
EveryRunEnds == \A r \in Run : pc[r] \in InSync ~> pc[r] = "idle"

-----------------------------------------------------------------------------
(* What the documentation says and the code does not do *)

(* RUNBOOK.md:929-936: reprocessing with lastUid = 0 downloads the messages *)
(* left as ERROR QUOTA_EXCEEDED. A run that walked the mailbox from the    *)
(* start with room for everything would leave none of them behind.         *)
QuotaRowsRecovered ==
  \A r \in Run :
    (/\ pc[r] = "sum" /\ syncLog[r] = "COMPLETADO"
     /\ snap[r].synced /\ snap[r].lastUid = 0
     /\ limit[r] >= Cardinality(Path))
    => \A u \in 1..cursor[r] :
         rows[IdOf(mailbox.msgs[u], u)].detail # "QUOTA_EXCEEDED"

(* accounts.service.ts:347-351: after resyncFrom the next sync enters the  *)
(* first-synchronisation branch. The request would only be consumed by a   *)
(* run that saw it.                                                        *)
ResyncConsumedByFirstSync ==
  [][ ~account.synced /\ account'.synced =>
        \E r \in Run : /\ pc[r] = "finish" /\ pc'[r] = "finalize"
                       /\ ~snap[r].synced
                       /\ snap[r].syncFrom = account.syncFrom ]_vars
=============================================================================
