# A verification project for MailDTE

MailDTE archives the electronic invoices (DTE) that arrive by e-mail. It is a
NestJS application in two processes, an API and a worker, over PostgreSQL
(Prisma, row-level security per tenant), Redis and BullMQ, with a directory tree
for the files, a React web interface and a pull client (`maildte-pull`). This
directory holds TLA+ modules that model its stateful core, the TLC
configurations that check them, and theorems checked by TLAPS.

Paths in this document are relative to the repository root; `sync.service.ts`
stands for `src/sync/sync.service.ts`, and so on.

## Inventory

| Component | State it keeps | Operations | What makes it correct |
|---|---|---|---|
| Mailbox synchronisation (`src/sync/sync.service.ts`, `sync/imap/`) | `email_accounts` (cursor `lastUid`, `uidValidity`, `lastSyncAt`, `syncFromDate`), `processed_emails`, `attachments`, `sync_logs`; Redis `lock:sync:*`, `usage:bytes:*` | `syncAccount` → `runSync` → `syncMailbox` → `processMessage`, `registerEmailError`, `reconcileUsage` | one run per account; no message skipped; a committed row has its files; the counter converges; every message is eventually recorded |
| Attachment storage (`src/storage/`) | `{tenant}/{account}/{month}/{type}/{name}`, `.tmp` files | `saveAttachment`, `deleteFiles`, `cleanOrphanTmp` | a file is never overwritten with other content; equal content is stored once |
| Account scheduling (`sync.scheduler.ts`, `sync.processor.ts`, `sync-bootstrap.service.ts`) | BullMQ repeatable jobs, `auth-fail:{account}` counters | register/remove a job, bootstrap, manual job, removal after three authentication failures | an account has a job exactly when it is ACTIVA, not deleted, of an ACTIVO tenant |
| Account administration (`src/accounts/`) | `email_accounts` | create (with the plan's `maxAccounts`), update, remove (soft), manual sync, `resyncFrom`, connection test | limits respected, the status agrees with the scheduler |
| Tenant administration (`src/admin/`) | `tenants` | create with first admin, update the plan, suspend, activate | a suspended tenant does no work |
| Mail provider profiles (`src/mail-providers/`, `scripts/seed-mail-providers.ts`, the panel's dialogs of an account and of a profile) | `mail_providers`, `mail_provider_domains`, `email_accounts.providerId` and the server of its own | CRUD with the count of the accounts affected, seed, detection by domain and MX, resolution at sync time | a profile in use is not removed; moving accounts to another server is confirmed by their number; what was verified is what is stored; a dialog saves what it shows |
| Purchase-book queue (`src/purchase-book/queue/`) | BullMQ jobs keyed by attachment | `enqueueParseBulk`, forced reprocess | an accepted attachment is parsed; a forced reprocess is not absorbed |
| DTE ingestion (`src/purchase-book/ingest/`) | `dte_parse_results` (the ledger), `purchase_documents` and children, `dte_parties` | `ingestAttachment`, duplicates, canonical documents | one canonical document per key; the ledger agrees with the documents; re-parsing keeps manual work |
| Party identity (`dte-ingest.service.ts`, `scripts/merge-dte-parties.ts`) | `dte_parties` | `upsertParty`, merge | one party per identity |
| Purchase activities (`src/purchase-book/activity/`) | tenant activities, supplier defaults, documents' activity | CRUD, seed, defaults, resolution | a default points to an active activity; precedence of manual choices |
| Purchase-book API (`purchase-book.service.ts`) and exports | documents, classification | filters, manual classification, reprocess, annex CSV and XLSX | what is manual survives; every document in the annex once |
| Export manifest (`src/export/`) and `maildte-pull` (`cli/`) | cursor, the client's state file | manifest pages, download, verify | every attachment is delivered once, across crashes of the client |
| Sessions and API keys (`src/auth/`, `src/api-keys/`) | `users.currentRefreshTokenHash`, API keys | login, refresh with rotation, logout, guards | a refresh token is used once; logout ends the session; a session does not end itself |
| DTE parser (`parser/`), annex (`anexo/`, `export/`) | none | `parseDte`, `buildAnexoRow`, `collectRows` | the file states what the documents state; it is whole, in order and of one contributor |
| Web interface (`web/src/stores/`, `web/src/lib/api-client.ts`) | `auth-store`, `accounts-store`, `purchase-activities-store`, the shared refresh | login, requests, refresh, logout, the loads of each store | no store shows data of another session or contributor; nothing stays in loading |
| Statistics, read-only lists, the other pages | none of their own | queries | not modelled |

How they interact. The API registers a repeatable BullMQ job per account; the
worker's processor (three concurrent jobs) calls `syncAccount`, which takes the
account's Redis lock, reads IMAP, writes files and commits rows; each committed
JSON attachment is enqueued for the purchase book; the parse worker reads the
file from disk and writes the document, its parties and the ledger. The API,
the bootstrap, the runbook's SQL and the worker all write `email_accounts`
without a version column, and none of the Redis keys is written in the same
transaction as the rows it mirrors.

The hard behaviours are listed one by one under `hazards` in `PROJECT.json`:
runs that outlive their lock, rollbacks on disk, cursors set without being
compared, state read before an await and used after it, crashes between files
and rows, changes by people during a run, lost acknowledgements.

## Plan

Done, in this order, each with its configurations and, where the table of
theorems says so, its proofs:

1. **MailSync, MailArchive**: the core, the only part that can lose an invoice
   for ever.
2. **AccountLifecycle**: accounts, tenants, repeatable jobs, bootstrap,
   ERROR_AUTH; a system at rest has a job exactly for the accounts that should
   have one.
3. **DtePipeline, BookContract**: the parse queue composed with ingestion, the
   ledger, canonical documents and duplicates, reprocessing, manual
   classification.
4. **Contributors, PurchaseActivities**: the party of a document under two
   workers and the merge script; the catalogue of activities, supplier defaults
   and the precedence of manual choices.
5. **ExportPull**: the manifest's cursor, late commits, the client's state file.
6. **PanelSession**: rotation of the refresh token, logout, and the stores that
   outlive a request.
7. **DteReading, AnnexExport**: the parser and the row of the annex as operators,
   and the export of the annex query by query against ingestion, classification
   and the merge.
8. **MailProviders**: the catalogue that gives every linked account its server,
   the requests and the script that edit it, the detection of a service, and
   the dialogs over both.

Left:

9. **UsageQuota**: several accounts of a tenant over one counter (the charging
   part of MailSync, composed with itself).
10. API keys.

Of the modules on disk every safety invariant and action property a run checks is
proved; what is left to TLC is liveness (see Theorems).

Every module takes its sets as CONSTANTS with a named assumption, has one action
per step between awaits, states its invariants as conjunctions of named parts
and uses no RECURSIVE operator, so that it can be proved about.

## The modules

| Module | What it is |
|---|---|
| `MailArchive` | Abstract specification: an archive whose messages get a final outcome once and are readable from then on |
| `MailSync` | One e-mail account and everything around it: mailbox, database rows, files, Redis keys, the runs of the worker |
| `MCMailSync` | Messages, attachments and budgets of events for TLC |
| `MailSyncProofs` | Types, mutual exclusion, safety of the files, the refinement of `MailArchive`, the counter, orphan files, and the walk of the cursor |
| `AccountLifecycle` | The accounts of a tenant, their repeatable jobs, the requests that change them, the bootstrap and the worker |
| `MCAccountLifecycle` | Symmetry for TLC |
| `LifecycleProofs` | Types of `AccountLifecycle`, the bound of the plan, and that the queue follows the database |
| `BookContract` | Abstract specification: a tax document enters the purchase book once, from one attachment |
| `DtePipeline` | The way of an attachment into the purchase book: the sync's offer, the BullMQ queue, the workers, the reprocessing |
| `MCDtePipeline` | Attachments, codes and readings for TLC |
| `DteProofs` | Types, ledger and book, and the refinement of `BookContract` |
| `ExportPull` | The manifest of an account and a `maildte-pull sync` that follows it |
| `MCExportPull` | Months for TLC |
| `ExportProofs` | Of `ExportPull`: types, verified files, and the cursor of the client. Of `AnnexExport`: the book, whole annexes, and the amounts they print |
| `PurchaseActivities` | The catalogue of activities of each contributor, supplier defaults, overrides, seeding, the filter by activity |
| `MCPurchaseActivities` | Purchases, lots and symmetry for TLC |
| `ActivitiesProofs` | Types, that no reference dangles, the filters, and corrections against a seeding |
| `Contributors` | The party a document belongs to: ingestion, merge script, unique key, refusal of a partial annex |
| `MCContributors` | Documents and what older versions left, for TLC |
| `ContributorsProofs` | Types, the owner of each purchase, the keys of an NRC, whole annexes and whole contributors |
| `PanelSession` | One tab of the panel: requests, the shared refresh, logout, the stores |
| `MCPanelSession` | Tenants of the receptors for TLC |
| `PanelProofs` | Types, whose data and tokens the stores hold, and that the tab keeps its session |
| `DteReading` | What `parseDte` reads of a JSON document, as operators |
| `AnnexExport` | The export of the annex of purchases, and what changes the book meanwhile |
| `MCAnnexExport` | JSON documents and books for TLC |
| `MailProviders` | The catalogue of mail services, the accounts linked to it, and the two dialogs of the panel that edit them |
| `MCMailProviders` | Catalogues, accounts and patches for TLC |
| `ProvidersProofs` | Types, foreign keys, what a request still knows as it writes, and what the dialogs save and show |

`MailSync` and `AccountLifecycle` share the run of an account and its lock, each
from one side: the first knows what a run does to rows and files, the second
whether a run happens. In `AccountLifecycle` a run is one of four outcomes
(synchronised, failed, refused by the mail server, dead) after the read of the
account.

The others meet at one row each: `DtePipeline!Archive` is the commit of
`MailSync` as the purchase book sees it, `Contributors` and
`PurchaseActivities` are what the transaction of `DtePipeline!Persist` and the
requests of the accountant do to parties and activities, `ExportPull!Commit` is
that same commit of `MailSync` as a reader of the table sees it.
`AnnexExport!Ingest` is `DtePipeline!Persist` of a new document with its
contents, which `DteReading` computes, and `AnnexExport!ApplyMerge` the merge of
one group that `Contributors` takes apart. `MailProviders` has the columns of
`email_accounts` that `AccountLifecycle` leaves out, the link and the server:
`Create`, `Update` and `RemoveAccount` are the same requests seen from there, and
`Effective` is the server a run of `MailSync` connects to.

### State and code: MailSync

| Variable | Code |
|---|---|
| `mailbox` | the IMAP server: UIDVALIDITY and the messages, UID = position |
| `plan` | `tenants.maxStorageBytes` |
| `account` | `email_accounts`: `lastUid`, `uidValidity` (0 for NULL), `lastSyncAt IS NOT NULL`, `syncFromDate` |
| `rows` | `processed_emails` with their `attachments`, by `(accountId, messageId)` |
| `syncLog` | `sync_logs.status` of the row each run created |
| `disk`, `tmp` | content of each path and of each `{name}.tmp` |
| `lock`, `usage` | Redis `lock:sync:{account}` and `usage:bytes:{tenant}` |
| `pc` and the rest | the locals of `syncAccount`, `runSync`, `syncMailbox`, `processMessage`, `saveAttachment` of each run |
| `left` | what remains of the bound on events |

An action is the code between two awaits whose order against the rest of the
system can be observed: `Acquire` is `SET NX` (the reads of `revalidateJob`
before it are merged with it: only the plan's limit is used later), `Release`
and `Unlock` are the GET and the DEL of the finally, `Commit` is one
transaction, `WriteTmp`, `ChoosePath` and `Rename` are the three steps of
`saveAttachment`, `SumUsage` and `ReconcileUsage` the read and the write of
`reconcileUsage`. `PROJECT.json` maps each definition to its lines.

Decisions a reader should know:

- Sizes are units: every attachment counts one. The quota is compared in the
  same place and with the same stale counter as in the code. Attachments over
  `MAX_ATTACHMENT_MB` and of other types are left out of `Attachments`, as the
  code leaves them out of `validAttachments`.
- A name includes its directory (account, month and type). Two messages with
  the same name therefore share a month. The disk is one account's: folders of
  accounts are disjoint (`@@unique([tenantId, folderName])`).
- The suffix of a collision is the content itself: no two contents share it, so
  `HashCollision` needs a file that somebody else replaced. No run of the model
  reaches it when the runs are exclusive, as in the code.
- SHA-256, MIME parsing and folder names are not computed: equality of contents
  is what they decide.
- The server does not renumber a mailbox while a session has it selected, and
  SEARCH and FETCH see the mailbox as it is when they are answered. `FirstSync`
  merges the SEARCH with the UPDATE that follows it: between the two, the run
  only holds its local `lastUid`.
- `Budget` bounds, kind by kind, how often the world interferes: it is a bound
  of the model, not of the code. `Together` says which kinds may meet in one
  behaviour, a bound as well: with every kind together the state space is out of
  reach. The theorems hold for every budget and every `Together`.
- `Slow` names the runs that may last longer than `LOCK_TTL_SECONDS`: the code
  renews nothing, and 600 seconds are enough or not depending on the mailbox.
  How often that happens is the event `"lapse"`. With `Slow = {}` the lock of a
  living run does not expire.
- An error while Redis answers the finally of `syncAccount` leaves the lock, as
  a crash there does.
- The code recognises a lost race for the unique key by the name of the key in
  the error (`prisma/prisma-errors.ts:3-8`), which under row-level security may not come
  with it (`accounts.service.ts:149-152`). `Commit` and `PersistPlain` then do
  either: they take the message for a duplicate, or go on as after any other
  failure, which leaves `Commit` at an ERROR row whose id is taken and ends the run
  of `PersistPlain`.
- `FirstSyncCoversDate` is asked at the end of the walk, of every message the
  mailbox had when it was fetched.
- An `Abort` is an exception at one of the awaits that `ThrowsAt` lists for its
  source; the catch of `runSync` is `failing` (after `onConnectionFailure`).
- Not in this module: the account's status (a run of an account that is not
  ACTIVA returns at once) and the authentication counter, which are in
  `AccountLifecycle`, and the enqueueing after the transaction, which can disturb
  neither rows nor files (it is outside the catch on purpose, 495-499).
- The lifetime of a deleted file's directory, streams of large attachments and
  `fsync` are not distinguished: a `.tmp` is either absent or whole. A `.tmp`
  cut short by a crash is never renamed, because the next run removes it.

### State and code: AccountLifecycle

| Variable | Code |
|---|---|
| `tenant` | `tenants.status` |
| `acct` | `email_accounts`: `status` and `deletedAt IS NOT NULL`; `NONE` when there is no row |
| `jobs` | accounts with a repeatable job in BullMQ's `sync` queue |
| `waiting` | accounts with a job ready to be taken: fired by the repeatable, enqueued by hand, or retried |
| `fails` | Redis `auth-fail:{account}` |
| `lock` | Redis `lock:sync:{account}` |
| `api` | the API process: down, in `onApplicationBootstrap`, serving |
| `call` | each request, and the bootstrap, between two awaits: the operation, the accounts it works on, the status it read, the jobs it still has to register (`add`) and to remove (`del`) |
| `run` | the worker's run of each account between two awaits |
| `unsure` | history, no code: the accounts two actors worked on at once, or one left half done, since the last bootstrap |

Each request is a read, a write and a list of jobs to change. `Create` counts
against `maxAccounts`, `Insert` is the INSERT after the IMAP verification;
`Update` reads the row, `WriteUpdate` decides with the status read then;
`Remove`, `SetTenant`, `Manual` likewise. `Schedule` is one `registerRepeatable`
or `removeRepeatable`. `LoginFails`, `MarkAuthError` and `RemoveJob` are the
three awaits of `onConnectionFailure`: INCR, UPDATE, removal of the job.

Decisions a reader should know:

- One tenant and one API process. Jobs and rows of different tenants are
  disjoint, and the administrator's operations touch one tenant at a time.
- `MaxAccounts` is constant: an administrator may lower a plan below the
  accounts it already has, which no code prevents or repairs.
- An address with a row, deleted or not, is refused with a 409 when the INSERT
  is reached: a live one by the check in the same transaction, a deleted one by
  `@@unique([tenantId, email])`.
- `Take` merges `revalidateJob` with the `SET NX` that follows it, as `Acquire`
  does in `MailSync`: a suspension between the two is seen as one after both.
- Runs do not outlive their lock here; `MailSync` has those that do.
- `fails` stops at the threshold, after which the code behaves the same for
  every value. The key's 24 hours may end at any moment (`CounterExpires`).
- The bootstrap's two reads of the queue and of the database are separate
  steps, but no request runs between them: the API does not listen yet. The
  worker does run.
- `Interrupted` is Redis or the account's folder failing a request after its
  write: the error goes to the client, the row stays. `Failing` says which
  requests it may happen to and `Ops` which operations are asked for: bounds of
  the model, which the theorems do not depend on.
- `resyncFrom` is a `Manual` here; what it does to the cursor is in `MailSync`.
- The attempts of a job are not counted: a failed one is retried or not.

### State and code: DtePipeline

| Variable | Code |
|---|---|
| `tenant`, `parser` | `tenants.status`; `PARSER_VERSION` of the running worker |
| `archived`, `offer` | committed JSON rows of `attachments`; those the sync still has to pass to `enqueueParseBulk` |
| `file` | the file of an attachment is on disk |
| `ledger` | `dte_parse_results`: status, parser version, `documentId` |
| `book` | `purchase_documents` by `attachmentId`: parser version, whether its classification is a person's |
| `job` | the BullMQ job `dte-{attachmentId}`: state, `force`, attempts, stalls, who holds its lock |
| `op` | a reprocessing: its mode, the cursor, the page and what it has still to clear |
| `worker` | each slot of the worker between two awaits of `ingestAttachment` |
| `left` | what remains of the bound on disruptions |

- A document is known by the attachment it was read from; two attachments with
  the same `codigoGeneracion` are the same tax document in two mailboxes. What a
  reading gives is a constant (`Reading`), by attachment and parser version.
- An id that exists in Redis absorbs every add, whatever the state of its job
  (`Added`); `removeOnComplete` frees it, a failed job keeps it until a
  reprocessing removes it, and an active job cannot be removed. A forced
  reprocess of an attachment whose job is active is therefore absorbed
  (`dte-enqueuer.ts:149`).
- `Persist` is one transaction whose read of the attachment's own document
  (`FindOwn`) is a step of its own; a unique violation sends the worker to
  `FindCanonical`, outside the transaction, as in the code. A violation that
  comes from a party instead (`PartyClash`) goes the same way.
- A worker whose lock on the job expired runs on and may finish after the job
  was given to another (`LoseLock`, `Stalled`).
- A forced re-reading that fails overwrites the ledger row with a failure and
  `documentId` null while the document stays (`RecordFailure`), which is why
  `DocumentIsAccounted` speaks of the parser version.
- One tenant, one reprocessing at a time. The backoff of a retry is not timed.

### State and code: ExportPull

| Variable | Code |
|---|---|
| `stamped`, `tx`, `committed` | rows of `attachments`: with a `createdAt`, in the transaction of a sync run, visible |
| `gone` | rows whose file is not on the server's disk |
| `copy` | the client's file: absent, with another hash, good |
| `cursor` | `createdAt` in `.maildte-state.json` |
| `client` | the locals of `runSync`: filters, what the pages listed, what is pending, `maxCreatedAt` |
| `races`, `left` | what remains of the bounds |

- Rows are numbered by `(createdAt, id)`. `createdAt` is the time at which the
  transaction that inserts the row began, so a row may become visible after
  later ones have: that takes two writers of one account, which the lock of
  `MailSync` excludes while it lasts (`Writer`).
- Rows of one transaction share their `createdAt` and become visible together; a
  row of the model is one transaction's.
- `ListPage` and `CountPage` are the two statements of a page of the manifest;
  `Races` bounds the commits between them.
- A sync works on one account, a state file per directory is one account's
  cursor. The other commands of the client only read.

### State and code: PurchaseActivities

| Variable | Code |
|---|---|
| `catalog` | `purchase_activities`: contributor, name, `isActive`; an id is unused, a row, or deleted |
| `defaults` | `supplier_activity_defaults`, by contributor and supplier |
| `overrides` | `purchase_documents.activityId` |
| `call` | what each request has read between two statements |

- PostgreSQL runs at READ COMMITTED: each statement sees what is committed then.
  A request whose only read is checked again by its write (the unique name of
  `Create`) is one action; the others have one per statement.
- An insert of a name that another open transaction has inserted waits for it
  (`Pending`). Two seedings that insert the same names in opposite order
  deadlock in PostgreSQL, which ends one of them with an error: not modelled.
- The proposal of a seeding is a read and chooses the lot: `Lots` is any set of
  lots. `MaxSuppliers` stands for the 1000 of the filter.

### State and code: Contributors

| Variable | Code |
|---|---|
| `parties` | `dte_parties`: `nit`, `dui`, `nrc`, `canonicalKey` |
| `docs` | the party of each purchase |
| `unique` | the migration that makes `canonicalKey` unique has run |
| `attached` | parties with a catalogue of activities, whose foreign key holds them |
| `job` | what the transaction of an ingestion has read |
| `merge` | the run of `merge-dte-parties.ts`: its plans, and the group under way |

- A document has two parties; the model follows one of them, since the two rows
  are written by the same rules and only meet when a party trades with itself.
- Identifiers are not formatted: the 14 digits of a NIT and the 9 of a DUI are
  distinct values of one contributor. Names and addresses are left out.
- `Legacies` are the rows older versions may have left: split parties with the
  same key, or with no common one.
- One merge runs at a time. It lists and plans every group first, then applies
  them one transaction each (`Reassign`, `ApplyGroup`), and may be stopped
  between two. The script moves no catalogue: a party that has one is held by
  its foreign key (`Deletable`). The defaults Q-T, which it moves, are in
  `AnnexExport`.

### State and code: PanelSession

| Variable | Code |
|---|---|
| `current`, `owner`, `expired` | `users.currentRefreshTokenHash`; to whom each pair was issued; pairs whose access token is past its TTL |
| `page`, `auth` | what the tab shows; `auth-store` |
| `generation`, `accounts`, `activities` | the counter of resets and the two stores |
| `calls` | requests of the tab: sent, refused with 401, waiting for the refresh, answered |
| `refresh`, `login` | `refreshPromise` with its request; the request of the login page |
| `left` | what remains of the bounds |

- A token number stands for a pair of access and refresh token. The refresh
  token itself does not expire here.
- `RefreshRead` and `RefreshWrite` are the read of the user's row and its
  update, two statements of `auth.service.ts`.
- `EndAndRedirect` loads the page anew: nothing in flight is heard of again.
  `LogoutAnswered` navigates inside the application, and late answers do arrive.
- `Patient` leaves out a person who logs in again during a refresh, or while the
  login page still holds the tokens that a late refresh has stored, or leaves the
  catalogue while a write is on its way: the cases of the two disagreements
  below. The second of them came out of the proof and needs three calls at once: a
  logout is refused twice and clears the session while the refresh of another
  call is under way, which stores its tokens under the login page; somebody logs
  in, a third call of the old session meets its 401 and refreshes with the old
  token, and that answer overwrites the tokens of the new session.
- One tab. The guard of the API is `Serve`'s first condition; the receptor of
  another tenant is "not found".

### State and code: DteReading and AnnexExport

| Variable | Code |
|---|---|
| `mail` | the JSON of each attachment |
| `docs` | `purchase_documents`: `receptorId`, the columns the parser read, the overrides `anexo*` |
| `defaults` | the `default*` columns of each `dte_parties` row; `Gone` once a merge has deleted it |
| `merge` | a `GroupPlan` of the merge script, between its reading and its transaction |
| `export` | the locals of `collectRows` between two queries: the filter, `total`, the siblings, `rows` and `cursor` |
| `stirred` | history, no code: what has changed since the export was asked for |
| `edits` | what remains of the bound on changes by people |

- A JSON value is a record with its kind; null and a missing key are the same
  value, as `isAbsent` takes them. Numbers are thousandths, so that every amount
  has the third decimal that makes rounding matter. Texts are already trimmed.
  How a text reads as a number or a date, how `String()` writes a number and how
  many digits an identifier has are tables of the instance (`Numeral`, `Whole`,
  `Calendar`, `Printed`, `Digits`).
- `parseDte` collects errors and fails if there is one: `ReadsAll` is the
  conjunction of what each getter accepts. Fields read and not used by the annex
  are accepted or not, and their values left out of `Columns`; `selloRecibido`
  and the raw sections are read after the decision and cannot change it.
- A document whose `numItem` comes twice is read and cannot be stored: the unique
  index of the items refuses it (`Storable`). The file stays in the ledger as a
  failure, which `DtePipeline` follows.
- Taxes are consolidated as the parser does it, in one pass over the list
  (`TaxValue`). Both PATCHes write the columns they name and leave the others
  (`Patched`), and a merge writes the block it moves the same way.
- The order of the annex is (`fecEmi`, id): `Place` counts the purchases up to one,
  and `Ordered` lists a set by it.
- `Next` and `Init` are called `AnnexNext` and `AnnexInit` here, so that the proofs of
  both exports share a module.
- Each query of `collectRows` is a transaction of its own and an action; the two
  counts share a transaction and are two statements. The guard on several
  receptors (117-126) is not an action: the filter names one receptor, so that
  its groups are never more than one.
- A batch is `findMany` with `cursor` and `skip: 1`: Prisma places the cursor by
  the order of its row, whatever the filter says of it now, and skips the first
  row of what the filter finds from there on (`FromCursor`).
- The book is that of the time before the unique key of `dte_parties`: parties
  of one contributor share a key, a new document goes to the oldest, and the
  merge of a group is one action (`Contributors` has its steps). A purchase counts
  for the weight of its receptor only; in the code the supplier's side counts too.
- The four columns Q-T are as many as `Column` has: the code treats them alike.
- Several exports do not disturb each other; one is followed.

### State and code: MailProviders

| Variable | Code |
|---|---|
| `catalogue`, `entries` | `mail_providers` by `key`; `mail_provider_domains`: the profile each domain or MX suffix belongs to |
| `accounts` | `email_accounts`: deleted or not, `providerId`, its own host, port and TLS as one endpoint, its password |
| `request` | each POST, PATCH, DELETE or run of the seed script between two awaits, with the row it read, the count of the accounts it has made so far, and what is left to write |
| `form`, `desk` | `AccountFormDialog` and `MailProviderFormDialog`, and whether one of their requests is on its way |
| `lookup` | the request of a detection, from the blur of the address to its answer; one at a time |
| `proved`, `mixed`, `settled` of `form` | history, no code: the pairs of server and password that a login has verified for an account; the accounts whose row was last written by a request that had read another row than the one it wrote over; whether the dialog was opened, or its service last chosen, while no answer of a detection could still change the form |

- A PATCH of an account reads the row when it arrives, resolves the server from
  the enabled profile or from the fields, logs in and writes: three steps, and
  anything may be written between them. A change that touches no credential
  writes nothing here.
- `usageAll` counts the accounts of a profile in one transaction for each tenant
  (`CountTenant`), deleted ones included; `Counted` compares the sum with the
  number the administrator sent. `ON DELETE RESTRICT` and `CASCADE` are in the
  writes.
- Detection asks for the domain, then for the mail exchangers by priority; the
  DNS may not answer. The cache of exchangers keeps what it kept: an instance's
  exchangers do not change.
- `StoredIsVerified` is about every account outside `mixed`, on a server of its
  own or linked to a profile whose endpoint is edited, or which is removed,
  between the login and the write of the account.
- The list of services is loaded as the dialog opens. A user may choose a service,
  close the dialog and open another while a detection is on its way: its answer
  then changes the form all the same, the case of a disagreement below
  (`TouchedIsKept`). `ChoiceIsKept` says what the guard of `handleEmailBlur` does
  achieve: a choice made while nothing is awaited (`settled`) is kept, whatever
  is asked for and answered afterwards. Two detections on their way at once are
  not modelled. Two tenants share the catalogue, and one tab has one dialog of
  each kind.

### The abstract specifications

`MailArchive` has two variables: the outcome of each message id and the set of
archived messages all of whose files can be read. Its one action records an
outcome once, and makes a PROCESADO message readable in the same step.
`MailSync!Archive` maps `outcome` to the status of the row and `readable` to the
PROCESADO rows whose files are on disk with the content the row describes.
`ImplementsArchive` says that temporary files, collisions, reuse, rollbacks,
crashes and retries are all invisible from there.

`BookContract` has one: the attachments each `codigoGeneracion` was read from.
Its one action gives a code its first attachment, for ever. `DtePipeline`
implements it with the documents of the book (`ImplementsContract`), so that
duplicates, re-parsing, retries and workers that lost their job are stutters.

## Runs

Times are for two workers. `MailSync*` and `Lifecycle` check deadlock as well;
in the other modules a system with nothing left to ask for rests, and their
configurations say so. Where a theorem states `TypeOK`, no run repeats it: the
types of `MailSync`, `AccountLifecycle`, `DtePipeline`, `ExportPull`,
`PurchaseActivities` and `Contributors` are proved.

| Run | Question | Instance |
|---|---|---|
| `MailSyncFaults` | exclusion, files, orphans, counter, cursor, refinement through crashes, failed transactions, disk and error-row failures, rewind and a smaller plan | two runs, a mailbox of up to three mails made of two messages (the same name with other content, two files, one without Message-ID), two plans, two kinds of events in a behaviour (`PairsTogether`); 497k states, 150 s |
| `MailSyncResets` | renumbering, `resyncFrom`, a message without source, a server whose SINCE is exclusive; and the cursor when both runs outlive the lock | two runs, mails made of two messages of two days that bring different files of one name, two starting dates; 2.0M states, 130 s |
| `MailSyncLive` | every message is recorded, every run ends | fair specification; a crash, an IMAP failure, a failed and an unacknowledged transaction; a message with a file and one without; 107k states, 45 s |
| `Lifecycle` | the queue follows the database, and what is stopped is left alone | fair specification; one account, two requests of every kind, deaths and failures without limit; 372k states |
| `DtePipeline` | ledger, book and duplicates; what a person classified; `BookContract` | two attachments of one tax document, two workers, a deployment of a new parser, one disruption; 140 s |
| `DteRecovery` | every archived file ends in the ledger | fair specification; two attachments, one worker, two disruptions (a lost lot, a dead worker, a refused page, ...); 105 s |
| `ExportPull` | the cursor, verified files, every row is pulled | fair specification; three rows, pages of one, three disruptions; 20 s |
| `PanelSession` | stores, contributors, the live session, loads that end | fair specification; two users, two receptors, two requests, two logins, two expiries or lost answers; 95 s |
| `Activities` | references, the filter, corrections against a seeding | two contributors with a supplier in common, two activities, two names, two requests; 300k states |
| `Contributors` | the owner of a purchase, the annex, keys, contributors that stay whole | five documents of two contributors, three legacies, two ingestions and a merge; 648k states, 130 s |
| `MailProviders` | links, confirmation of a moved endpoint, verified servers, what the dialogs save | two tenants, a profile in use, one that is not, an account and one to create, two calls at once, one opening of a dialog; 912k states, 120 s |
| `AnnexExport` | amounts, totals, order and completeness of the annex | two books of five purchases around the epoch, of one contributor under one or two parties and of another, and 23 books of one document each; batches of two, three rows at most, one change by a person; 657k states, 55 s |

The bounds. Two runs of `MailSync` are enough for every hazard in the list: one
that holds stale state and one that acts meanwhile; a crashed run is one more
only until its lock expires, and its identifier is used again. Two or three
messages allow a cursor before, on and after the message in question; two
contents under one name exercise reuse, the suffix and the fresh path; a message
with two attachments exercises a rollback and a crash with one of them saved.
Each kind of event happens at most once per behaviour, at any moment and in any
order with the others of its run; `Together` says which kinds are combined.

For `AccountLifecycle` one account is enough for the schedule: no step relates
two of them except through the tenant's status, which one account sees too, and
the theorem covers any number. Two requests, the bootstrap and the worker make
every pair of actors. The bound on the accounts of a plan is only proved
(`PlanNearlyKept`). Nothing bounds the number of requests, restarts, deaths and
failed logins one after the other: the state space is finite without it.

In `DtePipeline` two attachments with one code are the smallest duplicate, two
workers the smallest race, pages of one attachment make every cursor move. In
`ExportPull` three rows give a page before, at and after the cursor, and a
threshold of three is never passed, so that ZIPs come from `--all` alone (the
other strategy fails for another reason, see below). `Activities` and
`Contributors` have two of everything whose two instances can disagree.
`MaxToken` in `PanelSession` is more than the logins and refreshes can issue. In
`AnnexExport` a filter finds up to four purchases: a batch that is full, one that
is not, and one more than `MaxRows`; the ids are not in the order of the dates,
one date is shared, and one is the last day before the epoch. The single
documents are one for each way of writing a field that the parser or the row
treats differently: v3 and v4, quoted amounts, a tax in two lines with its code
as text and as number, half a cent, negative amounts, a DUI, an identifier
without its zeros, totals that do not close, and nine that are not stored.

Fairness.

- `MailSyncLive`. `WF(RunStep(r))`: Node's event loop runs every pending
  continuation, and the IMAP, PostgreSQL and Redis clients time out, which is an
  `Abort`. `WF(ExpireLock)`: the key has an expiry. `WF(Acquire)`: BullMQ's
  repeatable job starts a run for ever while the account is ACTIVA; one IMAP
  failure is below the threshold of three that would stop it. Nothing is assumed
  of deliveries, faults or administrators.
- `Lifecycle`. `WF(RunStep(a))` only: the awaits of a run in progress end, or
  throw. Nothing makes jobs fire or people act. `StoppedGoesQuiet` also holds
  against retries, the worker's deaths and orphan jobs that keep firing, because
  each run reads the tenant and the account before it connects.
- `DteRecovery`. Workers, queue, the sync's offer and a reprocessing under way
  go on; BullMQ's list is first in, first out, so a job that is put back again
  and again is taken (`SF(Take)`). The code gives up a job after three attempts
  and loses a lot Redis refused: only people recover those, so
  `EveryFileIsRead` assumes that somebody repeats the reprocessing of what
  failed (`OperatorReturns`).
- `ExportPull`. The client's steps, and `SF` of a sync without filters: the
  scheduled task of the client's README starts it again whenever no other
  command holds the directory.
- `PanelSession`. Requests are answered, with a result or an error, and their
  callbacks run. People owe nothing.

### Disagreements with the documentation

`PROJECT.json` quotes both sides of each, under `findings`. Each states a
property that is written in the module and that no run checks, or that a run
checks with other constants; TLC finds it violated by those in the last column.

| What happens | Property | To see it |
|---|---|---|
| A contributor first seen by the DUI, then by the NIT with NRC, keeps no NIT: the next document with that NIT and no NRC splits it again | `Contributors!SplitNeverReturns` | `Contributors.cfg` |
| The third failed login sets ERROR_AUTH; before it removes the job, a PATCH with new credentials sets ACTIVA and registers it; then it is removed, and the active account is not synchronised until the API restarts | `AccountLifecycle!ActiveIsScheduled` | `Spec`, one account, one request, `Ops = {"create", "update"}`, `MaxAccounts = 1` |
| Two runs past the 600 seconds: the loser of the race for a message deletes, in its rollback, the file the winner's row points to | `MailSync!RowsHaveFiles` | one message with a file, `Slow = {r1, r2}`, `Budget` with one `"lapse"` |
| A COMMIT that succeeds but whose answer is lost is undone on disk and kept in the database | `MailSync!RowsHaveFiles` | one message with a file, `Budget <- AckBudget` |
| A QUOTA_EXCEEDED row makes the message known: a rewind to `lastUid = 0` skips it | `MailSync!QuotaRowsRecovered` | two messages, `Quotas = {1, 9}`, `Budget <- RewindBudget` |
| `resyncFrom` during a run is overwritten by the run's `lastSyncAt` | `MailSync!ResyncConsumedByFirstSync` | one message, `Budget <- ResyncBudget` |
| A reprocessing of what is missing skips a row at each page, because the cursor's own row no longer matches | `DtePipeline!PagesLeaveNothingOut` | `DteRecovery.cfg` with `Modes = {"missing"}`, `Disruptions = 0` |
| A sync of more than 200 files without `--month` takes the account's folder for the month, fails, and meets the same backlog for ever | `ExportPull!EveryRowIsPulled` | `ExportPull.cfg` with `Limit = 2`, `Threshold = 1`, `Alls = {FALSE}` |
| A sync with `--month` moves the account's only cursor past rows of other months | `ExportPull!PulledUpToCursor` | `ExportPull.cfg` with `Months = {NoMonth, m2}`, `MonthOf <- MCTwoMonths` |
| A row committed between the list and the aggregate of a page is passed by the cursor | `ExportPull!PulledUpToCursor` | `ExportPull.cfg` with `Races = 1` |
| The list by activity without a contributor returns purchases of other contributors from the same supplier | `PurchaseActivities!FilterStaysWithReceptor` | `Activities.cfg` |
| Of two ingestions that read a row without `canonicalKey`, the one without NRC writes last and replaces the key of the NRC | `Contributors!KeyKeepsNrc` | `Contributors.cfg` with `Legacies <- KeylessLegacies` |
| An activity retired between the check and the write is assigned all the same | `PurchaseActivities!AssignedIsActive` | `Activities.cfg` |
| The answer of `createActivity` joins the list of another contributor or session | `PanelSession!StoresBelongToSession` | `PanelSession.cfg` with `Patient = FALSE` |
| The answer of a refresh replaces the tokens of a session opened meanwhile | `PanelSession!SessionIsLive` | `PanelSession.cfg` with `Patient = FALSE` |
| A merge that moves the purchases between the guards of the export and a batch ends the file before its last row, and nobody compares it with the count | `AnnexExport!FileHasItsTotal` | `AnnexExport.cfg` |
| The guard on siblings looks at the defaults of the sibling: under a filter by classification it misses purchases of the same contributor | `AnnexExport!SiblingsAreSeen` | `AnnexExport.cfg` |
| The merge overwrites the defaults somebody gave the party that stays after the script had read it | `AnnexExport!OwnBlockWins` | `AnnexExport.cfg` |
| With a negative amount the total printed is not the sum of the columns printed | `AnnexExport!TotalCloses` | `AnnexExport.cfg` |
| The answer of a detection replaces the service chosen meanwhile, or changes the dialog of another account | `MailProviders!TouchedIsKept` | `MailProviders.cfg` |
| An account unlinked from its profile without naming a server goes back to its own columns, older than the endpoint in force | `MailProviders!ReleaseKeepsEndpoint` | `MailProviders.cfg` |
| The seed script moves a domain that an administrator gave to another profile | `MailProviders!SeedTakesNoEntry` | `MailProviders.cfg` |

More were met while modelling and have neither property nor run, because one step shows
each: the export ignores the filter by activity that the page shows
(`export-purchase-book.service.ts:76` passes none, against
`dto/purchase-document-filters.dto.ts:34-36` and `ExportAnexoPanel.tsx`,
"Exporta exactamente el filtro que está en pantalla"); a `numItem` that comes
twice is accepted by the parser and refused by the index, whereas `parseTaxes`
consolidates taxes for that very reason (`dte-parser.ts:286`); a `version` in
quotes is an unsupported version although `getRequiredInt` takes it
(`dte-parser.ts:430`); an identifier written as a JSON number loses its leading
zero, and the row is flagged; when the ERROR row cannot be written either, the message is only logged and
the walk goes on (`sync.service.ts:626`, against RF-03.5); a disk error in
`saveAttachment` ends the run instead of becoming the message's ERROR row
(`sync.service.ts:407`, against RF-03.5); and after a UIDVALIDITY change two
messages without Message-ID may share the id `synthetic-{account}-{uid}`, so
that the second counts as known (`message-parser.ts:32`).

## Theorems

`tlapm` checks them in the modules of the first column. They hold for every
value of the constants that satisfies the module's assumptions: any sets of runs,
messages, accounts, attachments, workers, rows, contributors and requests, and
any bounds.

| Module | Theorem | States | Assumes |
|---|---|---|---|
| `MailSyncProofs` | `TypesAreCorrect` | `Spec => []TypeOK` | - |
| | `RunsAreExclusive` | `Spec => []MutualExclusion` | `Slow = {}` |
| | `ArchivedFilesAreKept` | `Spec => []RowsHaveFiles` | `Slow = {}`, `Budget["ack"] = 0` |
| | `SyncImplementsArchive` | `Spec => ImplementsArchive` | `Slow = {}`, `Budget["ack"] = 0` |
| | `CounterIsReconciled` | `Spec => []UsageReconciled` | `Slow = {}` |
| | `NoFileIsOrphaned` | `Spec => []NoOrphanFiles` | `Slow = {}` |
| | `NothingIsSkipped` | `Spec => NoMessageSkipped` | `Slow = {}`, `Budget["rewind"] = 0`, and `Budget["epoch"] = 0` or both `HasHeader = Msg` and `Budget["source"] = 0` |
| | `FirstSyncIsComplete` | `Spec => FirstSyncCoversDate` | `Budget["epoch"] = 0` or both `HasHeader = Msg` and `Budget["source"] = 0` |
| `LifecycleProofs` | `LifecycleTypes` | `Spec => []TypeOK` | - |
| | `PlanNearlyKept` | `Spec => []OvershootBounded` (no run checks it) | - |
| | `QueueFollowsDatabase` | `Spec => []ScheduleAgrees` | - |
| `DteProofs` | `PipelineTypes` | `Spec => []TypeOK` | - |
| | `LedgerIsTrue` | `Spec => []LedgerPointsAtBook` | - |
| | `DocumentsStayAccounted` | `Spec => []DocumentIsAccounted` | - |
| | `ClassificationsSurvive` | `Spec => ClassificationIsKept` | - |
| | `PipelineImplementsContract` | `Spec => ImplementsContract` | - |
| `ExportProofs` | `ExportTypes` | `Spec => []TypeOK` | - |
| | `VerifiedStays` | `Spec => GoodStaysGood` | - |
| | `CursorIsHonest` | `Spec => []PulledUpToCursor` | `SteadyAccount` |
| | `BookIsThere` | `AnnexSpec => []BookInv` (no run checks it) | - |
| | `AnnexIsWhole` | `AnnexSpec => []FileIsWhole` | - |
| | `AnnexIsTrue` | `AnnexSpec => []FileIsTrue` | - |
| `ActivitiesProofs` | `ActivitiesTypes` | `Spec => []TypeOK` | - |
| | `ReferencesAlwaysHold` | `Spec => []ReferencesHold` | - |
| | `FiltersAgree` | `Spec => []FilterAgrees` | `IsFiniteSet(Emisor)`, `Cardinality(Emisor) <= MaxSuppliers` |
| | `CorrectionsAreKept` | `Spec => CorrectionsSurvive` | - |
| `ContributorsProofs` | `ContributorsTypes` | `Spec => []TypeOK` | `LegacySound` |
| | `PurchasesStay` | `Spec => []PurchasesKeepOwner` | `LegacySound` |
| | `KeysOfNrcStay` | `Spec => KeyKeepsNrc` | `LegacySound`, `AllKeyed` |
| | `ExportsAreWhole` | `Spec => []ExportIsWhole` | `LegacySound`, `LegacyKeyed` |
| | `WholeStays` | `Spec => StaysWhole` | `LegacySound` |
| `PanelProofs` | `PanelTypes` | `Spec => []TypeOK` | - |
| | `StoresFollowSession` | `Spec => []StoresBelongToSession` | `Patient` |
| | `SessionStaysLive` | `Spec => []SessionIsLive` | `Patient` |
| `ProvidersProofs` | `ProvidersTypes` | `Spec => []TypeOK` | - |
| | `LinksAlwaysHold` | `Spec => []LinksHold` | - |
| | `ErrorsExplained` | `Spec => []ErrorsAreExplained` | - |
| | `StoredStaysVerified` | `Spec => []StoredIsVerified` | - |
| | `EndpointConfirmed` | `Spec => EndpointIsConfirmed` | - |
| | `PanelKeepsWhatItShowed` | `Spec => PanelKeepsEndpoint` | - |
| | `ChoiceStays` | `Spec => []ChoiceIsKept` | - |

The assumptions are the conditions under which the code is right, and each is
needed: with `Slow # {}`, with an unacknowledged COMMIT, and without either part of
`SteadyAccount` (one writer of the account, no commit between the two statements
of a page, no `--month`) TLC finds the property violated: the table of
disagreements shows each but the second writer, whose late commit of an older row
the cursor has already passed. `LegacySound` says that no row left by an older
version mixes two contributors and that its purchases hang from a row of their
own: the code never repairs such a row. Without `AllKeyed` two ingestions that
both read a row without key may write its keys in the wrong order. `LegacyKeyed`
is what is there once every document has been ingested again under the keys, before
the column of the DUI: a row has the key of its NRC or of the identifier it was
created with, no two rows were created with the same one (an index), and a
purchase with NRC hangs from a row with its key. Without it TLC finds two rows
with one DUI as their key that are planned together, a purchase with NRC that
comes to one of them, and the merge that then puts it under the other, which has
no key of the NRC. `Patient` of `PanelSession` leaves out the races of a person
with a request under way that the table shows. `MailProviders` also assumes, as the schema
guarantees, that the foreign keys hold in the database it starts from
(`WorldsAssumption`).

Of the hypotheses of `NothingIsSkipped`, TLC breaks the property without each. A
rewind by the operator under a run that goes on is overwritten by the next cursor
that run writes, and the messages before the starting date of the first
synchronisation, which the rewind was to bring, stay behind. Of two runs that
overlap, the one that read its starting date before a `resyncFrom` moves the cursor
past what the other has gone back to. A synthetic identifier is made of the UID: after
a renumbering another message without Message-ID or source finds it taken and is
passed as a duplicate. Only the last one is a hypothesis of `FirstSyncIsComplete` too,
which holds for runs that overlap and under rewinds. `MailSyncFaults` and
`MailSyncResets` check `NoMessageSkipped` under rewinds, overlaps and renumberings
on instances without such a combination. `CounterIsReconciled` is about an account
that is its tenant's only one, as in `MailSync`: between the sum and the write of the
counter another account may charge a file, and the charge is lost. Overlapping runs
also break `UsageReconciled` (the sum of one is old when it is written) and,
together with a failed transaction, `NoOrphanFiles`.
Above `ACTIVITY_FILTER_MAX_SUPPLIERS` suppliers the filter of `FiltersAgree` cuts the
list it searches by.

- *Types.* `TypeOK` alone is not inductive: the message a run is processing must
  exist in the mailbox for its attachments to be defined. `WalkOK` adds, by
  program counter, that a run in the middle of a message has
  `cursor < hi <= Len(mailbox.msgs)`, that the files it saved are no more than
  the message's attachments, and where `target` is a path. It survives
  `NewUidValidity` because the server renumbers nothing while a session is open.
- *Exclusion.* `LockInv`: a run past `Acquire` holds the lock. `ExpireLock` is
  disabled for a living run, and `Unlock` deletes a lock that is still its own.
- *Files.* `FilesInv` adds to `RowsHaveFiles` what a run in progress knows
  (`FilesAt`): the files in `saved` are on disk with their content, the
  `.tmp` holds the current attachment between its write and its rename, the
  target of a rename is free, and no row points to a path this run wrote and has
  not committed. The last part is what makes the rollback safe, and the one that
  an overlapping run or an unacknowledged COMMIT breaks.
- *Refinement.* Under `FilesInv` the readable rows are the PROCESADO rows
  (`ReadableRows`), so that every step either leaves the rows alone and is a
  stutter, or inserts one and is a `Record` (`RowStep`, `ArchiveStep`).
- *Counter.* `CountInv`: a run that holds the lock is the only writer of rows, so
  the sum it reads over them is still true when it writes it, and nothing inserts
  a row between the two.
- *Orphans.* `TidyInv` gives every file on disk an owner at every moment: a row,
  or the run that wrote it and will register it or roll it back (`InHand`). The `.tmp` does
  not change between its write and its rename, and a suffixed name never holds
  another content, so that `saveAttachment` does not throw half way. A lost acknowledgement deletes files too many,
  never too few, so no assumption is made of it.
- *Cursor of the walk.* `CursorInv`: the persisted cursor is in the numbering of the
  open mailbox, and behind the cursor of a run there are only messages the account
  had passed when it began or that have a row. A duplicate is passed without a
  row of its own; `NamesInv` says of each identifier which message holds it, so
  that the one passed has a row (`DuplicateIsRecorded`).
- *First synchronisation.* It asks for the day before the date, and starts before
  the first message of the answer: a server that excludes the day it is given
  still reports the date, and one that does not reports more (`FirstSyncCovers`).
  From there `SeenInv` follows the walk to its end: behind the cursor of a run in
  its first synchronisation every message is older than the date the run read, or
  has a row. Each step of `processMessage` stays at its message, leaves it with a
  row, or ends the walk (`ProcessSteps`, which `CursorInv` uses as well), and only
  `NextMessage` with nothing left to read ends it well. All of it is about the
  run's own memory and about rows, which nobody deletes: the lock is not needed.

- *Plan.* The count and the insert of `create` are two steps, so the bound
  counts the live accounts together with the requests that have passed the count
  and not inserted yet. `Create` adds one request when fewer accounts than the
  plan are alive, whatever the others are doing; `Insert` trades a request for an
  account; nothing else adds to either. `LifecycleInv` adds that every account a
  run or a removal works on has a row, without which a write would create one.
- *Schedule.* `ScheduleAgrees` speaks of an account at rest, and is broken by
  every request half way. `ScheduleInv` says, for an account outside `unsure`,
  what the lone actor at work on it knows (`Sound`): before its write, that the
  queue still agrees with the database; after it, which job it has left to
  register or remove so that they will agree again. For the bootstrap that is the
  list it read, and for the worker between ERROR_AUTH and the removal that the
  account should have no job. `ProcessOK` says which actors exist while the API
  is down, booting or up, and `LockHeld` that a run holds its account's lock. The
  step that starts an overlap or leaves an operation half done puts the account
  in `unsure`, from where only the next bootstrap takes it.

- *Ledger and book.* `BookInv` adds to the two invariants and to the uniqueness
  of a code's document what a worker remembers between two awaits
  (`Remembered`): a worker about to commit a re-parse has a document, and the
  document a worker is about to call canonical exists and has the code of its
  file. It stays true because no step deletes a document. `Sources` (only
  archived attachments are queued) and `UpToDate` (nothing was read by a parser
  to come) carry `DocumentIsAccounted` across a deployment. Every step but
  `Persist` leaves the sources of a code alone, and `Persist` adds one where
  there was none (`Clash`): a step of `BookContract` or a stutter.
- *Cursor.* Under one writer rows become visible in the order of their
  `createdAt` (`CommitsInOrder`). `RunCovers` says what the client has
  established at each step: the pages so far hold every row up to the last one,
  the last page every row up to the maximum, and without a failure what is not
  pending any more is there. `Finish` turns it into `PulledUpToCursor`.
- *References.* A default or an override is written after the check, and the
  activity may be deleted between the two. `CallHolds` says that what a request
  has read still names an activity of its contributor or one that was deleted
  (an id is used once, a row never changes its contributor), and `Apart` that
  the rows two seedings have inserted are different ones. The foreign key does
  the rest in the write.
- *Filters.* With `ReferencesHold`, a purchase listed under an activity and one
  whose effective activity it is are the same by cases over override and default
  (`FilterFollows`), once the list of suppliers is whole (`NothingCut`).
- *Corrections.* Only the commit and the rollback end a seeding (`SeedEnds`), and
  the commit inserts where the row is free.
- *Owner and key.* Each row belongs to the contributor of its `nit`, which no
  step writes again, so a purchase keeps its owner as long as it stays on a row
  or moves to one of the same owner. `OwnerInv` says it of every place that
  remembers a row between two steps: what an ingestion read is of its own
  contributor or has gone (`JobHolds`), and a plan of the merge joins rows of
  one contributor (`MergeHolds`), because they share an identifier. `KeyInv`
  adds that nobody has read a row without key: the key an update decides is then
  the one the row has, or that of its NRC.
- *The annex.* `ExportIsWhole` needs that every purchase with NRC hangs from a
  row that has the key of it (`NrcFiled`); then another party with purchases of
  the contributor is a sibling and the annex is refused. An update without NRC
  keeps the key; one with it may leave the key alone only because the one it
  read is still there (`ReadStands`). A merge moves purchases to its canonical
  party, which has the key of the NRC because two rows that share a key can
  only share an NRC (`GroupJoins`: identifiers differ, `NitsDiffer`) and keep it
  until the group is applied (`PlansJoin`).
- *Whole contributors.* The party keeps `nit`, and `dui` only changes to the DUI
  of the same contributor (`WholeRowStays`); a document of either kind finds it
  (`FoundWhenWhole`), so that none is about to create another.
- *The order of a file.* `Ordered(S)` picks for each place the purchase that has
  so many before it. `OneOrder` says that a list that covers S and is sorted by
  (date, id) is that one, whatever built it; `RowsAreOrdered` says of the rows read
  so far that they are sorted and end at the cursor, and `BatchIs` what a batch adds:
  the next ones of the filter behind the cursor. At the end (`RowsAreAsked`,
  `NoneIsLost`) the rows are what the filter finds, without an induction over the
  batches: each preserves the fact about all rows.
- *The guards of the annex.* `GuardsHold` follows what each query has established,
  as long as nothing was written since: the count (`Counted`), that nothing is
  unclassified or that this was allowed (`NothingBlank`), which parties share the key
  (`SiblingsRead`), that none of them has purchases of the filter (`NobodyElse`), and
  for a refusal its reason (`RefusedForAReason`). `BlankIsUnclassified` ties the two
  ways the code decides it: the cascade leaves a cell of the row blank exactly when
  the WHERE of the query finds the purchase unclassified. Every action is a request,
  a query or a change of the book (`AnnexSteps`), and a change to the book either
  is recorded in `stirred` or leaves alone what the filter "all" asks for.
- *The book.* `BookIsRead` says that the columns of a purchase are those of its mail,
  that its receptor is alive, and that a planned merge stays within one key: it is
  what makes the rows of one contributor stay so while parties are merged.
- *Amounts.* `RowsArePrinted` says that each row was built from the columns of its
  document, which no step changes. A row without a negative amount prints the
  rounding of each (`AmountIsPrinted`). The credit is a sum over the taxes that
  the parser takes from left to right (`TaxValue`) and the property in any order
  (`StatedCredit`): both are sums that take off one element at a time (`Adds`), and
  there is only one (`SumIsOne`). The library's induction takes an operator as a
  parameter, so both facts go by a least counterexample, over the well-founded
  order of the naturals.
- *Session.* Data reach a store only through a request that is answered, and its
  guard is the generation in which it was sent. `SessionInv` says of each request
  of the present generation that it carries a token of the user of the session
  (`RequestOK`), of the refresh under way that it exchanges the token the tab has
  (`RefreshOK`), and that until the logout the server expects the token the tab
  has or the one the refresh is bringing (`LiveOK`). `Alone` keeps a logout from
  being sent beside a write. The types need that tokens are issued in the order of
  their numbers (`InOrder`): it is what makes the next one new.
- *Mail providers.* Between its two awaits a request relies on rows that others may
  write. `Facts` says what one that nobody wrote during still knows: that the row of
  a PATCH is the one it read, that the profile it resolved is there, that the number
  counted so far is that of the accounts of the tenants counted, and, once
  confirmed, that it is that of all of them. Every step that writes marks the
  requests under way, and one that does not leaves what they know alone
  (`FactsFrame`); the count grows by a disjoint set (`CountGrows`). The foreign keys
  need only the guards of the writes. `AimOK` ties the few fields that a form sends
  to all those it showed, and `AimIsWritten` recovers them from the row.
  `StoredIsVerified` goes by the row: a request writes the server it logged in to,
  and the password it brought or else leaves the row's; when the row it writes over
  is the one it read, that is the pair that logged in. `ChoiceInv` adds to `ChoiceIsKept` that a detection which may
  still change a settled form was asked for by that form, and that nobody has
  chosen in it.

Only model-checked: liveness (`EveryMessageRecorded`, `EveryRunEnds`,
`StoppedGoesQuiet`, `EveryFileIsRead`, `EveryRowIsPulled` and `LoadsEnd`),
because TLAPS does not handle fairness and ENABLED here.

The constants of `AnnexExport` carry assumptions as well. `Sizes`: a batch has at
least one row (`BATCH_SIZE` is 500). `Starts`: a book of the start has only
purchases of readable mails, as every way into the book goes through the parser.
`Blanks`: no code is the empty text, null or the mark of a party that is gone; the
code's are integers of a catalogue (`IsInt`, `IsIn` of the DTO). `Amounts`, and
`Tables` of `DteReading`: what JSON calls a number is one, a list is a list, a text
the tables read as a number or a date reads as one, and a number is never printed
as the empty text. TLC evaluates all of them in the run `AnnexExport`.

## Not modelled

- *Presentation and MIME.* The MIME
  parser, the writing of the CSV and XLSX annexes (quoting, formulas, widths),
  the pages and components of the web interface, DTO validation, mappers, statistics and
  read-only lists. They are pure functions or queries, and more than half of
  the implementation's lines: what the models need of them is a constant
  (`Reading`, `Attachments`, `Of`) or a set of inputs.
- *Mail provider profiles*: `probe`, which only opens a connection, and
  `--link-existing` of the seed script. That option updates the accounts of every
  tenant from one connection without a tenant, so that under `FORCE ROW LEVEL
  SECURITY` it finds none unless its role bypasses it (`RUNBOOK.md:143` says that
  it links them).
- *The connection test of an account*, which changes nothing.
- *API keys.* A key is checked at each request and never rotated.
- *Several accounts of a tenant over one usage counter*: what `reconcileUsage` and
  the quota check of one account do to the charges of another.
- *The pull client's other commands* (`init`, `verify`): the one writes the
  configuration, the other reads what `sync` wrote.
- nginx, Docker files, logging.

Components are marked `modelled`, `partly` or `not_modelled` in `PROJECT.json`,
each with a note on what is left out.
