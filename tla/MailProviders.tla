---------------------------- MODULE MailProviders ----------------------------
(***************************************************************************)
(* The catalogue of mail services, which gives the IMAP endpoint of every  *)
(* account linked to a profile, across the tenants: the requests that edit *)
(* it and those that link accounts to it, the seed script, the detection   *)
(* of the service of an address, and the dialogs of the panel that edit an *)
(* account and a profile.  An endpoint stands for host, port and TLS.      *)
(***************************************************************************)
EXTENDS Integers, FiniteSets, Sequences

CONSTANTS
  Provider,      \* keys of profiles
  NoProvider,    \* null; in the dialog, "servidor personalizado"
  Account, Tenant,
  TenantOf,      \* account -> tenant
  Endpoint, NoEndpoint,
  Password,
  Keep,          \* a field that a PATCH leaves out
  Entry,         \* rows (kind, domain) that detection looks for
  Email,
  DomainOf,      \* address -> the entry of kind DOMAIN that is its domain
  Exchanges,     \* address -> for each of its mail exchangers, by priority, the
                 \* entries of kind MX_SUFFIX it ends with
  Seeds,         \* what the seed script holds: profile -> endpoint and entries
  Worlds,        \* catalogues and accounts an instance starts from
  Patches,       \* bound: what a PATCH of an account may carry
  Edits,         \* bound: what a PATCH of a profile may carry
  Request,       \* bound: calls to the API and to the script
  MaxOpenings    \* bound: times a dialog is opened

Missing == [exists |-> FALSE]
Profile == [exists : {TRUE}, active : BOOLEAN, endpoint : Endpoint]
NoAccount == [state |-> "none"]
Row == [state : {"live", "deleted"}, provider : Provider \cup {NoProvider},
        own : Endpoint, password : Password]
Idle == [step |-> "idle"]
Closed(n, sending) == [open |-> FALSE, opening |-> n, sending |-> sending]
Unchosen == Keep

ASSUME ProvidersAssumption ==
  /\ NoProvider \notin Provider /\ NoEndpoint \notin Endpoint
  /\ Account \cap Provider = {} /\ IsFiniteSet(Account)
  /\ Keep \notin Provider \cup {NoProvider} \cup Endpoint \cup Password
  /\ TenantOf \in [Account -> Tenant]
  /\ DomainOf \in [Email -> Entry] /\ Exchanges \in [Email -> Seq(SUBSET Entry)]
  /\ DOMAIN Seeds \subseteq Provider
  /\ Seeds \in [DOMAIN Seeds -> [endpoint : Endpoint, entries : SUBSET Entry]]
  /\ Worlds \subseteq [catalogue : [Provider -> Profile \cup {Missing}],
                       entries : [Entry -> Provider \cup {NoProvider}],
                       accounts : [Account -> Row \cup {NoAccount}]]
  /\ Patches \subseteq [link : Provider \cup {NoProvider, Keep}, host : Endpoint \cup {Keep},
                      password : Password \cup {Keep}]
  /\ Edits \subseteq [endpoint : Endpoint \cup {Keep}, active : BOOLEAN \cup {Keep},
                    entries : (SUBSET Entry) \cup {Keep},
                    confirm : Nat \cup {Keep}]
  /\ MaxOpenings \in Nat

(* The foreign keys hold in the database an instance starts from.          *)
ASSUME WorldsAssumption ==
  \A world \in Worlds :
    LET there == {p \in Provider : world.catalogue[p].exists} \cup {NoProvider}
    IN /\ \A a \in Account : world.accounts[a] # NoAccount => world.accounts[a].provider \in there
       /\ \A e \in Entry : world.entries[e] \in there

VARIABLES
  catalogue,     \* mail_providers
  entries,       \* mail_provider_domains: the profile an entry belongs to
  accounts,      \* email_accounts
  proved,        \* history: endpoint and password that a login has verified together
  mixed,         \* history: accounts whose row was last written by a request that
                 \* had read another one
  request,       \* each request between two awaits
  form,          \* AccountFormDialog
  desk,          \* MailProviderFormDialog
  lookup         \* GET /mail-providers/resolve, when the dialog has asked

vars == <<catalogue, entries, accounts, proved, mixed, request, form, desk, lookup>>
database == <<catalogue, entries, accounts, proved, mixed>>
panel == <<form, desk, lookup>>

Init ==
  /\ \E world \in Worlds :
       /\ catalogue = world.catalogue
       /\ entries = world.entries
       /\ accounts = world.accounts
       /\ proved = [a \in Account |-> {<<row.own, row.password>> :
                      row \in {world.accounts[a]} \ {NoAccount}}]
  /\ mixed = {}
  /\ request = [q \in Request |-> Idle]
  /\ form = Closed(0, FALSE)
  /\ desk = Closed(0, FALSE)
  /\ lookup = Idle

Exists(p) == catalogue[p].exists
Enabled(p) == Exists(p) /\ catalogue[p].active
LiveLinked(p) ==
  {a \in Account : /\ accounts[a] # NoAccount /\ accounts[a].state = "live"
                   /\ accounts[a].provider = p}
Linked(p) == {a \in Account : accounts[a] # NoAccount /\ accounts[a].provider = p}

(* pickImapEndpoint: the profile's endpoint, or else the account's own.    *)
Effective(account) ==
  IF account.provider = NoProvider THEN account.own
  ELSE catalogue[account.provider].endpoint

-----------------------------------------------------------------------------
(* Requests.  One that writes may spoil what another has read.             *)

InFlight(q) == request[q].step \in {"resolve", "count", "write"}
Begin(q, r) == /\ request[q] = Idle
               /\ request' = [request EXCEPT ![q] = r]
(* A script's or a client's call is forgotten, unless the database has     *)
(* refused it; a dialog waits for its answer.                              *)
Done == [step |-> "done"]
Over(r, outcome) ==
  IF r.from = "api" /\ outcome # "failed" THEN Done
  ELSE [step |-> outcome, from |-> r.from, raced |-> outcome = "failed" /\ r.raced]
End(q, outcome) == request' = [request EXCEPT ![q] = Over(@, outcome)]
Wrote(q, next) ==
  request' = [x \in Request |->
                IF x = q THEN next
                ELSE IF InFlight(x) THEN [request[x] EXCEPT !.raced = TRUE] ELSE request[x]]
Saved(q) == Wrote(q, Over(request[q], "saved"))

(* POST and PATCH of an account.  The PATCH reads the row as it arrives; a  *)
(* POST of the address of a deleted row would be one more account.         *)
AccountCall(a, base, link, host, password, aim) ==
  [from |-> IF aim = Keep THEN "api" ELSE "form", step |-> "resolve", target |-> a, base |-> base, link |-> link, host |-> host,
   password |-> password, endpoint |-> NoEndpoint, raced |-> FALSE, aim |-> aim]

Create(q, a, p, host, password, aim) ==
  /\ accounts[a] = NoAccount \/ accounts[a].state = "live"
  /\ Begin(q, AccountCall(a, NoAccount, p, host, password, aim))
  /\ UNCHANGED database

Update(q, a, link, host, password, aim) ==
  /\ accounts[a] # NoAccount /\ accounts[a].state = "live"
  /\ Begin(q, AccountCall(a, accounts[a], link, host, password, aim))
  /\ UNCHANGED database

CredentialsChanged(r) == {r.link, r.host, r.password} # {Keep}
Or(field, old) == IF field = Keep THEN old ELSE field
NextProvider(r) == IF r.base = NoAccount THEN r.link ELSE Or(r.link, r.base.provider)
OwnOrNothing(r) == IF r.base = NoAccount THEN r.host ELSE Or(r.host, r.base.own)
NextOwn(r) == IF r.base = NoAccount THEN Or(r.host, NoEndpoint) ELSE Or(r.host, r.base.own)
LoginPassword(r) == IF r.base = NoAccount THEN r.password ELSE Or(r.password, r.base.password)

(* resolveWriteEndpoint: an enabled profile, or a server of one's own.     *)
ResolveWriteEndpoint(q) ==
  /\ request[q].step = "resolve"
  /\ LET p == NextProvider(request[q])
         own == NextOwn(request[q])
     IN IF IF p = NoProvider THEN own = NoEndpoint ELSE ~Enabled(p)
        THEN End(q, "refused")
        ELSE request' = [request EXCEPT ![q].step = "write",
               ![q].endpoint = IF p = NoProvider THEN own ELSE catalogue[p].endpoint]
  /\ UNCHANGED <<database, panel>>

LoginFails(q) ==
  /\ request[q].step = "write" /\ request[q].target \in Account
  /\ CredentialsChanged(request[q])
  /\ End(q, "refused")
  /\ UNCHANGED <<database, panel>>

(* The login succeeds and the row is written, its foreign key with it.     *)
RowOfNow(r) ==
  LET p == NextProvider(r)
      own == IF p = NoProvider THEN r.endpoint ELSE catalogue[p].endpoint
  IN IF r.base = NoAccount
     THEN [state |-> "live", provider |-> p, own |-> own, password |-> r.password]
     ELSE [accounts[r.target] EXCEPT !.provider = p, !.own = own, !.password = Or(r.password, @)]
NewRow(r) ==
  IF r.base = NoAccount
  THEN [state |-> "live", provider |-> r.link, own |-> r.endpoint, password |-> r.password]
  ELSE [accounts[r.target] EXCEPT !.provider = NextProvider(r), !.own = r.endpoint,
                                   !.password = Or(r.password, @)]

WriteAccount(q) ==
  /\ request[q].step = "write" /\ request[q].target \in Account
  /\ LET r == request[q]
         a == r.target
         p == NextProvider(r)
     IN IF r.base = NoAccount /\ accounts[a] # NoAccount
        THEN End(q, "refused") /\ UNCHANGED database
        ELSE IF ~CredentialsChanged(r)
        THEN End(q, "saved") /\ UNCHANGED database
        ELSE IF p # NoProvider /\ ~Exists(p)
        THEN End(q, "failed") /\ UNCHANGED database
        ELSE /\ accounts' = [accounts EXCEPT ![a] = NewRow(r)]
             /\ proved' = [proved EXCEPT ![a] = @ \cup {<<r.endpoint, LoginPassword(r)>>}]
             /\ mixed' = IF r.base = accounts[a] THEN mixed \ {a} ELSE mixed \cup {a}
             /\ Saved(q)
             /\ UNCHANGED <<catalogue, entries>>
  /\ UNCHANGED panel

(* DELETE of an account: the row stays, with its link.                     *)
RemoveAccount(q, a) ==
  /\ request[q] = Idle
  /\ accounts[a] # NoAccount /\ accounts[a].state = "live"
  /\ accounts' = [accounts EXCEPT ![a].state = "deleted"]
  /\ Wrote(q, Done)
  /\ UNCHANGED <<catalogue, entries, proved, mixed, panel>>

-----------------------------------------------------------------------------
(* The catalogue.                                                          *)

Replaced(p, names) == [e \in Entry |-> IF e \in names THEN p
                                       ELSE IF entries[e] = p THEN NoProvider ELSE entries[e]]
Taken(p, names) == \E e \in names : entries[e] \notin {p, NoProvider}

(* POST of a profile; the unique indexes refuse a key or an entry in use.  *)
CreateProvider(q, p, endpoint, names) ==
  /\ request[q] = Idle
  /\ ~Exists(p) /\ ~Taken(p, names)
  /\ catalogue' = [catalogue EXCEPT ![p] = [exists |-> TRUE, active |-> TRUE, endpoint |-> endpoint]]
  /\ entries' = Replaced(p, names)
  /\ Wrote(q, Done)
  /\ UNCHANGED <<accounts, proved, mixed, panel>>

(* PATCH and DELETE of a profile read it and count its accounts, tenant by *)
(* tenant; a PATCH only when it changes the endpoint.                      *)
ProviderCall(p, first, method, edit, from) ==
  [step |-> first, target |-> p, method |-> method, edit |-> edit,
   left |-> Tenant, count |-> 0, raced |-> FALSE, from |-> from]
EndpointChanged(p, edit) == edit.endpoint \notin {Keep, catalogue[p].endpoint}

UpdateProvider(q, p, edit, from) ==
  /\ Exists(p)
  /\ Begin(q, ProviderCall(p, IF EndpointChanged(p, edit) THEN "count" ELSE "write",
                           "PATCH", edit, from))
  /\ UNCHANGED database

RemoveProvider(q, p) ==
  /\ Exists(p)
  /\ Begin(q, ProviderCall(p, "count", "DELETE", Keep, "api"))
  /\ UNCHANGED <<database, panel>>

(* usageAll, one transaction for each tenant.  Soft-deleted accounts count. *)
UsedAlive(t, p) == Cardinality({a \in LiveLinked(p) : TenantOf[a] = t})
UsedIn(t, p) == Cardinality({a \in Linked(p) : TenantOf[a] = t})
CountTenant(q, t) ==
  /\ request[q].step = "count" /\ t \in request[q].left
  /\ request' = [request EXCEPT ![q].left = @ \ {t},
                                ![q].count = @ + UsedIn(t, request[q].target)]
  /\ UNCHANGED <<database, panel>>

AtLeastConfirmed(r) ==
  r.count = 0 \/ (r.method = "PATCH" /\ r.edit.confirm # Keep /\ r.edit.confirm >= r.count)
Confirmed(r) == r.count = 0 \/ (r.method = "PATCH" /\ r.edit.confirm = r.count)
Counted(q) ==
  /\ request[q].step = "count" /\ request[q].left = {}
  /\ IF Confirmed(request[q]) THEN request' = [request EXCEPT ![q].step = "write"]
     ELSE End(q, "refused")
  /\ UNCHANGED <<database, panel>>

(* The transaction replaces the list of entries, whose unique index speaks *)
(* first, and then writes the row.                                         *)
WriteProvider(q) ==
  /\ request[q].step = "write" /\ request[q].target \in Provider
  /\ request[q].method = "PATCH"
  /\ LET r == request[q]
         p == r.target
     IN IF r.edit.entries # Keep /\ Taken(p, r.edit.entries)
        THEN End(q, "refused") /\ UNCHANGED database
        ELSE IF ~Exists(p)
        THEN End(q, "failed") /\ UNCHANGED database
        ELSE /\ catalogue' = [catalogue EXCEPT ![p].endpoint = Or(r.edit.endpoint, @),
                                               ![p].active = Or(r.edit.active, @)]
             /\ entries' = IF r.edit.entries = Keep THEN entries ELSE Replaced(p, r.edit.entries)
             /\ Saved(q)
             /\ UNCHANGED <<accounts, proved, mixed>>
  /\ UNCHANGED panel

(* ON DELETE RESTRICT from the accounts, CASCADE from the entries.         *)
DeleteProvider(q) ==
  /\ request[q].step = "write" /\ request[q].target \in Provider
  /\ request[q].method = "DELETE"
  /\ LET p == request[q].target
     IN IF ~Exists(p) \/ Linked(p) # {}
        THEN End(q, "failed") /\ UNCHANGED database
        ELSE /\ catalogue' = [catalogue EXCEPT ![p] = Missing]
             /\ entries' = Replaced(p, {})
             /\ Saved(q)
             /\ UNCHANGED <<accounts, proved, mixed>>
  /\ UNCHANGED panel

(* The script: an upsert of each profile by its key, which leaves its      *)
(* "active", and then of each of its entries, whoever had them.            *)
StartSeed(q) ==
  /\ Begin(q, [step |-> "seed", from |-> "api", left |-> DOMAIN Seeds, entries |-> {}])
  /\ UNCHANGED <<database, panel>>

SeedProvider(q, p) ==
  /\ request[q].step = "seed" /\ request[q].entries = {} /\ p \in request[q].left
  /\ catalogue' = [catalogue EXCEPT ![p] =
       [exists |-> TRUE, active |-> IF Exists(p) THEN @.active ELSE TRUE,
        endpoint |-> Seeds[p].endpoint]]
  /\ Wrote(q, [step |-> "seed", from |-> "api", left |-> request[q].left \ {p},
               entries |-> {<<p, e>> : e \in Seeds[p].entries}])
  /\ UNCHANGED <<entries, accounts, proved, mixed, panel>>

SeedEntry(q, p, e) ==
  /\ request[q].step = "seed" /\ <<p, e>> \in request[q].entries /\ Exists(p)
  /\ entries' = [entries EXCEPT ![e] = p]
  /\ Wrote(q, [request[q] EXCEPT !.entries = @ \ {<<p, e>>}])
  /\ UNCHANGED <<catalogue, accounts, proved, mixed, panel>>

(* The last of them, or the profile it belongs to has gone.                *)
EndSeed(q) ==
  /\ request[q].step = "seed"
  /\ \/ request[q].left = {} /\ request[q].entries = {}
     \/ \E entry \in request[q].entries : ~Exists(entry[1])
  /\ request' = [request EXCEPT ![q] = Done]
  /\ UNCHANGED <<database, panel>>

-----------------------------------------------------------------------------
(* AccountFormDialog: one dialog, opened again for any account.            *)

(* emptyForm and formFromAccount: the manual fields start at the endpoint  *)
(* in force.  "sending" outlives the dialog.  The list of services is taken *)
(* to be loaded as the dialog opens.  "settled" is history: no answer of a *)
(* detection could still come when the service shown was last set by hand. *)
Awaited == lookup # Idle /\ lookup.apply
NewForm(a, provider, host) ==
  [open |-> TRUE, opening |-> form.opening + 1, account |-> a, base |-> accounts[a],
   provider |-> provider, host |-> host, services |-> {p \in Provider : Enabled(p)},
   chosen |-> Unchosen, suggested |-> {}, settled |-> ~Awaited, sending |-> form.sending]
EmptyForm(a) == NewForm(a, NoProvider, NoEndpoint)
FormFromAccount(a) == NewForm(a, accounts[a].provider, Effective(accounts[a]))
Openings == form.opening + desk.opening

Open(a) ==
  /\ ~form.open /\ Openings < MaxOpenings
  /\ \/ accounts[a] = NoAccount /\ form' = EmptyForm(a)
     \/ /\ accounts[a] # NoAccount /\ accounts[a].state = "live"
        /\ form' = FormFromAccount(a)
  /\ UNCHANGED <<database, request, desk, lookup>>

Close ==
  /\ form.open
  /\ form' = Closed(form.opening, form.sending)
  /\ UNCHANGED <<database, request, desk, lookup>>

(* The hand of the user on the list of services.                           *)
Choose(p) ==
  /\ form.open /\ p \in form.services \cup {NoProvider}
  /\ form' = [form EXCEPT !.provider = p, !.chosen = p, !.settled = ~Awaited]
  /\ UNCHANGED <<database, request, desk, lookup>>

(* Leaving the field of the address asks for its service.  Whether the     *)
(* user has chosen by then is what the answer will go by.                  *)
Blur(email) ==
  /\ form.open /\ lookup = Idle
  /\ lookup' = [step |-> "sent", email |-> email, opening |-> form.opening,
                apply |-> form.chosen = Unchosen, found |-> NoProvider]
  /\ UNCHANGED <<database, request, form, desk>>

(* resolveByEmail: the domain itself, or else the first mail exchanger with *)
(* a known suffix, unless the DNS does not answer in time.                 *)
OfEnabled(e) == entries[e] # NoProvider /\ Enabled(entries[e])
ResolveByDomain ==
  /\ lookup.step = "sent"
  /\ LET e == DomainOf[lookup.email]
     IN lookup' = IF OfEnabled(e)
                  THEN [lookup EXCEPT !.step = "answer", !.found = entries[e]]
                  ELSE [lookup EXCEPT !.step = "mx"]
  /\ UNCHANGED <<database, request, form, desk>>

Matching(records) == {i \in DOMAIN records : \E e \in records[i] : OfEnabled(e)}
First(S) == CHOOSE i \in S : \A j \in S : i <= j
ResolveByMx ==
  /\ lookup.step = "mx"
  /\ \E records \in {Exchanges[lookup.email], <<>>} :
       IF Matching(records) = {}
       THEN lookup' = [lookup EXCEPT !.step = "answer"]
       ELSE \E e \in records[First(Matching(records))] :
              /\ OfEnabled(e)
              /\ lookup' = [lookup EXCEPT !.step = "answer", !.found = entries[e]]
  /\ UNCHANGED <<database, request, form, desk>>

FoundApplies == lookup.found # NoProvider
Applies == lookup.found # NoProvider /\ lookup.apply
Detected ==
  /\ lookup.step = "answer"
  /\ lookup' = Idle
  /\ form' = IF form.open /\ Applies
             THEN [form EXCEPT !.provider = lookup.found,
                               !.suggested = IF lookup.opening = form.opening
                                             THEN @ \cup {lookup.found} ELSE @]
             ELSE form
  /\ UNCHANGED <<database, request, desk>>

(* handleSubmit: the server and the password are what the fields hold by   *)
(* then.  Only what differs from the account the dialog was opened with    *)
(* travels, and the server only when it is one of one's own.               *)
Changed(new, old) == IF new = old THEN Keep ELSE new
Link == Changed(form.provider, form.base.provider)
HostOfForm(host) == IF form.provider = NoProvider THEN Changed(host, form.host) ELSE Keep
Host(host) == IF form.provider = NoProvider THEN Changed(host, form.base.own) ELSE Keep
Aim(host) == [base |-> form.base, provider |-> form.provider, endpoint |-> host]

Submit(q, host, password) ==
  /\ form.open /\ ~form.sending
  /\ form.provider = NoProvider => host # NoEndpoint
  /\ \/ /\ form.base = NoAccount /\ password # Keep
        /\ Create(q, form.account, form.provider,
                  IF form.provider = NoProvider THEN host ELSE Keep, password, Aim(host))
     \/ /\ form.base # NoAccount
        /\ Update(q, form.account, Link, Host(host), password, Aim(host))
  /\ form' = [form EXCEPT !.sending = TRUE]
  /\ UNCHANGED <<desk, lookup>>

(* The answer closes the dialog, whatever it shows by then, or leaves it.  *)
Forgotten(q) == [request EXCEPT ![q] = IF @.step = "failed" THEN [@ EXCEPT !.from = "api"] ELSE Done]
After(q, dialog) == IF request[q].step = "saved" THEN Closed(dialog.opening, FALSE)
                    ELSE [dialog EXCEPT !.sending = FALSE]
Answered(q) ==
  /\ request[q].step \in {"saved", "refused", "failed"}
  /\ request' = Forgotten(q)
  /\ \/ request[q].from = "form" /\ form' = After(q, form) /\ UNCHANGED desk
     \/ request[q].from = "desk" /\ desk' = After(q, desk) /\ UNCHANGED form
  /\ UNCHANGED <<database, lookup>>

(* MailProviderFormDialog, with what its page has loaded: the profile, and *)
(* the accounts that use it, none when that call has failed.               *)
OpenProvider(p) ==
  /\ ~desk.open /\ Openings < MaxOpenings
  /\ Exists(p)
  /\ \E usage \in {0, Cardinality(Linked(p))} :
       desk' = [open |-> TRUE, opening |-> desk.opening + 1, provider |-> p,
                base |-> catalogue[p], usage |-> usage, sending |-> desk.sending]
  /\ UNCHANGED <<database, request, form, lookup>>

CloseProvider ==
  /\ desk.open
  /\ desk' = Closed(desk.opening, desk.sending)
  /\ UNCHANGED <<database, request, form, lookup>>

(* It sends every field, changed or not, and the number the user has typed *)
(* when the endpoint is not the one it shows.                              *)
Confirmation(endpoint) ==
  IF endpoint # desk.base.endpoint /\ desk.usage > 0 THEN desk.usage ELSE Keep
SaveProvider(q, endpoint, active, names) ==
  /\ desk.open /\ ~desk.sending
  /\ UpdateProvider(q, desk.provider,
                    [endpoint |-> endpoint, active |-> active, entries |-> names,
                     confirm |-> Confirmation(endpoint)], "desk")
  /\ desk' = [desk EXCEPT !.sending = TRUE]
  /\ UNCHANGED <<form, lookup>>

-----------------------------------------------------------------------------
Api(q) ==
  \/ /\ \/ \E a \in Account, p \in Provider, w \in Password : Create(q, a, p, Keep, w, Keep)
        \/ \E a \in Account, host \in Endpoint \cup {Keep}, w \in Password :
             Create(q, a, NoProvider, host, w, Keep)
        \/ \E a \in Account, patch \in Patches :
             Update(q, a, patch.link, patch.host, patch.password, Keep)
     /\ UNCHANGED panel
  \/ \E a \in Account : RemoveAccount(q, a)
  \/ \E p \in Provider :
       \/ \E endpoint \in Endpoint, names \in SUBSET Entry : CreateProvider(q, p, endpoint, names)
       \/ \E edit \in Edits : UpdateProvider(q, p, edit, "api") /\ UNCHANGED panel
       \/ RemoveProvider(q, p)
  \/ StartSeed(q)

Server(q) ==
  \/ ResolveWriteEndpoint(q) \/ LoginFails(q) \/ WriteAccount(q)
  \/ \E t \in Tenant : CountTenant(q, t)
  \/ Counted(q) \/ WriteProvider(q) \/ DeleteProvider(q)
  \/ \E p \in Provider : SeedProvider(q, p) \/ \E e \in Entry : SeedEntry(q, p, e)
  \/ EndSeed(q)

Fields == IF form.open THEN IF form.provider = NoProvider THEN Endpoint \cup {form.host} ELSE {form.host}
          ELSE {}
Dialog ==
  \/ \E a \in Account : Open(a)
  \/ Close
  \/ \E p \in Provider \cup {NoProvider} : Choose(p)
  \/ \E email \in Email : Blur(email)
  \/ ResolveByDomain \/ ResolveByMx \/ Detected
  \/ \E q \in Request :
       \/ \E host \in Fields, w \in Password \cup {Keep} : Submit(q, host, w)
       \/ \E endpoint \in Endpoint, active \in BOOLEAN, names \in SUBSET Entry :
            SaveProvider(q, endpoint, active, names)
       \/ Answered(q)
  \/ \E p \in Provider : OpenProvider(p)
  \/ CloseProvider

Next == Dialog \/ \E q \in Request : Api(q) \/ Server(q)

Spec == Init /\ [][Next]_vars

-----------------------------------------------------------------------------
(* Properties.                                                             *)

TypeOK ==
  /\ catalogue \in [Provider -> Profile \cup {Missing}]
  /\ entries \in [Entry -> Provider \cup {NoProvider}]
  /\ accounts \in [Account -> Row \cup {NoAccount}]
  /\ proved \in [Account -> SUBSET (Endpoint \X Password)]
  /\ mixed \subseteq Account

(* An account, even one that was deleted, is never linked to a profile     *)
(* that is not there, and detection never finds one that is not there      *)
(* (schema.prisma, onDelete Restrict and Cascade).                         *)
LinksHold ==
  /\ \A a \in Account : accounts[a] = NoAccount \/ accounts[a].provider = NoProvider
                          \/ Exists(accounts[a].provider)
  /\ \A e \in Entry : entries[e] = NoProvider \/ Exists(entries[e])

(* The checks of the code come before those of the database: a request     *)
(* nobody else wrote during ends in an answer of its own, never in the     *)
(* error of a foreign key.  The 409 of a profile in use counts, tenant by  *)
(* tenant, the accounts that were deleted too.                             *)
ErrorsAreExplained ==
  \A q \in Request : request[q].step = "failed" => request[q].raced

(* An edit that moves accounts to another server says how many, the        *)
(* deleted ones and those of every tenant included, and is refused with    *)
(* any other number (mail-providers.service.ts, update).  The script moves *)
(* them on purpose, and a request that another one wrote during has        *)
(* counted before.                                                         *)
MovesAccounts(q, p) ==
  /\ request[q].step = "write" /\ request'[q].step # "write"
  /\ Linked(p) # {} /\ catalogue'[p] # catalogue[p]
  /\ catalogue'[p] = Missing \/ catalogue'[p].endpoint # catalogue[p].endpoint

EndpointIsConfirmed ==
  [][ \A q \in Request, p \in Provider :
        MovesAccounts(q, p) /\ ~request[q].raced
          => /\ request[q].method = "PATCH"
             /\ request[q].edit.confirm = Cardinality(Linked(p)) ]_vars

(* The endpoint and the password of an account, one of a profile or not,   *)
(* have logged in together, whatever happens to the profile and to other   *)
(* accounts between the login and the write (accounts.service.ts, create   *)
(* and update).  Only a row that changed between the reading and the write *)
(* of the request that wrote it last is left out.                          *)
StoredIsVerified ==
  \A a \in Account \ mixed :
    accounts[a] # NoAccount => <<accounts[a].own, accounts[a].password>> \in proved[a]

(* What the dialog saves is what it showed: the chosen service, or the     *)
(* server that was typed, or, when none was, the one the account was on    *)
(* when the dialog was opened, its profile's included.  Unless the account *)
(* has been changed by somebody else since.                                *)
PanelKeepsEndpoint ==
  [][ \A q \in Request :
        LET r == request[q]
        IN /\ r.step = "write" /\ request'[q].step = "saved" /\ r.from = "form"
           /\ r.base = r.aim.base /\ r.base = accounts[r.target]
           => LET row == accounts'[r.target]
              IN /\ row.provider = r.aim.provider
                 /\ row.provider = NoProvider => row.own = r.aim.endpoint
    ]_vars

(* A service chosen while no detection was to answer stays until the user  *)
(* chooses again, and so does the account's, of a dialog opened then, or   *)
(* one detected for this form: whatever is asked for and answered later    *)
(* (AccountFormDialog.tsx, providerTouched).                               *)
ShowsChoice ==
  IF form.chosen # Unchosen THEN form.provider = form.chosen
  ELSE form.provider \in form.suggested \cup
         {IF form.base = NoAccount THEN NoProvider ELSE form.base.provider}
ChoiceIsKept == form.open /\ form.settled => ShowsChoice

-----------------------------------------------------------------------------
(* Violated by the code, checked by no run.                                *)

(* Once the user has chosen by hand, no detection changes the choice, nor  *)
(* does one of another form (AccountFormDialog.tsx, providerTouched).      *)
TouchedIsKept == form.open => ShowsChoice

(* An account that leaves its profile and names no server stays on the     *)
(* endpoint in force (accounts.service.ts, update).                        *)
ReleaseKeepsEndpoint ==
  [][ \A q \in Request :
        LET r == request[q]
        IN /\ r.step = "write" /\ r.target \in Account /\ request'[q].step # "write"
           /\ ~r.raced /\ r.base # NoAccount /\ r.link = NoProvider /\ r.host = Keep
           /\ accounts' # accounts
           => accounts'[r.target].own = Effective(accounts[r.target]) ]_vars

(* The script takes no entry from a profile it was given to                *)
(* (seed-mail-providers.ts, seedProviders).                                *)
SeedTakesNoEntry ==
  [][ \A q \in Request, e \in Entry :
        request[q].step = "seed" /\ request'[q] # request[q] /\ entries[e] # NoProvider
          => entries'[e] = entries[e] ]_vars
=============================================================================
