--------------------------- MODULE ProvidersProofs ---------------------------
(***************************************************************************)
(* Theorems about MailProviders, for any number of profiles, accounts,     *)
(* tenants and requests: its types and foreign keys, the number that       *)
(* confirms a change of endpoint, the credentials that were verified       *)
(* together, and what the two dialogs save.                                *)
(***************************************************************************)
EXTENDS MailProviders, FiniteSetTheorems, TLAPS

Anyone == {"api", "form", "desk"}
Aims == [base : Row \cup {NoAccount}, provider : Provider \cup {NoProvider},
         endpoint : Endpoint \cup {NoEndpoint}]
AccountCalls ==
  [from : {"api", "form"}, step : {"resolve", "write"}, target : Account,
   base : Row \cup {NoAccount}, link : Provider \cup {NoProvider, Keep},
   host : Endpoint \cup {Keep}, password : Password \cup {Keep},
   endpoint : Endpoint \cup {NoEndpoint}, raced : BOOLEAN, aim : Aims \cup {Keep}]
ProviderEdits ==
  [endpoint : Endpoint \cup {Keep}, active : BOOLEAN \cup {Keep},
   entries : (SUBSET Entry) \cup {Keep}, confirm : Nat \cup {Keep}]
ProviderCalls ==
  [step : {"count", "write"}, target : Provider, method : {"PATCH", "DELETE"},
   edit : ProviderEdits \cup {Keep}, left : SUBSET Tenant, count : Nat, raced : BOOLEAN,
   from : {"api", "desk"}]
SeedCalls ==
  [step : {"seed"}, from : {"api"}, left : SUBSET DOMAIN Seeds,
   entries : SUBSET ((DOMAIN Seeds) \X Entry)]
Outcomes == [step : {"saved", "refused", "failed"}, from : Anyone, raced : BOOLEAN]

Calls == AccountCalls \cup ProviderCalls \cup SeedCalls \cup Outcomes \cup {Idle, Done}

(* What the dialog saves, in the terms of the call: the service and the    *)
(* server it showed, when they differ from those it was opened with.       *)
AimOK(r) ==
  /\ r.aim.provider = NoProvider => r.aim.endpoint \in Endpoint
  /\ r.base = NoAccount =>
       /\ r.link = r.aim.provider
       /\ r.host = IF r.aim.provider = NoProvider THEN r.aim.endpoint ELSE Keep
  /\ r.base # NoAccount =>
       /\ r.aim.base # NoAccount
       /\ r.link = Changed(r.aim.provider, r.aim.base.provider)
       /\ r.host = IF r.aim.provider = NoProvider
                   THEN Changed(r.aim.endpoint, r.aim.base.own) ELSE Keep

(* A POST names its service and its password; the row a PATCH was read     *)
(* from is still there; once resolved, the endpoint is one, and without a  *)
(* profile it is the account's own.                                        *)
AccountCallOK(r) ==
  /\ r.base = NoAccount => r.link # Keep /\ r.password # Keep
  /\ r.base # NoAccount => accounts[r.target] # NoAccount
  /\ r.step = "write" =>
       /\ r.endpoint \in Endpoint
       /\ NextProvider(r) = NoProvider => r.endpoint = NextOwn(r)
  /\ r.from = "form" => r.aim \in Aims /\ AimOK(r)

CallOK(r) ==
  /\ r \in AccountCalls => AccountCallOK(r)
  /\ r \in ProviderCalls => (r.method = "PATCH" => r.edit \in ProviderEdits)

RequestsOK == request \in [Request -> Calls] /\ \A q \in Request : CallOK(request[q])

Forms ==
  [open : {TRUE}, opening : Nat, account : Account, base : Row \cup {NoAccount},
   provider : Provider \cup {NoProvider}, host : Endpoint \cup {NoEndpoint},
   services : SUBSET Provider, chosen : Provider \cup {NoProvider, Unchosen},
   suggested : SUBSET Provider, settled : BOOLEAN, sending : BOOLEAN]
Desks ==
  [open : {TRUE}, opening : Nat, provider : Provider, base : Profile, usage : Nat,
   sending : BOOLEAN]
Shut == [open : {FALSE}, opening : Nat, sending : BOOLEAN]
Lookups ==
  [step : {"sent", "mx", "answer"}, email : Email, opening : Nat, apply : BOOLEAN,
   found : Provider \cup {NoProvider}]

PanelOK ==
  /\ form \in Forms \cup Shut
  /\ desk \in Desks \cup Shut
  /\ lookup \in Lookups \cup {Idle}

TypeInv == TypeOK /\ PanelOK /\ RequestsOK

(* Foreign keys, and what a request nobody else wrote during still knows   *)
(* of the rows it has read.                                                *)
AccountFacts(r) ==
  ~r.raced =>
    /\ r.base # NoAccount => accounts[r.target] = r.base
    /\ r.step = "write" => NextProvider(r) = NoProvider \/ Exists(NextProvider(r))

CountedOf(r) == {a \in Linked(r.target) : TenantOf[a] \notin r.left}
ProviderFacts(r) ==
  ~r.raced =>
    /\ Exists(r.target)
    /\ r.step = "count" => r.count = Cardinality(CountedOf(r))
    /\ r.step = "write" /\ r.method = "PATCH" =>
         \/ r.edit.endpoint \in {Keep, catalogue[r.target].endpoint}
         \/ r.count = Cardinality(Linked(r.target)) /\ Confirmed(r)
    /\ r.step = "write" /\ r.method = "DELETE" => Linked(r.target) = {}

Facts(r) ==
  /\ r \in AccountCalls => AccountFacts(r)
  /\ r \in ProviderCalls => ProviderFacts(r)
  /\ r \in Outcomes /\ r.step = "failed" => r.raced

AllFacts == \A q \in Request : Facts(request[q])

DataInv == LinksHold /\ StoredIsVerified /\ AllFacts

(* The detection a settled form still waits for is its own, and was asked  *)
(* for by a user who has not chosen since.                                 *)
ChoiceInv ==
  /\ ChoiceIsKept
  /\ form.open /\ form.settled /\ Awaited =>
       lookup.opening = form.opening /\ form.chosen = Unchosen

-----------------------------------------------------------------------------
(* What a call is, from its step and its target.                           *)
LEMMA Sorts ==
  ASSUME NEW r \in Calls
  PROVE  /\ r.step = "resolve" => r \in AccountCalls
         /\ r.step = "count" => r \in ProviderCalls
         /\ r.step = "seed" => r \in SeedCalls
         /\ r.step = "write" => r \in AccountCalls \cup ProviderCalls
         /\ r.step \in {"saved", "refused", "failed"} => r \in Outcomes
         /\ r.step = "idle" => r = Idle
<1>1. /\ \A c \in AccountCalls : c.step \in {"resolve", "write"}
      /\ \A c \in ProviderCalls : c.step \in {"count", "write"}
      /\ \A c \in SeedCalls : c.step = "seed"
      /\ \A c \in Outcomes : c.step \in {"saved", "refused", "failed"}
  BY DEF AccountCalls, ProviderCalls, SeedCalls, Outcomes
<1>2. Idle.step = "idle" /\ Done.step = "done"
  BY DEF Idle, Done
<1> QED BY <1>1, <1>2 DEF Calls

LEMMA Steps ==
  /\ \A c \in AccountCalls : c.step \in {"resolve", "write"} /\ c.target \in Account
  /\ \A c \in ProviderCalls : c.step \in {"count", "write"} /\ c.target \in Provider
  /\ \A c \in SeedCalls : c.step = "seed"
  /\ \A c \in Outcomes : c.step \in {"saved", "refused", "failed"}
  /\ Idle.step = "idle" /\ Done.step = "done"
BY DEF AccountCalls, ProviderCalls, SeedCalls, Outcomes, Idle, Done

LEMMA Targets ==
  ASSUME NEW r \in Calls, r.step = "write"
  PROVE  /\ r.target \in Account => r \in AccountCalls /\ r \notin ProviderCalls
         /\ r.target \in Provider => r \in ProviderCalls /\ r \notin AccountCalls
BY Sorts, Steps, ProvidersAssumption

LEMMA Distinct ==
  /\ NoAccount \notin Row /\ Missing \notin Profile
  /\ ~Missing.exists /\ \A p \in Profile : p.exists
BY DEF NoAccount, Row, Missing, Profile

-----------------------------------------------------------------------------
(* The requests other than the one that moves: as they were, or told that  *)
(* somebody has written.                                                   *)
Raced(r) == [r EXCEPT !.raced = TRUE]
Others(q) ==
  /\ request' = [x \in Request |-> request'[x]]
  /\ \A x \in Request \ {q} :
       request'[x] = request[x] \/ (InFlight(x) /\ request'[x] = Raced(request[x]))
RowsStay == \A a \in Account : accounts[a] # NoAccount => accounts'[a] # NoAccount

LEMMA Quietly ==
  ASSUME request \in [Request -> Calls], NEW q \in Request, NEW r,
         request' = [request EXCEPT ![q] = r]
  PROVE  Others(q) /\ request'[q] = r
BY DEF Others

LEMMA Loudly ==
  ASSUME request \in [Request -> Calls], NEW q \in Request, NEW r, Wrote(q, r)
  PROVE  /\ Others(q) /\ request'[q] = r
         /\ \A x \in Request \ {q} : InFlight(x) => request'[x] = Raced(request[x])
BY DEF Others, Wrote, Raced

LEMMA RacedCalls ==
  ASSUME NEW r \in Calls, r.step \in {"resolve", "count", "write"}
  PROVE  /\ Raced(r) \in Calls /\ Raced(r).raced /\ Raced(r).step = r.step
         /\ r \in AccountCalls => Raced(r) \in AccountCalls
         /\ r \in ProviderCalls => Raced(r) \in ProviderCalls
         /\ CallOK(r) => CallOK(Raced(r))
<1>1. r \in AccountCalls \cup ProviderCalls
  BY Sorts
<1>2. CASE r \in AccountCalls
  <2> DEFINE s == Raced(r)
  <2>1. s \in AccountCalls /\ s.raced /\ s.step = r.step
    BY <1>2 DEF Raced, AccountCalls
  <2>2. /\ s.base = r.base /\ s.link = r.link /\ s.password = r.password
        /\ s.target = r.target /\ s.endpoint = r.endpoint /\ s.host = r.host
        /\ s.from = r.from /\ s.aim = r.aim
    BY <1>2 DEF Raced, AccountCalls
  <2>3. r \notin ProviderCalls /\ s \notin ProviderCalls
    BY <1>2, <2>1, Steps, ProvidersAssumption
  <2> HIDE DEF s
  <2>4. AccountCallOK(r) => AccountCallOK(s)
    BY <2>1, <2>2 DEF AccountCallOK, AimOK, NextProvider, NextOwn
  <2> QED BY <1>2, <2>1, <2>3, <2>4 DEF s, CallOK, Calls
<1>3. CASE r \in ProviderCalls
  <2> DEFINE s == Raced(r)
  <2>1. s \in ProviderCalls /\ s.raced /\ s.step = r.step /\ s.method = r.method /\ s.edit = r.edit
    BY <1>3 DEF Raced, ProviderCalls
  <2>2. r \notin AccountCalls /\ s \notin AccountCalls
    BY <1>3, <2>1, Steps, ProvidersAssumption
  <2> QED BY <1>3, <2>1, <2>2 DEF CallOK, Calls
<1> QED BY <1>1, <1>2, <1>3

(* Only the rows that are there matter to a call, so it stays well formed  *)
(* when the accounts change.                                               *)
LEMMA CallStays ==
  ASSUME NEW r \in Calls, CallOK(r), RowsStay
  PROVE  CallOK(r)'
<1>1. r \in AccountCalls => AccountCallOK(r)'
  <2> HAVE r \in AccountCalls
  <2>1. r.target \in Account
    BY Steps
  <2> QED BY <2>1 DEF CallOK, AccountCallOK, AimOK, RowsStay, NextProvider, NextOwn, Changed
<1> QED BY <1>1 DEF CallOK

LEMMA Frame ==
  ASSUME RequestsOK, NEW q \in Request, Others(q), RowsStay,
         request'[q] \in Calls, CallOK(request[q])'
  PROVE  RequestsOK'
<1>1. ASSUME NEW x \in Request, x # q PROVE request'[x] \in Calls /\ CallOK(request[x])'
  <2>1. request[x] \in Calls /\ CallOK(request[x])
    BY DEF RequestsOK
  <2>2. PICK r : r = request'[x]
    OBVIOUS
  <2>3. r \in Calls /\ CallOK(r)
    <3>1. CASE request'[x] = request[x]
      BY <2>1, <2>2, <3>1
    <3>2. CASE InFlight(x) /\ request'[x] = Raced(request[x])
      <4>1. PICK s : s = request[x]
        OBVIOUS
      <4> QED BY <2>1, <2>2, <3>2, <4>1, RacedCalls DEF InFlight
    <3> QED BY <1>1, <3>1, <3>2 DEF Others
  <2>4. CallOK(r)'
    BY <2>3, CallStays
  <2> QED BY <2>2, <2>3, <2>4
<1>2. \A x \in Request : request'[x] \in Calls /\ CallOK(request[x])'
  BY <1>1
<1> QED BY <1>2 DEF RequestsOK, Others

-----------------------------------------------------------------------------
(* How a request may move without writing: it begins, it ends, it goes on. *)
LEMMA SameRows ==
  ASSUME accounts' = accounts
  PROVE  RowsStay
BY DEF RowsStay

LEMMA Moving ==
  ASSUME TypeInv, NEW q \in Request, NEW r \in Calls, CallOK(r), RowsStay,
         \/ request' = [request EXCEPT ![q] = r]
         \/ Wrote(q, r)
  PROVE  RequestsOK' /\ request'[q] = r /\ Others(q)
<1>1. request \in [Request -> Calls]
  BY DEF TypeInv, RequestsOK
<1>2. Others(q) /\ request'[q] = r
  BY <1>1, Quietly, Loudly
<1>3. CallOK(r)'
  BY CallStays
<1> QED BY <1>2, <1>3, Frame DEF TypeInv

LEMMA Answers ==
  /\ Idle \in Calls /\ CallOK(Idle) /\ Done \in Calls /\ CallOK(Done)
  /\ \A r \in Outcomes : r \in Calls /\ CallOK(r)
<1>1. /\ Idle \notin AccountCalls \cup ProviderCalls
      /\ Done \notin AccountCalls \cup ProviderCalls
      /\ \A r \in Outcomes : r \notin AccountCalls \cup ProviderCalls
  BY Steps
<1> QED BY <1>1 DEF Calls, CallOK

LEMMA OverIsAnswer ==
  ASSUME NEW r \in Calls, r.step \in {"resolve", "count", "write"},
         NEW outcome \in {"saved", "refused", "failed"}
  PROVE  /\ Over(r, outcome) \in Calls /\ CallOK(Over(r, outcome))
         /\ Over(r, outcome) = Done \/ (/\ Over(r, outcome) \in Outcomes
                                        /\ Over(r, outcome).step = outcome
                                        /\ Over(r, outcome).from = r.from
                                        /\ outcome = "failed" => Over(r, outcome).raced = r.raced)
<1>1. r \in AccountCalls \cup ProviderCalls
  BY Sorts
<1>2. r.from \in Anyone /\ r.raced \in BOOLEAN
  BY <1>1 DEF AccountCalls, ProviderCalls, Anyone
<1> DEFINE answer == [step |-> outcome, from |-> r.from, raced |-> outcome = "failed" /\ r.raced]
<1>3. answer \in Outcomes /\ answer.step = outcome /\ answer.from = r.from
  BY <1>2 DEF Outcomes
<1>4. answer.raced = (outcome = "failed" /\ r.raced)
  OBVIOUS
<1>5. outcome = "failed" => answer.raced = r.raced
  BY <1>2, <1>4
<1>6. Over(r, outcome) = Done \/ Over(r, outcome) = answer
  BY DEF Over
<1> HIDE DEF answer
<1> QED BY <1>3, <1>5, <1>6, Answers

LEMMA Ending ==
  ASSUME TypeInv, NEW q \in Request, request[q].step \in {"resolve", "count", "write"},
         NEW outcome \in {"saved", "refused", "failed"}, RowsStay,
         End(q, outcome) \/ Wrote(q, Over(request[q], outcome))
  PROVE  RequestsOK' /\ request'[q] = Over(request[q], outcome) /\ Others(q)
<1>1. request[q] \in Calls /\ request \in [Request -> Calls]
  BY DEF TypeInv, RequestsOK
<1>2. PICK r : r = Over(request[q], outcome)
  OBVIOUS
<1>3. r \in Calls /\ CallOK(r)
  <2>1. PICK s : s = request[q]
    OBVIOUS
  <2> QED BY <1>1, <1>2, <2>1, OverIsAnswer
<1>4. request' = [request EXCEPT ![q] = r] \/ Wrote(q, r)
  BY <1>1, <1>2 DEF End
<1>5. RequestsOK' /\ request'[q] = r /\ Others(q)
  BY <1>3, <1>4, Moving
<1> QED BY <1>2, <1>5

LEMMA Kept ==
  ASSUME TypeOK, UNCHANGED database
  PROVE  TypeOK'
BY DEF TypeOK, database

(* The API's calls begin well formed.                                      *)
LEMMA AccountCallsAre ==
  ASSUME NEW a \in Account, NEW base \in Row \cup {NoAccount},
         NEW link \in Provider \cup {NoProvider, Keep}, NEW host \in Endpoint \cup {Keep},
         NEW password \in Password \cup {Keep}, NEW aim \in Aims \cup {Keep},
         base = NoAccount => link # Keep /\ password # Keep,
         base # NoAccount => accounts[a] # NoAccount,
         aim # Keep => AimOK(AccountCall(a, base, link, host, password, aim))
  PROVE  /\ AccountCall(a, base, link, host, password, aim) \in AccountCalls
         /\ AccountCall(a, base, link, host, password, aim) \in Calls
         /\ CallOK(AccountCall(a, base, link, host, password, aim))
<1> DEFINE r == AccountCall(a, base, link, host, password, aim)
<1>1. r \in AccountCalls
  BY DEF AccountCall, AccountCalls
<1>2. /\ r.step = "resolve" /\ r.base = base /\ r.link = link /\ r.target = a
      /\ r.password = password /\ r.aim = aim /\ r.from = IF aim = Keep THEN "api" ELSE "form"
  BY DEF AccountCall
<1>3. r \notin ProviderCalls
  BY <1>1, Steps, ProvidersAssumption
<1> HIDE DEF r
<1>4. AccountCallOK(r)
  BY <1>2 DEF AccountCallOK, r
<1> QED BY <1>1, <1>3, <1>4 DEF Calls, CallOK, r

LEMMA Creating ==
  ASSUME TypeInv, NEW q \in Request, NEW a \in Account, NEW p \in Provider \cup {NoProvider},
         NEW host \in Endpoint \cup {Keep}, NEW w \in Password, NEW aim \in Aims \cup {Keep},
         aim # Keep => AimOK(AccountCall(a, NoAccount, p, host, w, aim)),
         Create(q, a, p, host, w, aim)
  PROVE  TypeOK' /\ RequestsOK'
<1>1. TypeOK' /\ RowsStay
  BY Kept, SameRows DEF Create, TypeInv, database
<1>2. PICK r : r = AccountCall(a, NoAccount, p, host, w, aim)
  OBVIOUS
<1>3. p # Keep /\ w # Keep
  BY ProvidersAssumption
<1>4. r \in Calls /\ CallOK(r)
  BY <1>2, <1>3, AccountCallsAre
<1>5. request' = [request EXCEPT ![q] = r]
  BY <1>2 DEF Create, Begin
<1> QED BY <1>1, <1>4, <1>5, Moving

LEMMA Updating ==
  ASSUME TypeInv, NEW q \in Request, NEW a \in Account,
         NEW link \in Provider \cup {NoProvider, Keep},
         NEW host \in Endpoint \cup {Keep}, NEW w \in Password \cup {Keep},
         NEW aim \in Aims \cup {Keep},
         aim # Keep => AimOK(AccountCall(a, accounts[a], link, host, w, aim)),
         Update(q, a, link, host, w, aim)
  PROVE  TypeOK' /\ RequestsOK'
<1>1. TypeOK' /\ RowsStay
  BY Kept, SameRows DEF Update, TypeInv, database
<1>2. PICK base : base = accounts[a]
  OBVIOUS
<1>3. base \in Row \cup {NoAccount} /\ base # NoAccount
  BY <1>2 DEF TypeInv, TypeOK, Update
<1>4. PICK r : r = AccountCall(a, base, link, host, w, aim)
  OBVIOUS
<1>5. r \in Calls /\ CallOK(r)
  BY <1>2, <1>3, <1>4, AccountCallsAre
<1>6. request' = [request EXCEPT ![q] = r]
  BY <1>2, <1>4 DEF Update, Begin
<1> QED BY <1>1, <1>5, <1>6, Moving

LEMMA ProviderCallsAre ==
  ASSUME NEW p \in Provider, NEW first \in {"count", "write"},
         NEW method \in {"PATCH", "DELETE"}, NEW edit \in ProviderEdits \cup {Keep},
         method = "PATCH" => edit \in ProviderEdits, NEW from \in {"api", "desk"}
  PROVE  /\ ProviderCall(p, first, method, edit, from) \in ProviderCalls
         /\ ProviderCall(p, first, method, edit, from) \in Calls
         /\ CallOK(ProviderCall(p, first, method, edit, from))
<1> DEFINE r == ProviderCall(p, first, method, edit, from)
<1>1. r \in ProviderCalls /\ r.method = method /\ r.edit = edit
  BY DEF ProviderCall, ProviderCalls
<1>2. r \notin AccountCalls
  BY <1>1, Steps, ProvidersAssumption
<1> HIDE DEF r
<1> QED BY <1>1, <1>2 DEF Calls, CallOK, r

LEMMA Editing ==
  ASSUME TypeInv, NEW q \in Request, NEW p \in Provider, NEW edit \in ProviderEdits,
         NEW from \in {"api", "desk"}, UpdateProvider(q, p, edit, from)
  PROVE  TypeOK' /\ RequestsOK'
<1>1. TypeOK' /\ RowsStay
  BY Kept, SameRows DEF UpdateProvider, TypeInv, database
<1>2. PICK first \in {"count", "write"} : first = IF EndpointChanged(p, edit) THEN "count" ELSE "write"
  OBVIOUS
<1>3. PICK r : r = ProviderCall(p, first, "PATCH", edit, from)
  OBVIOUS
<1>4. r \in Calls /\ CallOK(r)
  BY <1>3, ProviderCallsAre
<1>5. request' = [request EXCEPT ![q] = r]
  BY <1>2, <1>3 DEF UpdateProvider, Begin
<1> QED BY <1>1, <1>4, <1>5, Moving

LEMMA RemovingAccount ==
  ASSUME TypeInv, NEW q \in Request, NEW a \in Account, RemoveAccount(q, a)
  PROVE  TypeOK' /\ RequestsOK'
<1>1. accounts \in [Account -> Row \cup {NoAccount}] /\ accounts[a] \in Row
  BY DEF TypeInv, TypeOK, RemoveAccount
<1>2. [accounts[a] EXCEPT !.state = "deleted"] \in Row
  BY <1>1 DEF Row
<1>3. accounts' = [accounts EXCEPT ![a] = [accounts[a] EXCEPT !.state = "deleted"]]
  BY <1>1 DEF RemoveAccount
<1>4. accounts' \in [Account -> Row \cup {NoAccount}] /\ RowsStay
  BY <1>1, <1>2, <1>3, Distinct DEF RowsStay
<1>5. TypeOK'
  BY <1>4 DEF TypeOK, TypeInv, RemoveAccount
<1>6. RequestsOK'
  BY <1>4, Answers, Moving DEF RemoveAccount
<1> QED BY <1>5, <1>6

LEMMA ReplacedType ==
  ASSUME TypeOK, NEW p \in Provider, NEW names \in SUBSET Entry
  PROVE  Replaced(p, names) \in [Entry -> Provider \cup {NoProvider}]
BY DEF TypeOK, Replaced

LEMMA CreatingProvider ==
  ASSUME TypeInv, NEW q \in Request, NEW p \in Provider, NEW endpoint \in Endpoint,
         NEW names \in SUBSET Entry, CreateProvider(q, p, endpoint, names)
  PROVE  TypeOK' /\ RequestsOK'
<1>1. [exists |-> TRUE, active |-> TRUE, endpoint |-> endpoint] \in Profile
  BY DEF Profile
<1>2. catalogue' \in [Provider -> Profile \cup {Missing}]
  BY <1>1 DEF CreateProvider, TypeInv, TypeOK
<1>3. entries' \in [Entry -> Provider \cup {NoProvider}]
  BY ReplacedType DEF CreateProvider, TypeInv
<1>4. TypeOK'
  BY <1>2, <1>3 DEF TypeOK, TypeInv, CreateProvider
<1>5. RequestsOK'
  BY SameRows, Answers, Moving DEF CreateProvider
<1> QED BY <1>4, <1>5

LEMMA RemovingProvider ==
  ASSUME TypeInv, NEW q \in Request, NEW p \in Provider, RemoveProvider(q, p)
  PROVE  TypeOK' /\ RequestsOK'
<1>1. TypeOK' /\ RowsStay
  BY Kept, SameRows DEF RemoveProvider, TypeInv, database
<1>2. PICK r : r = ProviderCall(p, "count", "DELETE", Keep, "api")
  OBVIOUS
<1>3. r \in Calls /\ CallOK(r)
  BY <1>2, ProviderCallsAre
<1>4. request' = [request EXCEPT ![q] = r]
  BY <1>2 DEF RemoveProvider, Begin
<1> QED BY <1>1, <1>3, <1>4, Moving

LEMMA SeedCallsAre ==
  \A r \in SeedCalls : r \in Calls /\ CallOK(r)
BY Steps DEF Calls, CallOK

LEMMA StartingSeed ==
  ASSUME TypeInv, NEW q \in Request, StartSeed(q)
  PROVE  TypeOK' /\ RequestsOK'
<1>1. TypeOK' /\ RowsStay
  BY Kept, SameRows DEF StartSeed, TypeInv, database
<1>2. PICK r : r = [step |-> "seed", from |-> "api", left |-> DOMAIN Seeds, entries |-> {}]
  OBVIOUS
<1>3. r \in SeedCalls
  BY <1>2 DEF SeedCalls
<1>4. request' = [request EXCEPT ![q] = r]
  BY <1>2 DEF StartSeed, Begin
<1> QED BY <1>1, <1>3, <1>4, SeedCallsAre, Moving

LEMMA AccountTypes ==
  ASSUME NEW r \in AccountCalls, CallOK(r)
  PROVE  /\ AccountCallOK(r)
         /\ NextProvider(r) \in Provider \cup {NoProvider}
         /\ NextOwn(r) \in Endpoint \cup {NoEndpoint}
         /\ LoginPassword(r) \in Password
<1>1. /\ r.link \in Provider \cup {NoProvider, Keep} /\ r.host \in Endpoint \cup {Keep}
      /\ r.password \in Password \cup {Keep} /\ r.base \in Row \cup {NoAccount}
  BY DEF AccountCalls
<1>2. r.base \in Row => /\ r.base.provider \in Provider \cup {NoProvider}
                        /\ r.base.own \in Endpoint /\ r.base.password \in Password
  BY DEF Row
<1>3. AccountCallOK(r)
  BY DEF CallOK
<1>4. NextProvider(r) \in Provider \cup {NoProvider}
  BY <1>1, <1>2, <1>3 DEF AccountCallOK, NextProvider, Or
<1>5. NextOwn(r) \in Endpoint \cup {NoEndpoint}
  BY <1>1, <1>2, <1>3 DEF NextOwn, Or
<1>6. LoginPassword(r) \in Password
  BY <1>1, <1>2, <1>3 DEF AccountCallOK, LoginPassword, Or
<1> QED BY <1>3, <1>4, <1>5, <1>6

(* What the resolution of the endpoint leaves in the call.                 *)
AsResolved(r, e) == [r EXCEPT !.step = "write", !.endpoint = e]
LEMMA Resolved ==
  ASSUME TypeInv, NEW q \in Request, ResolveWriteEndpoint(q)
  PROVE  \/ End(q, "refused")
         \/ LET p == NextProvider(request[q])
                e == IF p = NoProvider THEN NextOwn(request[q]) ELSE catalogue[p].endpoint
            IN /\ p # NoProvider => Enabled(p)
               /\ e \in Endpoint
               /\ request' = [request EXCEPT ![q] = AsResolved(request[q], e)]
<1> DEFINE p == NextProvider(request[q])
           own == NextOwn(request[q])
           e == IF p = NoProvider THEN own ELSE catalogue[p].endpoint
<1>1. request \in [Request -> Calls] /\ request[q] \in AccountCalls /\ CallOK(request[q])
  BY Sorts DEF ResolveWriteEndpoint, TypeInv, RequestsOK
<1>2. p \in Provider \cup {NoProvider} /\ own \in Endpoint \cup {NoEndpoint}
  <2>1. PICK r : r = request[q]
    OBVIOUS
  <2> QED BY <1>1, <2>1, AccountTypes
<1>3. \A x \in Provider : Exists(x) => catalogue[x].endpoint \in Endpoint
  BY Distinct DEF TypeInv, TypeOK, Exists, Profile
<1>4. CASE IF p = NoProvider THEN own = NoEndpoint ELSE ~Enabled(p)
  BY <1>4 DEF ResolveWriteEndpoint
<1>5. CASE ~IF p = NoProvider THEN own = NoEndpoint ELSE ~Enabled(p)
  <2>1. request' = [request EXCEPT ![q].step = "write", ![q].endpoint = e]
    BY <1>5 DEF ResolveWriteEndpoint
  <2>2. e \in Endpoint /\ (p # NoProvider => Enabled(p))
    BY <1>2, <1>3, <1>5 DEF Enabled
  <2> HIDE DEF p, own, e
  <2>3. request' = [request EXCEPT ![q] = AsResolved(request[q], e)]
    BY <1>1, <2>1 DEF AsResolved
  <2> QED BY <2>2, <2>3 DEF p, own, e
<1> QED BY <1>4, <1>5

LEMMA ResolvedCalls ==
  ASSUME NEW r \in AccountCalls, CallOK(r), NEW e \in Endpoint,
         NextProvider(r) = NoProvider => e = NextOwn(r),
         NEW s, s = AsResolved(r, e)
  PROVE  /\ s \in AccountCalls /\ s \in Calls /\ CallOK(s)
         /\ s.step = "write" /\ s.endpoint = e /\ s.raced = r.raced
         /\ s.base = r.base /\ s.link = r.link /\ s.target = r.target
         /\ NextProvider(s) = NextProvider(r)
<1>1. s \in AccountCalls /\ s.step = "write" /\ s.endpoint = e /\ s.raced = r.raced
  BY DEF AccountCalls, AsResolved
<1>2. /\ s.base = r.base /\ s.link = r.link /\ s.password = r.password /\ s.target = r.target
      /\ s.host = r.host /\ s.from = r.from /\ s.aim = r.aim
  BY DEF AccountCalls, AsResolved
<1>3. s \notin ProviderCalls
  BY <1>1, Steps, ProvidersAssumption
<1>4. NextProvider(s) = NextProvider(r) /\ NextOwn(s) = NextOwn(r)
  BY <1>2 DEF NextProvider, NextOwn
<1>5. AccountCallOK(r)
  BY DEF CallOK
<1>6. AccountCallOK(s)
  BY <1>1, <1>2, <1>4, <1>5 DEF AccountCallOK, AimOK
<1> QED BY <1>1, <1>2, <1>3, <1>4, <1>6 DEF CallOK, Calls

LEMMA Resolving ==
  ASSUME TypeInv, NEW q \in Request, ResolveWriteEndpoint(q)
  PROVE  TypeOK' /\ RequestsOK'
<1>1. TypeOK' /\ RowsStay
  BY Kept, SameRows DEF ResolveWriteEndpoint, TypeInv, database
<1>2. CASE End(q, "refused")
  BY <1>1, <1>2, Ending DEF ResolveWriteEndpoint
<1>3. CASE ~End(q, "refused")
  <2> DEFINE p == NextProvider(request[q])
  <2>1. PICK e : e = IF p = NoProvider THEN NextOwn(request[q]) ELSE catalogue[p].endpoint
    OBVIOUS
  <2>2. e \in Endpoint /\ request' = [request EXCEPT ![q] =
        AsResolved(request[q], e)]
    BY <1>3, <2>1, Resolved
  <2>3. PICK r : r = request[q]
    OBVIOUS
  <2>4. r \in AccountCalls /\ CallOK(r)
    BY <2>3, Sorts DEF ResolveWriteEndpoint, TypeInv, RequestsOK
  <2>5. PICK s : s = AsResolved(r, e)
    OBVIOUS
  <2>6. s \in Calls /\ CallOK(s)
    BY <2>1, <2>2, <2>3, <2>4, <2>5, ResolvedCalls
  <2>7. request' = [request EXCEPT ![q] = s]
    BY <2>2, <2>3, <2>5
  <2> QED BY <1>1, <2>6, <2>7, Moving
<1> QED BY <1>2, <1>3

LEMMA FailingLogin ==
  ASSUME TypeInv, NEW q \in Request, LoginFails(q)
  PROVE  TypeOK' /\ RequestsOK'
<1>1. TypeOK' /\ RowsStay
  BY Kept, SameRows DEF LoginFails, TypeInv, database
<1> QED BY <1>1, Ending DEF LoginFails

(* The row that is written: a new one, or the old one with what travelled. *)
LEMMA RowWritten ==
  ASSUME TypeOK, NEW r \in AccountCalls, CallOK(r), r.step = "write"
  PROVE  /\ NewRow(r) \in Row
         /\ NewRow(r).provider = NextProvider(r)
         /\ NewRow(r).own = r.endpoint
         /\ NewRow(r).password = IF r.base = NoAccount THEN r.password
                                 ELSE Or(r.password, accounts[r.target].password)
         /\ r.base = NoAccount => NewRow(r).state = "live"
         /\ r.base # NoAccount => NewRow(r).state = accounts[r.target].state
<1>1. /\ r.endpoint \in Endpoint /\ r.target \in Account
      /\ r.base # NoAccount => accounts[r.target] \in Row
      /\ r.base = NoAccount => r.password \in Password /\ r.link \in Provider \cup {NoProvider}
      /\ r.password \in Password \cup {Keep}
      /\ NextProvider(r) \in Provider \cup {NoProvider}
  BY AccountTypes DEF AccountCallOK, AccountCalls, TypeOK
<1>2. CASE r.base = NoAccount
  BY <1>1, <1>2 DEF NewRow, Row, NextProvider
<1>3. CASE r.base # NoAccount
  <2>1. PICK old : old = accounts[r.target]
    OBVIOUS
  <2>2. old \in Row /\ Or(r.password, old.password) \in Password
    BY <1>1, <1>3, <2>1 DEF Row, Or
  <2>3. PICK p, w : p = NextProvider(r) /\ w = Or(r.password, old.password)
    OBVIOUS
  <2> DEFINE row == [old EXCEPT !.provider = p, !.own = r.endpoint, !.password = w]
  <2>4. /\ row \in Row /\ row.provider = p /\ row.own = r.endpoint /\ row.password = w
        /\ row.state = old.state
    BY <1>1, <2>2, <2>3 DEF Row
  <2>5. NewRow(r) = row
    BY <1>1, <1>3, <2>1, <2>2, <2>3 DEF NewRow, Row
  <2> HIDE DEF row
  <2> QED BY <1>3, <2>1, <2>3, <2>4, <2>5
<1> QED BY <1>2, <1>3

LEMMA WritingAccount ==
  ASSUME TypeInv, NEW q \in Request, WriteAccount(q)
  PROVE  TypeOK' /\ RequestsOK'
<1> DEFINE a == request[q].target
           row == NewRow(request[q])
<1>1. /\ request[q] \in AccountCalls /\ CallOK(request[q]) /\ request[q].step = "write"
      /\ request[q] \in Calls /\ a \in Account
  BY Targets DEF WriteAccount, TypeInv, RequestsOK
<1>2. ASSUME UNCHANGED database, \E o \in {"refused", "saved", "failed"} : End(q, o)
      PROVE  TypeOK' /\ RequestsOK'
  <2>1. TypeOK' /\ RowsStay
    BY <1>2, Kept, SameRows DEF TypeInv, database
  <2> QED BY <1>1, <1>2, <2>1, Ending
<1>3. ASSUME accounts' = [accounts EXCEPT ![a] = row],
             proved' = [proved EXCEPT ![a] = @ \cup
                          {<<request[q].endpoint, LoginPassword(request[q])>>}],
             mixed' = IF request[q].base = accounts[a] THEN mixed \ {a} ELSE mixed \cup {a},
             Saved(q), UNCHANGED <<catalogue, entries>>
      PROVE  TypeOK' /\ RequestsOK'
  <2>1. row \in Row /\ request[q].endpoint \in Endpoint /\ LoginPassword(request[q]) \in Password
    <3>1. PICK r : r = request[q]
      OBVIOUS
    <3>2. NewRow(r) \in Row /\ r.endpoint \in Endpoint /\ LoginPassword(r) \in Password
      BY <1>1, <3>1, RowWritten, AccountTypes DEF AccountCallOK, TypeInv
    <3> QED BY <3>1, <3>2
  <2>2. accounts' \in [Account -> Row \cup {NoAccount}] /\ RowsStay
    BY <1>1, <1>3, <2>1, Distinct DEF TypeInv, TypeOK, RowsStay
  <2>3. proved' \in [Account -> SUBSET (Endpoint \X Password)]
    BY <1>1, <1>3, <2>1 DEF TypeInv, TypeOK
  <2>4. TypeOK'
    BY <1>1, <1>3, <2>2, <2>3 DEF TypeInv, TypeOK
  <2>5. RequestsOK'
    BY <1>1, <1>3, <2>2, Ending DEF Saved
  <2> QED BY <2>4, <2>5
<1> QED BY <1>2, <1>3 DEF WriteAccount

LEMMA UsedIsNat ==
  ASSUME NEW t, NEW p
  PROVE  UsedIn(t, p) \in Nat
<1>1. {a \in Linked(p) : TenantOf[a] = t} \subseteq Account
  BY DEF Linked
<1> QED BY <1>1, ProvidersAssumption, FS_Subset, FS_CardinalityType DEF UsedIn

(* A count goes on, tenant by tenant.                                      *)
AsCounted(r, left, count) == [r EXCEPT !.left = left, !.count = count]
LEMMA CountedCalls ==
  ASSUME NEW r \in ProviderCalls, CallOK(r), NEW left \in SUBSET Tenant, NEW n \in Nat,
         NEW s, s = AsCounted(r, left, n)
  PROVE  /\ s \in ProviderCalls /\ s \in Calls /\ CallOK(s)
         /\ s.step = r.step /\ s.target = r.target /\ s.left = left
         /\ s.count = n /\ s.raced = r.raced
<1>1. /\ s \in ProviderCalls
      /\ s.step = r.step /\ s.target = r.target /\ s.left = left
      /\ s.count = n /\ s.raced = r.raced /\ s.method = r.method /\ s.edit = r.edit
  BY DEF ProviderCalls, AsCounted
<1>2. s \notin AccountCalls
  BY <1>1, Steps, ProvidersAssumption
<1> QED BY <1>1, <1>2 DEF Calls, CallOK

LEMMA Counts ==
  ASSUME TypeInv, NEW q \in Request, NEW t \in Tenant, CountTenant(q, t)
  PROVE  /\ request[q] \in ProviderCalls /\ t \in request[q].left
         /\ request' = [request EXCEPT ![q] =
              AsCounted(request[q], request[q].left \ {t},
                        request[q].count + UsedIn(t, request[q].target))]
<1>1. request \in [Request -> Calls] /\ request[q] \in ProviderCalls
  BY Sorts DEF CountTenant, TypeInv, RequestsOK
<1>2. request' = [request EXCEPT ![q].left = @ \ {t},
                                ![q].count = @ + UsedIn(t, request[q].target)]
  BY DEF CountTenant
<1>3. PICK n : n = UsedIn(t, request[q].target)
  OBVIOUS
<1>4. request' = [request EXCEPT ![q] = AsCounted(request[q], request[q].left \ {t}, request[q].count + n)]
  BY <1>1, <1>2, <1>3 DEF AsCounted
<1> QED BY <1>1, <1>3, <1>4 DEF CountTenant

LEMMA CountingTenant ==
  ASSUME TypeInv, NEW q \in Request, NEW t \in Tenant, CountTenant(q, t)
  PROVE  TypeOK' /\ RequestsOK'
<1>1. TypeOK' /\ RowsStay
  BY Kept, SameRows DEF CountTenant, TypeInv, database
<1>2. PICK r : r = request[q]
  OBVIOUS
<1>3. r \in ProviderCalls /\ CallOK(r)
  BY <1>2, Counts DEF TypeInv, RequestsOK
<1>4. PICK left, n : left = r.left \ {t} /\ n = r.count + UsedIn(t, r.target)
  OBVIOUS
<1>5. left \in SUBSET Tenant /\ n \in Nat
  BY <1>3, <1>4, UsedIsNat DEF ProviderCalls
<1>6. PICK s : s = AsCounted(r, left, n)
  OBVIOUS
<1>7. request' = [request EXCEPT ![q] = s]
  BY <1>2, <1>4, <1>6, Counts
<1> QED BY <1>1, <1>3, <1>5, <1>6, <1>7, CountedCalls, Moving

AsConfirmed(r) == [r EXCEPT !.step = "write"]
LEMMA ConfirmedCalls ==
  ASSUME NEW r \in ProviderCalls, CallOK(r), NEW s, s = AsConfirmed(r)
  PROVE  /\ s \in ProviderCalls /\ s \in Calls /\ CallOK(s)
         /\ s.step = "write" /\ s.target = r.target /\ s.method = r.method
         /\ s.edit = r.edit /\ s.count = r.count /\ s.raced = r.raced
<1>1. /\ s \in ProviderCalls
      /\ s.step = "write" /\ s.target = r.target /\ s.method = r.method
      /\ s.edit = r.edit /\ s.count = r.count /\ s.raced = r.raced
  BY DEF ProviderCalls, AsConfirmed
<1>2. s \notin AccountCalls
  BY <1>1, Steps, ProvidersAssumption
<1> QED BY <1>1, <1>2 DEF Calls, CallOK

LEMMA ConfirmingCount ==
  ASSUME TypeInv, NEW q \in Request, Counted(q)
  PROVE  TypeOK' /\ RequestsOK'
<1>1. TypeOK' /\ RowsStay
  BY Kept, SameRows DEF Counted, TypeInv, database
<1>2. PICK r : r = request[q]
  OBVIOUS
<1>3. r \in ProviderCalls /\ CallOK(r) /\ request \in [Request -> Calls]
  BY <1>2, Sorts DEF Counted, TypeInv, RequestsOK
<1>4. CASE request' = [request EXCEPT ![q].step = "write"]
  <2>1. PICK s : s = AsConfirmed(r)
    OBVIOUS
  <2>2. request' = [request EXCEPT ![q] = s]
    BY <1>2, <1>3, <1>4, <2>1 DEF AsConfirmed
  <2> QED BY <1>1, <1>3, <2>1, <2>2, ConfirmedCalls, Moving
<1>5. CASE End(q, "refused")
  BY <1>1, <1>5, Ending DEF Counted
<1> QED BY <1>4, <1>5 DEF Counted

(* A profile as an edit leaves it.                                         *)
Edited(row, edit) == [row EXCEPT !.endpoint = Or(edit.endpoint, @), !.active = Or(edit.active, @)]
LEMMA EditedType ==
  ASSUME NEW row \in Profile, NEW edit \in ProviderEdits
  PROVE  Edited(row, edit) \in Profile /\ Edited(row, edit).endpoint = Or(edit.endpoint, row.endpoint)
<1>1. PICK e, b : e = Or(edit.endpoint, row.endpoint) /\ b = Or(edit.active, row.active)
  OBVIOUS
<1>2. e \in Endpoint /\ b \in BOOLEAN
  BY <1>1 DEF Or, Profile, ProviderEdits
<1> DEFINE new == [row EXCEPT !.endpoint = e, !.active = b]
<1>3. new \in Profile /\ new.endpoint = e
  BY <1>2 DEF Profile
<1>4. Edited(row, edit) = new
  BY <1>1 DEF Edited, Profile
<1> HIDE DEF new
<1> QED BY <1>1, <1>3, <1>4

LEMMA EditsWritten ==
  ASSUME TypeInv, NEW q \in Request, WriteProvider(q)
  PROVE  LET r == request[q] IN
         /\ r \in ProviderCalls /\ r.edit \in ProviderEdits /\ r.step = "write"
         /\ \/ End(q, "failed") /\ ~Exists(r.target) /\ UNCHANGED database
            \/ End(q, "refused") /\ UNCHANGED database
            \/ /\ Exists(r.target)
               /\ r.edit.entries # Keep => ~Taken(r.target, r.edit.entries)
               /\ catalogue[r.target] \in Profile
               /\ catalogue' = [catalogue EXCEPT ![r.target] = Edited(catalogue[r.target], r.edit)]
               /\ entries' = IF r.edit.entries = Keep THEN entries ELSE Replaced(r.target, r.edit.entries)
               /\ Saved(q)
               /\ UNCHANGED <<accounts, proved, mixed>>
<1> DEFINE r == request[q]
<1>1. r \in ProviderCalls /\ r.edit \in ProviderEdits /\ r.step = "write" /\ r.target \in Provider
  BY Targets DEF WriteProvider, TypeInv, RequestsOK, CallOK
<1>2. Exists(r.target) => catalogue[r.target] \in Profile
  BY <1>1, Distinct DEF Exists, TypeInv, TypeOK
<1>3. catalogue \in [Provider -> Profile \cup {Missing}]
  BY DEF TypeInv, TypeOK
<1>4. ASSUME catalogue' = [catalogue EXCEPT ![r.target].endpoint = Or(r.edit.endpoint, @),
                                            ![r.target].active = Or(r.edit.active, @)]
      PROVE  catalogue' = [catalogue EXCEPT ![r.target] = Edited(catalogue[r.target], r.edit)]
  <2>1. PICK p, edit : p = r.target /\ edit = r.edit
    OBVIOUS
  <2>2. catalogue' = [catalogue EXCEPT ![p].endpoint = Or(edit.endpoint, @),
                                       ![p].active = Or(edit.active, @)]
    BY <1>4, <2>1
  <2>3. catalogue' = [catalogue EXCEPT ![p] = Edited(catalogue[p], edit)]
    BY <1>1, <1>3, <2>1, <2>2 DEF Edited
  <2> QED BY <2>1, <2>3
<1> HIDE DEF r
<1>5. \/ End(q, "failed") /\ ~Exists(r.target) /\ UNCHANGED database
      \/ End(q, "refused") /\ UNCHANGED database
      \/ /\ Exists(r.target)
         /\ r.edit.entries # Keep => ~Taken(r.target, r.edit.entries)
         /\ catalogue' = [catalogue EXCEPT ![r.target].endpoint = Or(r.edit.endpoint, @),
                                           ![r.target].active = Or(r.edit.active, @)]
         /\ entries' = IF r.edit.entries = Keep THEN entries ELSE Replaced(r.target, r.edit.entries)
         /\ Saved(q)
         /\ UNCHANGED <<accounts, proved, mixed>>
  BY DEF WriteProvider, r
<1> QED BY <1>1, <1>2, <1>4, <1>5 DEF r

LEMMA WritingProvider ==
  ASSUME TypeInv, NEW q \in Request, WriteProvider(q)
  PROVE  TypeOK' /\ RequestsOK'
<1> DEFINE r == request[q]
<1>1. r \in ProviderCalls /\ r.edit \in ProviderEdits /\ r.step = "write" /\ r.target \in Provider
  BY EditsWritten, Steps
<1>2. RowsStay
  BY EditsWritten, SameRows DEF database
<1>3. ASSUME UNCHANGED database, End(q, "failed") \/ End(q, "refused")
      PROVE  TypeOK' /\ RequestsOK'
  BY <1>1, <1>2, <1>3, Kept, Ending DEF TypeInv
<1>4. ASSUME catalogue[r.target] \in Profile,
             catalogue' = [catalogue EXCEPT ![r.target] = Edited(catalogue[r.target], r.edit)],
             entries' = IF r.edit.entries = Keep THEN entries ELSE Replaced(r.target, r.edit.entries),
             Saved(q), UNCHANGED <<accounts, proved, mixed>>
      PROVE  TypeOK' /\ RequestsOK'
  <2>1. Edited(catalogue[r.target], r.edit) \in Profile
    <3>1. PICK row, edit : row = catalogue[r.target] /\ edit = r.edit
      OBVIOUS
    <3>2. Edited(row, edit) \in Profile
      BY <1>1, <1>4, <3>1, EditedType
    <3> QED BY <3>1, <3>2
  <2>2. catalogue' \in [Provider -> Profile \cup {Missing}]
    BY <1>1, <1>4, <2>1 DEF TypeInv, TypeOK
  <2>3. entries' \in [Entry -> Provider \cup {NoProvider}]
    <3>1. PICK p, names : p = r.target /\ names = r.edit.entries
      OBVIOUS
    <3>2. names = Keep \/ names \in SUBSET Entry
      BY <1>1, <3>1 DEF ProviderEdits
    <3>3. entries' = IF names = Keep THEN entries ELSE Replaced(p, names)
      BY <1>4, <3>1
    <3> QED BY <1>1, <3>1, <3>2, <3>3, ReplacedType DEF TypeInv, TypeOK
  <2>4. TypeOK'
    BY <1>4, <2>2, <2>3 DEF TypeInv, TypeOK
  <2>5. RequestsOK'
    BY <1>1, <1>2, <1>4, Ending DEF Saved
  <2> QED BY <2>4, <2>5
<1> HIDE DEF r
<1> QED BY <1>3, <1>4, EditsWritten DEF r

LEMMA DeletingProvider ==
  ASSUME TypeInv, NEW q \in Request, DeleteProvider(q)
  PROVE  TypeOK' /\ RequestsOK'
<1>1. request[q].step = "write" /\ request[q].target \in Provider
  BY DEF DeleteProvider
<1>2. RowsStay
  BY SameRows DEF DeleteProvider, database
<1>3. CASE UNCHANGED database /\ End(q, "failed")
  BY <1>1, <1>2, <1>3, Kept, Ending DEF TypeInv
<1>4. CASE /\ catalogue' = [catalogue EXCEPT ![request[q].target] = Missing]
           /\ entries' = Replaced(request[q].target, {})
           /\ Saved(q)
           /\ UNCHANGED <<accounts, proved, mixed>>
  <2>1. catalogue' \in [Provider -> Profile \cup {Missing}]
    BY <1>4 DEF TypeInv, TypeOK
  <2>2. entries' \in [Entry -> Provider \cup {NoProvider}]
    BY <1>1, <1>4, ReplacedType, {} \in SUBSET Entry DEF TypeInv
  <2>3. TypeOK'
    BY <1>4, <2>1, <2>2 DEF TypeInv, TypeOK
  <2> QED BY <1>1, <1>2, <1>4, <2>3, Ending DEF Saved
<1> QED BY <1>3, <1>4 DEF DeleteProvider

LEMMA SeedingProvider ==
  ASSUME TypeInv, NEW q \in Request, NEW p \in Provider, SeedProvider(q, p)
  PROVE  TypeOK' /\ RequestsOK'
<1>1. request[q] \in SeedCalls
  BY Sorts DEF SeedProvider, TypeInv, RequestsOK
<1>2. p \in DOMAIN Seeds /\ request[q].left \subseteq DOMAIN Seeds
  BY <1>1 DEF SeedProvider, SeedCalls
<1>3. Seeds[p].endpoint \in Endpoint /\ Seeds[p].entries \in SUBSET Entry
  BY <1>2, ProvidersAssumption
<1>4. PICK b : b = IF Exists(p) THEN catalogue[p].active ELSE TRUE
  OBVIOUS
<1>5. b \in BOOLEAN
  BY <1>4, Distinct DEF Exists, TypeInv, TypeOK, Profile
<1>6. catalogue' = [catalogue EXCEPT ![p] =
                      [exists |-> TRUE, active |-> b, endpoint |-> Seeds[p].endpoint]]
  BY <1>4 DEF SeedProvider, TypeInv, TypeOK
<1>7. catalogue' \in [Provider -> Profile \cup {Missing}]
  <2>1. [exists |-> TRUE, active |-> b, endpoint |-> Seeds[p].endpoint] \in Profile
    BY <1>3, <1>5 DEF Profile
  <2> QED BY <1>6, <2>1 DEF TypeInv, TypeOK
<1>8. PICK r : r = [step |-> "seed", from |-> "api", left |-> request[q].left \ {p},
                    entries |-> {<<p, e>> : e \in Seeds[p].entries}]
  OBVIOUS
<1>9. r \in SeedCalls
  BY <1>2, <1>3, <1>8 DEF SeedCalls
<1>10. TypeOK' /\ RowsStay
  BY <1>7, SameRows DEF SeedProvider, TypeInv, TypeOK
<1>11. Wrote(q, r)
  BY <1>8 DEF SeedProvider
<1> QED BY <1>9, <1>10, <1>11, SeedCallsAre, Moving

LEMMA SeedingEntry ==
  ASSUME TypeInv, NEW q \in Request, NEW p \in Provider, NEW e \in Entry, SeedEntry(q, p, e)
  PROVE  TypeOK' /\ RequestsOK'
<1>1. request[q] \in SeedCalls
  BY Sorts DEF SeedEntry, TypeInv, RequestsOK
<1>2. PICK r : r = [request[q] EXCEPT !.entries = @ \ {<<p, e>>}]
  OBVIOUS
<1>3. r \in SeedCalls
  BY <1>1, <1>2 DEF SeedCalls
<1>4. TypeOK' /\ RowsStay
  BY SameRows DEF SeedEntry, TypeInv, TypeOK
<1>5. Wrote(q, r)
  BY <1>2 DEF SeedEntry
<1> QED BY <1>3, <1>4, <1>5, SeedCallsAre, Moving

LEMMA EndingSeed ==
  ASSUME TypeInv, NEW q \in Request, EndSeed(q)
  PROVE  TypeOK' /\ RequestsOK'
<1>1. TypeOK' /\ RowsStay
  BY Kept, SameRows DEF EndSeed, TypeInv, database
<1> QED BY <1>1, Answers, Moving DEF EndSeed

-----------------------------------------------------------------------------
(* The dialogs.                                                            *)
LEMMA SameCalls ==
  ASSUME TypeInv, UNCHANGED <<database, request>>
  PROVE  TypeOK' /\ RequestsOK'
<1>1. TypeOK' /\ RowsStay
  BY Kept, SameRows DEF TypeInv, database
<1>2. ASSUME NEW q \in Request PROVE CallOK(request[q])'
  <2>1. PICK r : r = request[q]
    OBVIOUS
  <2>2. r \in Calls /\ CallOK(r)
    BY <2>1 DEF TypeInv, RequestsOK
  <2>3. CallOK(r)'
    BY <1>1, <2>2, CallStays
  <2> QED BY <2>1, <2>3
<1> QED BY <1>1, <1>2 DEF TypeInv, RequestsOK

LEMMA Dialogs ==
  ASSUME PanelOK
  PROVE  /\ form.open => form \in Forms
         /\ ~form.open => form \in Shut
         /\ desk.open => desk \in Desks
         /\ form.opening \in Nat /\ form.sending \in BOOLEAN
         /\ desk.opening \in Nat /\ desk.sending \in BOOLEAN
         /\ lookup.step # "idle" => lookup \in Lookups
<1>1. \A f \in Forms : f.open = TRUE /\ f.opening \in Nat /\ f.sending \in BOOLEAN
  BY DEF Forms
<1>2. \A f \in Desks : f.open = TRUE /\ f.opening \in Nat /\ f.sending \in BOOLEAN
  BY DEF Desks
<1>3. \A f \in Shut : f.open = FALSE /\ f.opening \in Nat /\ f.sending \in BOOLEAN
  BY DEF Shut
<1>4. form \in Forms \cup Shut /\ desk \in Desks \cup Shut /\ lookup \in Lookups \cup {Idle}
  BY DEF PanelOK
<1>5. Idle.step = "idle"
  BY Steps
<1>6. /\ form.opening \in Nat /\ form.sending \in BOOLEAN
      /\ desk.opening \in Nat /\ desk.sending \in BOOLEAN
  BY <1>1, <1>2, <1>3, <1>4
<1>7. (form.open => form \in Forms) /\ (~form.open => form \in Shut)
  BY <1>1, <1>3, <1>4
<1>8. desk.open => desk \in Desks
  BY <1>2, <1>3, <1>4
<1>9. lookup.step # "idle" => lookup \in Lookups
  BY <1>4, <1>5
<1> QED BY <1>6, <1>7, <1>8, <1>9

LEMMA Closing ==
  ASSUME NEW n \in Nat, NEW sending \in BOOLEAN
  PROVE  Closed(n, sending) \in Shut
BY DEF Closed, Shut

(* The endpoint in force of an account is one.                             *)
LEMMA EffectiveIsEndpoint ==
  ASSUME TypeOK, LinksHold, NEW a \in Account, accounts[a] # NoAccount
  PROVE  Effective(accounts[a]) \in Endpoint
<1>1. accounts[a] \in Row /\ accounts[a].provider \in Provider \cup {NoProvider}
      /\ accounts[a].own \in Endpoint
  BY DEF TypeOK, Row
<1>2. ASSUME accounts[a].provider # NoProvider
      PROVE  catalogue[accounts[a].provider] \in Profile
  BY <1>1, <1>2, Distinct DEF LinksHold, Exists, TypeOK
<1> QED BY <1>1, <1>2 DEF Effective, Profile

LEMMA AwaitedIsBoolean ==
  ASSUME PanelOK
  PROVE  (~Awaited) \in BOOLEAN
BY DEF Awaited

LEMMA Opening ==
  ASSUME TypeInv, LinksHold, NEW a \in Account, Open(a)
  PROVE  TypeInv'
<1>1. TypeOK' /\ RequestsOK'
  BY SameCalls DEF Open, database
<1>2. form'.open /\ form' \in Forms
  <2>1. PICK n, base, services, settled, sending :
          /\ n = form.opening + 1 /\ base = accounts[a] /\ settled = ~Awaited
          /\ services = {p \in Provider : Enabled(p)} /\ sending = form.sending
    OBVIOUS
  <2>2. /\ n \in Nat /\ base \in Row \cup {NoAccount} /\ services \in SUBSET Provider
        /\ settled \in BOOLEAN /\ sending \in BOOLEAN
    BY <2>1, Dialogs, AwaitedIsBoolean DEF TypeInv, TypeOK
  <2>3. PICK p, host : /\ p \in Provider \cup {NoProvider} /\ host \in Endpoint \cup {NoEndpoint}
                       /\ form' = NewForm(a, p, host)
    <3>1. CASE accounts[a] = NoAccount /\ form' = EmptyForm(a)
      BY <3>1 DEF EmptyForm
    <3>2. CASE accounts[a] # NoAccount /\ form' = FormFromAccount(a)
      BY <3>2, EffectiveIsEndpoint DEF FormFromAccount, TypeInv, TypeOK, Row
    <3> QED BY <3>1, <3>2 DEF Open
  <2>4. form' = [open |-> TRUE, opening |-> n, account |-> a, base |-> base, provider |-> p,
                 host |-> host, services |-> services, chosen |-> Unchosen, suggested |-> {},
                 settled |-> settled, sending |-> sending]
    BY <2>1, <2>3 DEF NewForm
  <2> QED BY <2>2, <2>3, <2>4 DEF Forms
<1>3. PanelOK'
  BY <1>2 DEF Open, TypeInv, PanelOK
<1> QED BY <1>1, <1>3 DEF TypeInv

LEMMA ClosingForm ==
  ASSUME TypeInv, Close
  PROVE  TypeInv'
<1>1. TypeOK' /\ RequestsOK'
  BY SameCalls DEF Close, database
<1>2. form' \in Shut
  BY Dialogs, Closing DEF Close, TypeInv
<1>3. PanelOK'
  BY <1>2 DEF Close, TypeInv, PanelOK
<1> QED BY <1>1, <1>3 DEF TypeInv

LEMMA Choosing ==
  ASSUME TypeInv, NEW p \in Provider \cup {NoProvider}, Choose(p)
  PROVE  TypeInv'
<1>1. TypeOK' /\ RequestsOK'
  BY SameCalls DEF Choose, database
<1>2. form' = [form EXCEPT !.provider = p, !.chosen = p, !.settled = ~Awaited] /\ form \in Forms
  BY Dialogs DEF Choose, TypeInv
<1>3. form' \in Forms
  BY <1>2, AwaitedIsBoolean DEF Forms, TypeInv
<1>4. PanelOK'
  BY <1>3 DEF Choose, TypeInv, PanelOK
<1> QED BY <1>1, <1>4 DEF TypeInv

LEMMA Asking ==
  ASSUME TypeInv, NEW email \in Email, Blur(email)
  PROVE  TypeInv'
<1>1. TypeOK' /\ RequestsOK'
  BY SameCalls DEF Blur, database
<1>2. PICK n, b : n = form.opening /\ b = (form.chosen = Unchosen)
  OBVIOUS
<1>3. n \in Nat /\ b \in BOOLEAN
  BY <1>2, Dialogs DEF TypeInv
<1>4. lookup' = [step |-> "sent", email |-> email, opening |-> n, apply |-> b, found |-> NoProvider]
  BY <1>2 DEF Blur
<1>5. lookup' \in Lookups
  BY <1>3, <1>4 DEF Lookups
<1>6. PanelOK'
  BY <1>5 DEF Blur, TypeInv, PanelOK
<1> QED BY <1>1, <1>6 DEF TypeInv

(* The detection moves on, or finds a profile.                             *)
LEMMA LookupMoves ==
  ASSUME NEW l \in Lookups, NEW p \in Provider
  PROVE  /\ [l EXCEPT !.step = "answer", !.found = p] \in Lookups
         /\ [l EXCEPT !.step = "mx"] \in Lookups
         /\ [l EXCEPT !.step = "answer"] \in Lookups
BY DEF Lookups

LEMMA FoundIsProfile ==
  ASSUME TypeInv, NEW e \in Entry, OfEnabled(e)
  PROVE  entries[e] \in Provider
BY DEF OfEnabled, TypeInv, TypeOK

LEMMA LookingByDomain ==
  ASSUME TypeInv, ResolveByDomain
  PROVE  TypeInv'
<1>1. TypeOK' /\ RequestsOK'
  BY SameCalls DEF ResolveByDomain, database
<1>2. lookup \in Lookups
  BY Dialogs DEF ResolveByDomain, TypeInv
<1>3. PICK e, p : e = DomainOf[lookup.email] /\ p = entries[e]
  OBVIOUS
<1>4. e \in Entry
  BY <1>2, <1>3, ProvidersAssumption DEF Lookups
<1>5. lookup' \in Lookups
  <2>1. CASE OfEnabled(e)
    <3>1. lookup' = [lookup EXCEPT !.step = "answer", !.found = p]
      BY <1>3, <2>1 DEF ResolveByDomain
    <3>2. p \in Provider
      BY <1>3, <1>4, <2>1, FoundIsProfile
    <3>3. PICK l : l = lookup
      OBVIOUS
    <3> QED BY <1>2, <3>1, <3>2, <3>3 DEF Lookups
  <2>2. CASE ~OfEnabled(e)
    <3>1. lookup' = [lookup EXCEPT !.step = "mx"]
      BY <1>3, <2>2 DEF ResolveByDomain
    <3> QED BY <1>2, <3>1 DEF Lookups
  <2> QED BY <2>1, <2>2
<1>6. PanelOK'
  BY <1>5 DEF ResolveByDomain, TypeInv, PanelOK
<1> QED BY <1>1, <1>6 DEF TypeInv

(* The least of a set of numbers: the one below which it is smallest.      *)
Below(S, i) == {k \in S : k <= i}
LEMMA FirstIsLeast ==
  ASSUME NEW S \in SUBSET Nat, S # {}
  PROVE  First(S) \in S
<1> DEFINE T == {Below(S, i) : i \in S}
<1>1. T \subseteq FiniteSubsetsOf(S) /\ T # {}
  <2>1. ASSUME NEW i \in S PROVE Below(S, i) \in SUBSET S /\ IsFiniteSet(Below(S, i))
    <3>1. Below(S, i) \in SUBSET Nat /\ (\A k \in Below(S, i) : k <= i) /\ i \in Nat
      BY DEF Below
    <3> QED BY <3>1, FS_BoundedSetOfNaturals DEF Below
  <2> QED BY <2>1 DEF FiniteSubsetsOf
<1>2. PICK t \in T : \A u \in T : <<u, t>> \notin StrictSubsetOrdering(S)
  BY <1>1, FS_StrictSubsetOrderingWellFounded, WFMin
<1>3. PICK i \in S : t = Below(S, i)
  OBVIOUS
<1>4. ASSUME NEW j \in S, j < i PROVE FALSE
  <2>1. Below(S, j) \subseteq Below(S, i) /\ i \notin Below(S, j) /\ i \in Below(S, i)
    <3>1. i \in Nat /\ j \in Nat /\ \A k \in S : k \in Nat
      OBVIOUS
    <3>2. (\A k \in S : k <= j => k <= i) /\ ~(i <= j) /\ i <= i
      BY <1>4, <3>1
    <3> QED BY <3>2 DEF Below
  <2>2. Below(S, j) \in SUBSET S /\ Below(S, i) \in SUBSET S
    BY DEF Below
  <2>3. <<Below(S, j), Below(S, i)>> \in StrictSubsetOrdering(S)
    BY <2>1, <2>2 DEF StrictSubsetOrdering
  <2> QED BY <1>2, <1>3, <2>3
<1>5. \A j \in S : i <= j
  BY <1>4
<1> QED BY <1>5 DEF First

LEMMA LookingByMx ==
  ASSUME TypeInv, ResolveByMx
  PROVE  TypeInv'
<1>1. TypeOK' /\ RequestsOK'
  BY SameCalls DEF ResolveByMx, database
<1>2. lookup \in Lookups
  BY Dialogs DEF ResolveByMx, TypeInv
<1>3. PICK records \in {Exchanges[lookup.email], <<>>} :
        \/ lookup' = [lookup EXCEPT !.step = "answer"]
        \/ /\ Matching(records) # {}
           /\ \E e \in records[First(Matching(records))] :
                /\ OfEnabled(e)
                /\ lookup' = [lookup EXCEPT !.step = "answer", !.found = entries[e]]
  BY DEF ResolveByMx
<1>4. records \in Seq(SUBSET Entry)
  <2>1. lookup.email \in Email
    BY <1>2 DEF Lookups
  <2>2. Exchanges[lookup.email] \in Seq(SUBSET Entry)
    BY <2>1, ProvidersAssumption
  <2>3. <<>> \in Seq(SUBSET Entry)
    OBVIOUS
  <2> QED BY <2>2, <2>3
<1>5. lookup' \in Lookups
  <2>1. CASE lookup' = [lookup EXCEPT !.step = "answer"]
    BY <1>2, <2>1 DEF Lookups
  <2>2. CASE lookup' # [lookup EXCEPT !.step = "answer"]
    <3>1. Matching(records) \in SUBSET (DOMAIN records) /\ Matching(records) # {}
      BY <1>3, <2>2 DEF Matching
    <3>2. DOMAIN records \subseteq Nat
      BY <1>4
    <3>3. First(Matching(records)) \in DOMAIN records
      BY <3>1, <3>2, FirstIsLeast
    <3>4. PICK i \in DOMAIN records : i = First(Matching(records))
      BY <3>3
    <3>5. PICK e \in records[i] :
            OfEnabled(e) /\ lookup' = [lookup EXCEPT !.step = "answer", !.found = entries[e]]
      BY <1>3, <2>2, <3>4
    <3>6. e \in Entry
      BY <1>4
    <3>7. PICK p \in Provider : p = entries[e]
      BY <3>5, <3>6, FoundIsProfile
    <3>8. lookup' = [lookup EXCEPT !.step = "answer", !.found = p]
      BY <3>5, <3>7
    <3> QED BY <1>2, <3>8 DEF Lookups
  <2> QED BY <2>1, <2>2
<1>6. PanelOK'
  BY <1>5 DEF ResolveByMx, TypeInv, PanelOK
<1> QED BY <1>1, <1>6 DEF TypeInv

LEMMA AnsweringLookup ==
  ASSUME TypeInv, Detected
  PROVE  TypeInv'
<1>1. TypeOK' /\ RequestsOK'
  BY SameCalls DEF Detected, database
<1>2. lookup \in Lookups
  BY Dialogs DEF Detected, TypeInv
<1>3. CASE form.open /\ Applies
  <2>1. form \in Forms
    BY <1>3, Dialogs DEF TypeInv
  <2>2. PICK p, S : p = lookup.found /\ S = IF lookup.opening = form.opening
                                         THEN form.suggested \cup {lookup.found} ELSE form.suggested
    OBVIOUS
  <2>3. p \in Provider
    BY <1>2, <1>3, <2>2 DEF Applies, Lookups
  <2>4. S \in SUBSET Provider
    BY <2>1, <2>2, <2>3 DEF Forms
  <2>5. form' = [form EXCEPT !.provider = p, !.suggested = S]
    BY <1>3, <2>1, <2>2 DEF Detected, Forms
  <2>6. form' \in Forms
    BY <2>1, <2>3, <2>4, <2>5 DEF Forms
  <2> QED BY <1>1, <2>6 DEF Detected, TypeInv, PanelOK
<1>4. CASE ~(form.open /\ Applies)
  <2>1. form' = form /\ lookup' = Idle /\ desk' = desk
    BY <1>4 DEF Detected
  <2> QED BY <1>1, <2>1 DEF TypeInv, PanelOK
<1> QED BY <1>3, <1>4

LEMMA FormFields ==
  ASSUME TypeInv, form.open, NEW host \in Fields
  PROVE  /\ form.account \in Account /\ form.base \in Row \cup {NoAccount}
         /\ form.provider \in Provider \cup {NoProvider}
         /\ host \in Endpoint \cup {NoEndpoint}
<1>1. form \in Forms
  BY Dialogs DEF TypeInv
<1> QED BY <1>1 DEF Forms, Fields

(* What a form sends is what it aims at.                                   *)
LEMMA AimOfForm ==
  ASSUME TypeInv, form.open, NEW host \in Fields,
         form.provider = NoProvider => host # NoEndpoint,
         NEW aim, aim = Aim(host), NEW w
  PROVE  /\ aim \in Aims
         /\ form.base = NoAccount =>
              AimOK(AccountCall(form.account, NoAccount, form.provider,
                      IF form.provider = NoProvider THEN host ELSE Keep, w, aim))
         /\ \A base : form.base # NoAccount /\ base # NoAccount =>
              AimOK(AccountCall(form.account, base, Link, Host(host), w, aim))
<1>1. /\ form.base \in Row \cup {NoAccount} /\ form.provider \in Provider \cup {NoProvider}
      /\ host \in Endpoint \cup {NoEndpoint}
  BY FormFields
<1>2. aim = [base |-> form.base, provider |-> form.provider, endpoint |-> host]
  BY DEF Aim
<1>3. aim \in Aims /\ aim.base = form.base /\ aim.provider = form.provider /\ aim.endpoint = host
  BY <1>1, <1>2 DEF Aims
<1>4. form.provider = NoProvider => host \in Endpoint
  BY <1>1
<1>5. ASSUME form.base = NoAccount
      PROVE  AimOK(AccountCall(form.account, NoAccount, form.provider,
                     IF form.provider = NoProvider THEN host ELSE Keep, w, aim))
  <2>1. PICK r : r = AccountCall(form.account, NoAccount, form.provider,
                       IF form.provider = NoProvider THEN host ELSE Keep, w, aim)
    OBVIOUS
  <2>2. /\ r.base = NoAccount /\ r.link = form.provider /\ r.aim = aim
        /\ r.host = IF form.provider = NoProvider THEN host ELSE Keep
    BY <2>1 DEF AccountCall
  <2> QED BY <1>3, <1>4, <2>1, <2>2 DEF AimOK
<1>6. ASSUME NEW base, form.base # NoAccount, base # NoAccount
      PROVE  AimOK(AccountCall(form.account, base, Link, Host(host), w, aim))
  <2>1. PICK r : r = AccountCall(form.account, base, Link, Host(host), w, aim)
    OBVIOUS
  <2>2. r.base = base /\ r.link = Link /\ r.aim = aim /\ r.host = Host(host)
    BY <2>1 DEF AccountCall
  <2>3. AimOK(r)
    BY <1>3, <1>4, <1>6, <2>2 DEF AimOK, Link, Host
  <2> QED BY <2>1, <2>3
<1> QED BY <1>3, <1>5, <1>6

LEMMA Submitting ==
  ASSUME TypeInv, NEW q \in Request, NEW host \in Fields, NEW w \in Password \cup {Keep},
         Submit(q, host, w)
  PROVE  TypeInv'
<1>1. /\ form.account \in Account /\ form.base \in Row \cup {NoAccount}
      /\ form.provider \in Provider \cup {NoProvider} /\ host \in Endpoint \cup {NoEndpoint}
      /\ form.open /\ (form.provider = NoProvider => host # NoEndpoint)
  BY FormFields DEF Submit
<1>2. PICK aim, a, p : aim = Aim(host) /\ a = form.account /\ p = form.provider
  OBVIOUS
<1>3. aim \in Aims
  BY <1>1, <1>2, AimOfForm
<1>4. TypeOK' /\ RequestsOK'
  <2>1. ASSUME form.base = NoAccount, w # Keep,
               Create(q, form.account, form.provider,
                      IF form.provider = NoProvider THEN host ELSE Keep, w, Aim(host))
        PROVE  TypeOK' /\ RequestsOK'
    <3>1. PICK h : h = IF p = NoProvider THEN host ELSE Keep
      OBVIOUS
    <3>2. h \in Endpoint \cup {Keep} /\ w \in Password
      BY <1>1, <1>2, <2>1, <3>1
    <3>3. AimOK(AccountCall(a, NoAccount, p, h, w, aim))
      BY <1>1, <1>2, <2>1, <3>1, AimOfForm
    <3>4. Create(q, a, p, h, w, aim)
      BY <1>2, <2>1, <3>1
    <3> QED BY <1>1, <1>2, <1>3, <3>2, <3>3, <3>4, Creating
  <2>2. ASSUME form.base # NoAccount, Update(q, form.account, Link, Host(host), w, Aim(host))
        PROVE  TypeOK' /\ RequestsOK'
    <3>1. PICK l, h : l = Link /\ h = Host(host)
      OBVIOUS
    <3>2. l \in Provider \cup {NoProvider, Keep} /\ h \in Endpoint \cup {Keep}
      BY <1>1, <3>1 DEF Link, Host, Changed
    <3>3. AimOK(AccountCall(a, accounts[a], l, h, w, aim))
      BY <1>1, <1>2, <2>2, <3>1, AimOfForm DEF Update
    <3>4. Update(q, a, l, h, w, aim)
      BY <1>2, <2>2, <3>1
    <3> QED BY <1>1, <1>2, <1>3, <3>2, <3>3, <3>4, Updating
  <2> QED BY <2>1, <2>2 DEF Submit
<1>5. form' \in Forms
  <2>1. form \in Forms /\ form' = [form EXCEPT !.sending = TRUE]
    BY Dialogs DEF Submit, TypeInv
  <2> QED BY <2>1 DEF Forms
<1>6. PanelOK'
  BY <1>5 DEF Submit, TypeInv, PanelOK
<1> QED BY <1>4, <1>6 DEF TypeInv

LEMMA Receiving ==
  ASSUME TypeInv, NEW q \in Request, Answered(q)
  PROVE  TypeInv'
<1>1. TypeOK' /\ RowsStay
  BY Kept, SameRows DEF Answered, TypeInv, database
<1>2. request[q] \in Outcomes
  BY Sorts DEF Answered, TypeInv, RequestsOK
<1>3. PICK r : r = IF request[q].step = "failed" THEN [request[q] EXCEPT !.from = "api"] ELSE Done
  OBVIOUS
<1>4. r \in Calls /\ CallOK(r)
  <2>1. r \in Outcomes \cup {Done}
    BY <1>2, <1>3 DEF Outcomes, Anyone
  <2> QED BY <2>1, Answers
<1>5. request' = [request EXCEPT ![q] = r]
  BY <1>3 DEF Answered, Forgotten, TypeInv, RequestsOK
<1>6. RequestsOK'
  BY <1>1, <1>4, <1>5, Moving
<1>7. form' = After(q, form) => form' \in Forms \cup Shut
  <2>1. form.opening \in Nat /\ form \in Forms \cup Shut
    BY Dialogs DEF TypeInv, PanelOK
  <2>2. [form EXCEPT !.sending = FALSE] \in Forms \cup Shut
    BY <2>1 DEF Forms, Shut
  <2> QED BY <2>1, <2>2, Closing DEF After
<1>8. desk' = After(q, desk) => desk' \in Desks \cup Shut
  <2>1. desk.opening \in Nat /\ desk \in Desks \cup Shut
    BY Dialogs DEF TypeInv, PanelOK
  <2>2. [desk EXCEPT !.sending = FALSE] \in Desks \cup Shut
    BY <2>1 DEF Desks, Shut
  <2> QED BY <2>1, <2>2, Closing DEF After
<1>9. PanelOK'
  BY <1>7, <1>8 DEF Answered, TypeInv, PanelOK
<1> QED BY <1>1, <1>6, <1>9 DEF TypeInv

LEMMA LinkedIsFinite ==
  ASSUME NEW p
  PROVE  IsFiniteSet(Linked(p)) /\ Cardinality(Linked(p)) \in Nat
<1>1. Linked(p) \in SUBSET Account
  BY DEF Linked
<1> QED BY <1>1, ProvidersAssumption, FS_Subset, FS_CardinalityType

LEMMA OpeningDesk ==
  ASSUME TypeInv, NEW p \in Provider, OpenProvider(p)
  PROVE  TypeInv'
<1>1. TypeOK' /\ RequestsOK'
  BY SameCalls DEF OpenProvider, database
<1>2. PICK usage \in {0, Cardinality(Linked(p))} :
        desk' = [open |-> TRUE, opening |-> desk.opening + 1, provider |-> p,
                 base |-> catalogue[p], usage |-> usage, sending |-> desk.sending]
  BY DEF OpenProvider
<1>3. PICK n, base, sending : n = desk.opening + 1 /\ base = catalogue[p] /\ sending = desk.sending
  OBVIOUS
<1>4. n \in Nat /\ base \in Profile /\ sending \in BOOLEAN /\ usage \in Nat
  BY <1>3, Dialogs, Distinct, LinkedIsFinite DEF OpenProvider, Exists, TypeInv, TypeOK
<1>5. desk' \in Desks
  BY <1>2, <1>3, <1>4 DEF Desks
<1>6. PanelOK'
  BY <1>5 DEF OpenProvider, TypeInv, PanelOK
<1> QED BY <1>1, <1>6 DEF TypeInv

LEMMA ClosingDesk ==
  ASSUME TypeInv, CloseProvider
  PROVE  TypeInv'
<1>1. TypeOK' /\ RequestsOK'
  BY SameCalls DEF CloseProvider, database
<1>2. desk' \in Shut
  BY Dialogs, Closing DEF CloseProvider, TypeInv
<1>3. PanelOK'
  BY <1>2 DEF CloseProvider, TypeInv, PanelOK
<1> QED BY <1>1, <1>3 DEF TypeInv

LEMMA SavingProvider ==
  ASSUME TypeInv, NEW q \in Request, NEW endpoint \in Endpoint, NEW active \in BOOLEAN,
         NEW names \in SUBSET Entry, SaveProvider(q, endpoint, active, names)
  PROVE  TypeInv'
<1>1. desk \in Desks
  BY Dialogs DEF SaveProvider, TypeInv
<1>2. PICK p, n : p = desk.provider /\ n = Confirmation(endpoint)
  OBVIOUS
<1>3. p \in Provider /\ n \in Nat \cup {Keep}
  BY <1>1, <1>2 DEF Desks, Confirmation
<1>4. PICK edit : edit = [endpoint |-> endpoint, active |-> active, entries |-> names, confirm |-> n]
  OBVIOUS
<1>5. edit \in ProviderEdits
  BY <1>3, <1>4 DEF ProviderEdits
<1>6. UpdateProvider(q, p, edit, "desk")
  BY <1>2, <1>4 DEF SaveProvider
<1>7. TypeOK' /\ RequestsOK'
  BY <1>3, <1>5, <1>6, Editing
<1>8. desk' = [desk EXCEPT !.sending = TRUE]
  BY DEF SaveProvider
<1>9. desk' \in Desks
  BY <1>1, <1>8 DEF Desks
<1>10. PanelOK'
  BY <1>9 DEF SaveProvider, TypeInv, PanelOK
<1> QED BY <1>7, <1>10 DEF TypeInv

-----------------------------------------------------------------------------
(* Types are kept, as long as the foreign keys hold.                       *)
LEMMA ApiTypes ==
  ASSUME TypeInv, NEW q \in Request, Api(q)
  PROVE  TypeInv'
<1>1. UNCHANGED panel
  BY DEF Api, RemoveAccount, CreateProvider, RemoveProvider, StartSeed, panel
<1>2. PanelOK'
  BY <1>1 DEF TypeInv, PanelOK, panel
<1>3. TypeOK' /\ RequestsOK'
  <2>1. ASSUME NEW a \in Account, NEW p \in Provider, NEW w \in Password, Create(q, a, p, Keep, w, Keep)
        PROVE  TypeOK' /\ RequestsOK'
    BY <2>1, Creating
  <2>2. ASSUME NEW a \in Account, NEW host \in Endpoint \cup {Keep}, NEW w \in Password,
               Create(q, a, NoProvider, host, w, Keep)
        PROVE  TypeOK' /\ RequestsOK'
    BY <2>2, Creating
  <2>3. ASSUME NEW a \in Account, NEW patch \in Patches,
               Update(q, a, patch.link, patch.host, patch.password, Keep)
        PROVE  TypeOK' /\ RequestsOK'
    <3>1. PICK l, h, w : l = patch.link /\ h = patch.host /\ w = patch.password
      OBVIOUS
    <3>2. /\ l \in Provider \cup {NoProvider, Keep} /\ h \in Endpoint \cup {Keep}
          /\ w \in Password \cup {Keep}
      BY <3>1, ProvidersAssumption
    <3>3. Update(q, a, l, h, w, Keep)
      BY <2>3, <3>1
    <3> QED BY <3>2, <3>3, Updating
  <2>4. ASSUME NEW a \in Account, RemoveAccount(q, a) PROVE TypeOK' /\ RequestsOK'
    BY <2>4, RemovingAccount
  <2>5. ASSUME NEW p \in Provider, NEW endpoint \in Endpoint, NEW names \in SUBSET Entry,
               CreateProvider(q, p, endpoint, names)
        PROVE  TypeOK' /\ RequestsOK'
    BY <2>5, CreatingProvider
  <2>6. ASSUME NEW p \in Provider, NEW edit \in Edits, UpdateProvider(q, p, edit, "api")
        PROVE  TypeOK' /\ RequestsOK'
    <3>1. edit \in ProviderEdits
      BY ProvidersAssumption DEF ProviderEdits
    <3> QED BY <2>6, <3>1, Editing
  <2>7. ASSUME NEW p \in Provider, RemoveProvider(q, p) PROVE TypeOK' /\ RequestsOK'
    BY <2>7, RemovingProvider
  <2>8. ASSUME StartSeed(q) PROVE TypeOK' /\ RequestsOK'
    BY <2>8, StartingSeed
  <2> QED BY <2>1, <2>2, <2>3, <2>4, <2>5, <2>6, <2>7, <2>8 DEF Api
<1> QED BY <1>2, <1>3 DEF TypeInv

LEMMA ServerTypes ==
  ASSUME TypeInv, NEW q \in Request, Server(q)
  PROVE  TypeInv'
<1>1. UNCHANGED panel
  BY DEF Server, ResolveWriteEndpoint, LoginFails, WriteAccount, CountTenant, Counted,
         WriteProvider, DeleteProvider, SeedProvider, SeedEntry, EndSeed, panel
<1>2. PanelOK'
  BY <1>1 DEF TypeInv, PanelOK, panel
<1>3. TypeOK' /\ RequestsOK'
  BY Resolving, FailingLogin, WritingAccount, CountingTenant, ConfirmingCount, WritingProvider,
     DeletingProvider, SeedingProvider, SeedingEntry, EndingSeed DEF Server
<1> QED BY <1>2, <1>3 DEF TypeInv

LEMMA DialogTypes ==
  ASSUME TypeInv, LinksHold, Dialog
  PROVE  TypeInv'
BY Opening, ClosingForm, Choosing, Asking, LookingByDomain, LookingByMx, AnsweringLookup,
   Submitting, SavingProvider, Receiving, OpeningDesk, ClosingDesk DEF Dialog

LEMMA TypeStep ==
  ASSUME TypeInv, LinksHold, [Next]_vars
  PROVE  TypeInv'
<1>1. CASE UNCHANGED vars
  <2>1. TypeOK' /\ RequestsOK'
    BY <1>1, SameCalls DEF vars, database
  <2>2. PanelOK'
    BY <1>1 DEF vars, TypeInv, PanelOK
  <2> QED BY <2>1, <2>2 DEF TypeInv
<1> QED BY <1>1, ApiTypes, ServerTypes, DialogTypes DEF Next

LEMMA TypeInit ==
  ASSUME Init
  PROVE  TypeInv /\ LinksHold
<1>1. PICK world \in Worlds :
        /\ catalogue = world.catalogue
        /\ entries = world.entries
        /\ accounts = world.accounts
        /\ proved = [a \in Account |-> {<<row.own, row.password>> :
                       row \in {world.accounts[a]} \ {NoAccount}}]
  BY DEF Init
<1>2. /\ catalogue \in [Provider -> Profile \cup {Missing}]
      /\ entries \in [Entry -> Provider \cup {NoProvider}]
      /\ accounts \in [Account -> Row \cup {NoAccount}]
  BY <1>1, ProvidersAssumption
<1>3. proved \in [Account -> SUBSET (Endpoint \X Password)]
  <2>1. ASSUME NEW a \in Account, NEW row \in {world.accounts[a]} \ {NoAccount}
        PROVE  <<row.own, row.password>> \in Endpoint \X Password
    BY <1>1, <1>2, <2>1 DEF Row
  <2> QED BY <1>1, <2>1
<1>4. TypeOK
  BY <1>2, <1>3 DEF TypeOK, Init
<1>5. PanelOK
  BY Closing DEF Init, PanelOK
<1>6. RequestsOK
  BY Answers DEF Init, RequestsOK
<1>7. LinksHold
  BY <1>1, <1>2, WorldsAssumption DEF LinksHold, Exists
<1> QED BY <1>4, <1>5, <1>6, <1>7 DEF TypeInv

-----------------------------------------------------------------------------
(* The steps that write the database.                                      *)
Writers(q) ==
  \/ \E a \in Account : RemoveAccount(q, a)
  \/ \E p \in Provider, endpoint \in Endpoint, names \in SUBSET Entry :
       CreateProvider(q, p, endpoint, names)
  \/ WriteAccount(q) \/ WriteProvider(q) \/ DeleteProvider(q)
  \/ \E p \in Provider : SeedProvider(q, p) \/ \E e \in Entry : SeedEntry(q, p, e)

LEMMA WhoWrites ==
  ASSUME [Next]_vars
  PROVE  UNCHANGED database \/ \E q \in Request : Writers(q)
<1>1. CASE UNCHANGED vars
  BY <1>1 DEF vars, database
<1>2. ASSUME NEW q \in Request, Api(q)
      PROVE  UNCHANGED database \/ Writers(q)
  BY <1>2 DEF Api, Writers, Create, Update, UpdateProvider, RemoveProvider, StartSeed
<1>3. ASSUME NEW q \in Request, Server(q)
      PROVE  UNCHANGED database \/ Writers(q)
  BY <1>3 DEF Server, Writers, ResolveWriteEndpoint, LoginFails, CountTenant, Counted, EndSeed
<1>4. CASE Dialog
  BY <1>4 DEF Dialog, Open, Close, Choose, Blur, ResolveByDomain, ResolveByMx, Detected, Submit,
     Create, Update, SaveProvider, UpdateProvider, Answered, OpenProvider, CloseProvider, database
<1> QED BY <1>1, <1>2, <1>3, <1>4 DEF Next

(* The row a call has written, with what guards it.                        *)
LEMMA AccountsWritten ==
  ASSUME TypeInv, NEW q \in Request, WriteAccount(q)
  PROVE  LET r == request[q] IN
         /\ r \in AccountCalls /\ CallOK(r) /\ r.step = "write" /\ r.target \in Account
         /\ UNCHANGED <<catalogue, entries>>
         /\ \/ UNCHANGED database /\ (End(q, "refused") \/ End(q, "saved"))
            \/ /\ UNCHANGED database /\ End(q, "failed")
               /\ NextProvider(r) # NoProvider /\ ~Exists(NextProvider(r))
            \/ /\ NextProvider(r) = NoProvider \/ Exists(NextProvider(r))
               /\ r.base = NoAccount => accounts[r.target] = NoAccount
               /\ accounts' = [accounts EXCEPT ![r.target] = NewRow(r)]
               /\ proved' = [proved EXCEPT ![r.target] = @ \cup {<<r.endpoint, LoginPassword(r)>>}]
               /\ mixed' = IF r.base = accounts[r.target] THEN mixed \ {r.target}
                           ELSE mixed \cup {r.target}
               /\ Saved(q)
<1>1. /\ request[q] \in AccountCalls /\ CallOK(request[q]) /\ request[q].step = "write"
      /\ request[q].target \in Account
  BY Targets DEF WriteAccount, TypeInv, RequestsOK
<1> QED BY <1>1 DEF WriteAccount, database

LEMMA LinksStep ==
  ASSUME TypeInv, LinksHold, [Next]_vars
  PROVE  LinksHold'
<1>1. CASE UNCHANGED database
  BY <1>1 DEF LinksHold, Exists, database
<1>2. ASSUME NEW q \in Request, NEW a \in Account, RemoveAccount(q, a)
      PROVE  LinksHold'
  <2>1. accounts \in [Account -> Row \cup {NoAccount}] /\ accounts[a] \in Row
    BY <1>2 DEF RemoveAccount, TypeInv, TypeOK
  <2>2. accounts' = [accounts EXCEPT ![a] = [accounts[a] EXCEPT !.state = "deleted"]]
    BY <1>2, <2>1 DEF RemoveAccount
  <2>3. [accounts[a] EXCEPT !.state = "deleted"].provider = accounts[a].provider
    BY <2>1 DEF Row
  <2>4. \A b \in Account : accounts[b] # NoAccount => accounts'[b].provider = accounts[b].provider
    BY <2>1, <2>2, <2>3
  <2>5. \A b \in Account : accounts[b] = NoAccount => accounts'[b] = NoAccount
    BY <1>2, <2>1, <2>2 DEF RemoveAccount
  <2> QED BY <1>2, <2>4, <2>5 DEF LinksHold, Exists, RemoveAccount
<1>3. ASSUME NEW q \in Request, NEW p \in Provider, NEW endpoint \in Endpoint,
             NEW names \in SUBSET Entry, CreateProvider(q, p, endpoint, names)
      PROVE  LinksHold'
  <2>1. \A x \in Provider : catalogue'[x].exists <=> (x = p \/ catalogue[x].exists)
    BY <1>3 DEF CreateProvider, TypeInv, TypeOK
  <2> QED BY <1>3, <2>1 DEF CreateProvider, LinksHold, Exists, Replaced, TypeInv, TypeOK, Row
<1>4. ASSUME NEW q \in Request, WriteAccount(q)
      PROVE  LinksHold'
  <2>1. PICK r : r = request[q]
    OBVIOUS
  <2>2. r \in AccountCalls /\ CallOK(r) /\ r.step = "write" /\ r.target \in Account
    BY <1>4, <2>1, AccountsWritten
  <2>3. NewRow(r).provider = NextProvider(r)
    BY <2>2, RowWritten DEF TypeInv
  <2>4. CASE /\ NextProvider(r) = NoProvider \/ Exists(NextProvider(r))
             /\ accounts' = [accounts EXCEPT ![r.target] = NewRow(r)]
    <3>1. UNCHANGED <<catalogue, entries>>
      BY <1>4, AccountsWritten
    <3> QED BY <2>2, <2>3, <2>4, <3>1 DEF LinksHold, Exists, TypeInv, TypeOK
  <2> QED BY <1>1, <1>4, <2>1, <2>4, AccountsWritten
<1>5. ASSUME NEW q \in Request, WriteProvider(q)
      PROVE  LinksHold'
  <2>1. PICK p, edit : p = request[q].target /\ edit = request[q].edit
    OBVIOUS
  <2>2. p \in Provider /\ edit \in ProviderEdits
    BY <1>5, <2>1, EditsWritten, Steps
  <2>3. CASE /\ catalogue[p] \in Profile
             /\ catalogue' = [catalogue EXCEPT ![p] = Edited(catalogue[p], edit)]
             /\ entries' = IF edit.entries = Keep THEN entries ELSE Replaced(p, edit.entries)
             /\ UNCHANGED accounts
    <3>1. PICK row : row = catalogue[p]
      OBVIOUS
    <3>2. Edited(row, edit) \in Profile
      BY <2>2, <2>3, <3>1, EditedType
    <3>3. \A x \in Provider : Exists(x) => Exists(x)'
      BY <2>2, <2>3, <3>1, <3>2, Distinct DEF Exists, TypeInv, TypeOK
    <3>4. Exists(p)'
      BY <2>2, <2>3, <3>1, <3>2, Distinct DEF Exists, TypeInv, TypeOK
    <3>5. \A e \in Entry : entries'[e] \in {entries[e], p, NoProvider}
      BY <2>3 DEF Replaced
    <3> QED BY <2>2, <2>3, <3>3, <3>4, <3>5 DEF LinksHold, TypeInv, TypeOK, Row
  <2> QED BY <1>1, <1>5, <2>1, <2>3, EditsWritten
<1>6. ASSUME NEW q \in Request, DeleteProvider(q)
      PROVE  LinksHold'
  <2>1. PICK p \in Provider : p = request[q].target
    BY <1>6 DEF DeleteProvider
  <2>2. CASE /\ Linked(p) = {}
             /\ catalogue' = [catalogue EXCEPT ![p] = Missing]
             /\ entries' = Replaced(p, {})
             /\ UNCHANGED accounts
    <3>1. \A x \in Provider \ {p} : Exists(x)' <=> Exists(x)
      BY <2>2 DEF Exists, TypeInv, TypeOK
    <3>2. \A e \in Entry : entries'[e] = IF entries[e] = p THEN NoProvider ELSE entries[e]
      BY <2>2 DEF Replaced
    <3>3. \A a \in Account : accounts[a] # NoAccount => accounts[a].provider # p
      BY <2>2 DEF Linked
    <3> QED BY <2>2, <3>1, <3>2, <3>3 DEF LinksHold, TypeInv, TypeOK, Row
  <2> QED BY <1>1, <1>6, <2>1, <2>2 DEF DeleteProvider
<1>7. ASSUME NEW q \in Request, NEW p \in Provider, SeedProvider(q, p)
      PROVE  LinksHold'
  <2>1. \A x \in Provider : catalogue'[x].exists <=> (x = p \/ catalogue[x].exists)
    BY <1>7 DEF SeedProvider, TypeInv, TypeOK
  <2> QED BY <1>7, <2>1 DEF SeedProvider, LinksHold, Exists, TypeInv, TypeOK, Row
<1>8. ASSUME NEW q \in Request, NEW p \in Provider, NEW e \in Entry, SeedEntry(q, p, e)
      PROVE  LinksHold'
  BY <1>8 DEF SeedEntry, LinksHold, Exists, TypeInv, TypeOK
<1> QED BY <1>1, <1>2, <1>3, <1>4, <1>5, <1>6, <1>7, <1>8, WhoWrites DEF Writers

(* The rows keep their types in every reachable state.                     *)
THEOREM ProvidersTypes ==
  Spec => []TypeOK
<1>1. TypeInv /\ LinksHold /\ [Next]_vars => (TypeInv /\ LinksHold)'
  BY TypeStep, LinksStep
<1>2. Init => TypeInv /\ LinksHold
  BY TypeInit
<1>3. TypeInv => TypeOK
  BY DEF TypeInv
<1> QED BY <1>1, <1>2, <1>3, PTL DEF Spec

(* No account, deleted or not, is ever linked to a profile that is gone,   *)
(* and no entry of the detection leads to one, whatever the requests, the  *)
(* deletions and the seed script interleave (schema.prisma).               *)
THEOREM LinksAlwaysHold ==
  Spec => []LinksHold
<1>1. TypeInv /\ LinksHold /\ [Next]_vars => (TypeInv /\ LinksHold)'
  BY TypeStep, LinksStep
<1>2. Init => TypeInv /\ LinksHold
  BY TypeInit
<1> QED BY <1>1, <1>2, PTL DEF Spec

-----------------------------------------------------------------------------
(* What a request knows of the rows it has read.                           *)
LEMMA NoFacts ==
  ASSUME NEW r, r \in SeedCalls \cup {Idle, Done} \cup {o \in Outcomes : o.step = "failed" => o.raced}
  PROVE  Facts(r)
<1>1. r \notin AccountCalls \cup ProviderCalls
  BY Steps
<1>2. r \in Outcomes /\ r.step = "failed" => r.raced
  BY Steps
<1> QED BY <1>1, <1>2 DEF Facts

LEMMA SameFacts ==
  ASSUME UNCHANGED <<catalogue, accounts>>, NEW r, Facts(r)
  PROVE  Facts(r)'
<1>1. \A p : Linked(p)' = Linked(p) /\ Exists(p)' = Exists(p)
  BY DEF Linked, Exists
<1>2. CountedOf(r)' = CountedOf(r)
  BY <1>1 DEF CountedOf
<1>3. AccountFacts(r)' <=> AccountFacts(r)
  BY <1>1 DEF AccountFacts, NextProvider
<1>4. ProviderFacts(r)' <=> ProviderFacts(r)
  BY <1>1, <1>2 DEF ProviderFacts, Confirmed
<1> QED BY <1>3, <1>4 DEF Facts

(* The others keep what they know when nobody writes, and are told when    *)
(* somebody does.                                                          *)
LEMMA FactsFrame ==
  ASSUME TypeInv, AllFacts,
         NEW q \in Request, NEW r \in Calls, RowsStay, CallOK(r), Facts(r)',
         \/ UNCHANGED <<catalogue, accounts>> /\ request' = [request EXCEPT ![q] = r]
         \/ Wrote(q, r)
  PROVE  AllFacts'
<1>1. request'[q] = r /\ Others(q) /\ request \in [Request -> Calls]
  BY Moving DEF TypeInv, RequestsOK
<1>2. CASE UNCHANGED <<catalogue, accounts>> /\ request' = [request EXCEPT ![q] = r]
  <2>1. ASSUME NEW x \in Request, x # q PROVE Facts(request[x])'
    <3>1. PICK s : s = request[x]
      OBVIOUS
    <3>2. s = request'[x] /\ Facts(s)
      BY <1>1, <1>2, <2>1, <3>1 DEF AllFacts
    <3>3. Facts(s)'
      BY <1>2, <3>2, SameFacts
    <3> QED BY <3>2, <3>3
  <2> QED BY <1>1, <2>1 DEF AllFacts
<1>3. CASE Wrote(q, r)
  <2>1. ASSUME NEW x \in Request, x # q PROVE Facts(request[x])'
    <3>1. PICK s : s = request[x]
      OBVIOUS
    <3>2. s \in Calls /\ Facts(s)
      BY <1>1, <3>1 DEF AllFacts
    <3>3. CASE InFlight(x)
      <4>1. request'[x] = Raced(s)
        BY <1>1, <1>3, <2>1, <3>1, <3>3, Loudly
      <4>2. PICK t : t = Raced(s)
        OBVIOUS
      <4>3. t \in Calls /\ t.raced /\ t.step \in {"resolve", "count", "write"}
        BY <3>1, <3>2, <3>3, <4>2, RacedCalls DEF InFlight
      <4>4. Facts(t)'
        <5>1. t \notin Outcomes
          BY <4>3, Steps
        <5> QED BY <4>3, <5>1 DEF Facts, AccountFacts, ProviderFacts
      <4> QED BY <4>1, <4>2, <4>4
    <3>4. CASE ~InFlight(x)
      <4>1. request'[x] = s
        BY <1>3, <2>1, <3>1, <3>4 DEF Wrote
      <4>2. s \notin AccountCalls \cup ProviderCalls
        BY <3>1, <3>4, Steps DEF InFlight
      <4>3. Facts(s)'
        BY <3>2, <4>2 DEF Facts
      <4> QED BY <4>1, <4>3
    <3> QED BY <3>3, <3>4
  <2> QED BY <1>1, <2>1 DEF AllFacts
<1> QED BY <1>2, <1>3

LEMMA AnswerFacts ==
  ASSUME TypeInv, AllFacts, NEW q \in Request,
         request[q].step \in {"resolve", "count", "write"},
         NEW outcome \in {"saved", "refused", "failed"},
         outcome = "failed" => request[q].raced, RowsStay,
         \/ UNCHANGED <<catalogue, accounts>> /\ End(q, outcome)
         \/ Wrote(q, Over(request[q], outcome))
  PROVE  AllFacts'
<1>1. PICK s, r : s = request[q] /\ r = Over(s, outcome)
  OBVIOUS
<1>2. s \in Calls /\ request \in [Request -> Calls]
  BY <1>1 DEF TypeInv, RequestsOK
<1>3. /\ r \in Calls /\ CallOK(r)
      /\ r = Done \/ (r \in Outcomes /\ (r.step = "failed" => r.raced))
  BY <1>1, <1>2, OverIsAnswer
<1>4. Facts(r)'
  <2>1. r \notin AccountCalls \cup ProviderCalls /\ (r \in Outcomes /\ r.step = "failed" => r.raced)
    BY <1>3, Steps
  <2> QED BY <2>1 DEF Facts
<1>5. \/ UNCHANGED <<catalogue, accounts>> /\ request' = [request EXCEPT ![q] = r]
      \/ Wrote(q, r)
  BY <1>1, <1>2 DEF End
<1> QED BY <1>3, <1>4, <1>5, FactsFrame

LEMMA FactlessStep ==
  ASSUME TypeInv, AllFacts, NEW q \in Request, RowsStay,
         NEW r \in SeedCalls \cup {Idle, Done} \cup {o \in Outcomes : o.step = "failed" => o.raced},
         \/ UNCHANGED <<catalogue, accounts>> /\ request' = [request EXCEPT ![q] = r]
         \/ Wrote(q, r)
  PROVE  AllFacts'
<1>1. r \in Calls /\ CallOK(r)
  BY SeedCallsAre, Answers
<1>2. Facts(r)'
  <2>1. r \notin AccountCalls \cup ProviderCalls /\ (r \in Outcomes /\ r.step = "failed" => r.raced)
    BY Steps
  <2> QED BY <2>1 DEF Facts
<1> QED BY <1>1, <1>2, FactsFrame

LEMMA AccountBegins ==
  ASSUME TypeInv, AllFacts, UNCHANGED database, NEW q \in Request, NEW a, NEW base, NEW link,
         NEW host, NEW w, NEW aim, base # NoAccount => accounts[a] = base,
         Begin(q, AccountCall(a, base, link, host, w, aim)), RequestsOK'
  PROVE  AllFacts'
<1>1. PICK r : r = AccountCall(a, base, link, host, w, aim)
  OBVIOUS
<1>2. request' = [request EXCEPT ![q] = r] /\ request \in [Request -> Calls]
  BY <1>1 DEF Begin, TypeInv, RequestsOK
<1>3. r.step = "resolve" /\ r.base = base /\ r.target = a
  BY <1>1 DEF AccountCall
<1>4. r \in Calls
  BY <1>2 DEF RequestsOK
<1>5. r \notin ProviderCalls \cup Outcomes
  BY <1>3, Steps
<1>6. Facts(r)
  BY <1>3, <1>5 DEF Facts, AccountFacts
<1>7. Facts(r)'
  BY <1>6, SameFacts DEF database
<1>8. \A x \in Request \ {q} : Facts(request[x])'
  <2> TAKE x \in Request \ {q}
  <2>1. PICK s : s = request[x]
    OBVIOUS
  <2>2. Facts(s)'
    BY <2>1, SameFacts DEF AllFacts, database
  <2>3. request'[x] = s
    BY <1>2, <2>1
  <2> QED BY <2>2, <2>3
<1>9. request'[q] = r
  BY <1>2
<1> QED BY <1>7, <1>8, <1>9 DEF AllFacts

LEMMA ProviderBegins ==
  ASSUME TypeInv, AllFacts, UNCHANGED database, NEW q \in Request, NEW p \in Provider,
         NEW first \in {"count", "write"}, NEW method \in {"PATCH", "DELETE"},
         NEW edit \in ProviderEdits \cup {Keep}, method = "PATCH" => edit \in ProviderEdits,
         NEW from \in {"api", "desk"}, Exists(p),
         first = "write" => method = "PATCH" /\ ~EndpointChanged(p, edit),
         Begin(q, ProviderCall(p, first, method, edit, from))
  PROVE  AllFacts'
<1>1. PICK r : r = ProviderCall(p, first, method, edit, from)
  OBVIOUS
<1>2. request' = [request EXCEPT ![q] = r]
  BY <1>1 DEF Begin
<1>3. /\ r.step = first /\ r.target = p /\ r.method = method /\ r.edit = edit
      /\ r.left = Tenant /\ r.count = 0
  BY <1>1 DEF ProviderCall
<1>4. r \in Calls /\ CallOK(r) /\ r \in ProviderCalls
  BY <1>1, ProviderCallsAre
<1>5. r \notin AccountCalls \cup Outcomes
  BY <1>4, Steps, ProvidersAssumption
<1>6. CountedOf(r) = {}
  BY <1>3, ProvidersAssumption DEF CountedOf, Linked
<1>7. ProviderFacts(r)
  BY <1>3, <1>6, FS_EmptySet DEF ProviderFacts, EndpointChanged
<1>8. Facts(r)
  BY <1>5, <1>7 DEF Facts
<1>9. Facts(r)' /\ RowsStay /\ UNCHANGED <<catalogue, accounts>>
  BY <1>8, SameFacts, SameRows DEF database
<1> QED BY <1>2, <1>4, <1>9, FactsFrame

LEMMA ResolvingFacts ==
  ASSUME TypeInv, AllFacts, NEW q \in Request, ResolveWriteEndpoint(q)
  PROVE  AllFacts'
<1>1. UNCHANGED <<catalogue, accounts>> /\ RowsStay
  BY SameRows DEF ResolveWriteEndpoint, database
<1>2. CASE End(q, "refused")
  BY <1>1, <1>2, AnswerFacts DEF ResolveWriteEndpoint
<1>3. CASE ~End(q, "refused")
  <2> DEFINE p == NextProvider(request[q])
  <2>1. PICK e : e = IF p = NoProvider THEN NextOwn(request[q]) ELSE catalogue[p].endpoint
    OBVIOUS
  <2>2. /\ e \in Endpoint /\ request' = [request EXCEPT ![q] = AsResolved(request[q], e)]
        /\ p # NoProvider => Enabled(p)
    BY <1>3, <2>1, Resolved
  <2>3. PICK r : r = request[q]
    OBVIOUS
  <2>4. r \in AccountCalls /\ CallOK(r) /\ Facts(r)
    BY <2>3, Sorts DEF ResolveWriteEndpoint, TypeInv, RequestsOK, AllFacts
  <2>5. PICK s : s = AsResolved(r, e)
    OBVIOUS
  <2>6. /\ s \in Calls /\ s \in AccountCalls /\ CallOK(s) /\ s.raced = r.raced /\ s.base = r.base
        /\ s.target = r.target /\ NextProvider(s) = NextProvider(r)
    BY <2>1, <2>2, <2>3, <2>4, <2>5, ResolvedCalls
  <2>7. s \notin ProviderCalls \cup Outcomes
    BY <2>6, Steps, ProvidersAssumption
  <2>8. AccountFacts(s)
    BY <2>2, <2>3, <2>4, <2>6 DEF Facts, AccountFacts, Enabled
  <2>9. Facts(s)
    BY <2>7, <2>8 DEF Facts
  <2>10. Facts(s)'
    BY <1>1, <2>9, SameFacts
  <2>11. request' = [request EXCEPT ![q] = s]
    BY <2>2, <2>3, <2>5
  <2> QED BY <1>1, <2>6, <2>10, <2>11, FactsFrame
<1> QED BY <1>2, <1>3

(* One more tenant has been counted.                                       *)
LEMMA CountGrows ==
  ASSUME NEW r \in ProviderCalls, NEW t \in r.left, r.count = Cardinality(CountedOf(r)),
         NEW s, s.target = r.target, s.left = r.left \ {t},
         s.count = r.count + UsedIn(t, r.target)
  PROVE  s.count = Cardinality(CountedOf(s))
<1> DEFINE new == {a \in Linked(r.target) : TenantOf[a] = t}
<1>1. CountedOf(s) = CountedOf(r) \cup new
  BY DEF CountedOf
<1>2. CountedOf(r) \cap new = {}
  BY DEF CountedOf
<1>3. IsFiniteSet(CountedOf(r)) /\ IsFiniteSet(new)
  <2>1. CountedOf(r) \in SUBSET Linked(r.target) /\ new \in SUBSET Linked(r.target)
    BY DEF CountedOf
  <2>2. PICK p : p = r.target
    OBVIOUS
  <2>3. IsFiniteSet(Linked(p))
    BY LinkedIsFinite
  <2> QED BY <2>1, <2>2, <2>3, FS_Subset
<1>4. Cardinality(new) = UsedIn(t, r.target)
  BY DEF UsedIn
<1> HIDE DEF new
<1>5. Cardinality(CountedOf(s)) = Cardinality(CountedOf(r)) + Cardinality(new) - Cardinality({})
  BY <1>1, <1>2, <1>3, FS_Union
<1>6. Cardinality({}) = 0 /\ Cardinality(CountedOf(r)) \in Nat /\ Cardinality(new) \in Nat
  BY <1>3, FS_EmptySet, FS_CardinalityType
<1> QED BY <1>4, <1>5, <1>6

LEMMA CountingFacts ==
  ASSUME TypeInv, AllFacts, NEW q \in Request, NEW t \in Tenant, CountTenant(q, t)
  PROVE  AllFacts'
<1>1. UNCHANGED <<catalogue, accounts>> /\ RowsStay
  BY SameRows DEF CountTenant, database
<1>2. PICK r : r = request[q]
  OBVIOUS
<1>3. r \in ProviderCalls /\ CallOK(r) /\ r.step = "count" /\ t \in r.left /\ Facts(r)
  BY <1>2, Counts DEF TypeInv, RequestsOK, CountTenant, AllFacts
<1>4. PICK left, n : left = r.left \ {t} /\ n = r.count + UsedIn(t, r.target)
  OBVIOUS
<1>5. left \in SUBSET Tenant /\ n \in Nat
  BY <1>3, <1>4, UsedIsNat DEF ProviderCalls
<1>6. PICK s : s = AsCounted(r, left, n)
  OBVIOUS
<1>7. request' = [request EXCEPT ![q] = s]
  BY <1>2, <1>4, <1>6, Counts
<1>8. /\ s \in ProviderCalls /\ s \in Calls /\ CallOK(s) /\ s.step = r.step
      /\ s.target = r.target /\ s.left = left /\ s.count = n /\ s.raced = r.raced
  BY <1>3, <1>5, <1>6, CountedCalls
<1>9. s \notin AccountCalls \cup Outcomes
  BY <1>8, Steps, ProvidersAssumption
<1>10. ASSUME ~s.raced PROVE Exists(s.target) /\ s.count = Cardinality(CountedOf(s))
  <2>1. Exists(r.target) /\ r.count = Cardinality(CountedOf(r))
    BY <1>3, <1>8, <1>10 DEF Facts, ProviderFacts
  <2> QED BY <1>3, <1>4, <1>8, <2>1, CountGrows
<1>11. Facts(s)
  BY <1>3, <1>8, <1>9, <1>10 DEF Facts, ProviderFacts
<1>12. Facts(s)'
  BY <1>1, <1>11, SameFacts
<1> QED BY <1>1, <1>7, <1>8, <1>12, FactsFrame

LEMMA ConfirmingFacts ==
  ASSUME TypeInv, AllFacts, NEW q \in Request, Counted(q)
  PROVE  AllFacts'
<1>1. UNCHANGED <<catalogue, accounts>> /\ RowsStay
  BY SameRows DEF Counted, database
<1>2. PICK r : r = request[q]
  OBVIOUS
<1>3. /\ r \in ProviderCalls /\ CallOK(r) /\ request \in [Request -> Calls] /\ Facts(r)
      /\ r.step = "count" /\ r.left = {}
  BY <1>2, Sorts DEF Counted, TypeInv, RequestsOK, AllFacts
<1>4. CASE Confirmed(r) /\ request' = [request EXCEPT ![q].step = "write"]
  <2>1. PICK s : s = AsConfirmed(r)
    OBVIOUS
  <2>2. request' = [request EXCEPT ![q] = s]
    BY <1>2, <1>3, <1>4, <2>1 DEF AsConfirmed
  <2>3. /\ s \in ProviderCalls /\ s \in Calls /\ CallOK(s) /\ s.step = "write"
        /\ s.target = r.target /\ s.method = r.method /\ s.edit = r.edit /\ s.count = r.count
        /\ s.raced = r.raced
    BY <1>3, <2>1, ConfirmedCalls
  <2>4. s \notin AccountCalls \cup Outcomes
    BY <2>3, Steps, ProvidersAssumption
  <2>5. CountedOf(r) = Linked(s.target)
    BY <1>3, <2>3 DEF CountedOf
  <2>6. Confirmed(s)
    BY <1>4, <2>3 DEF Confirmed
  <2>7. ASSUME ~s.raced
        PROVE  /\ Exists(s.target) /\ s.count = Cardinality(Linked(s.target))
               /\ s.method = "DELETE" => Linked(s.target) = {}
    <3>1. Exists(r.target) /\ r.count = Cardinality(CountedOf(r))
      BY <1>3, <2>3, <2>7 DEF Facts, ProviderFacts
    <3>2. PICK p : p = s.target
      OBVIOUS
    <3>3. IsFiniteSet(Linked(p))
      BY LinkedIsFinite
    <3>4. s.method = "DELETE" => s.count = 0
      BY <2>6 DEF Confirmed
    <3> QED BY <2>3, <2>5, <3>1, <3>2, <3>3, <3>4, FS_EmptySet
  <2>8. Facts(s)
    BY <2>3, <2>4, <2>6, <2>7 DEF Facts, ProviderFacts
  <2>9. Facts(s)'
    BY <1>1, <2>8, SameFacts
  <2> QED BY <1>1, <2>2, <2>3, <2>9, FactsFrame
<1>5. CASE End(q, "refused")
  BY <1>1, <1>2, <1>3, <1>5, AnswerFacts
<1> QED BY <1>2, <1>4, <1>5 DEF Counted

(* The error of a foreign key answers only requests that others wrote      *)
(* during.                                                                 *)
LEMMA AccountFails ==
  ASSUME TypeInv, AllFacts, NEW q \in Request, WriteAccount(q),
         NextProvider(request[q]) # NoProvider, ~Exists(NextProvider(request[q]))
  PROVE  request[q].raced
<1>1. PICK r : r = request[q]
  OBVIOUS
<1>2. r \in AccountCalls /\ r.step = "write" /\ Facts(r)
  BY <1>1, AccountsWritten DEF AllFacts
<1> QED BY <1>1, <1>2 DEF Facts, AccountFacts

LEMMA ProviderFails ==
  ASSUME TypeInv, AllFacts, NEW q \in Request,
         \/ WriteProvider(q) /\ ~Exists(request[q].target)
         \/ DeleteProvider(q) /\ (~Exists(request[q].target) \/ Linked(request[q].target) # {})
  PROVE  request[q].raced
<1>1. PICK r : r = request[q]
  OBVIOUS
<1>2. r \in ProviderCalls /\ r.step = "write" /\ Facts(r)
  BY <1>1, Targets DEF AllFacts, TypeInv, RequestsOK, WriteProvider, DeleteProvider
<1> QED BY <1>1, <1>2 DEF Facts, ProviderFacts, DeleteProvider

LEMMA WritersKeepRows ==
  ASSUME TypeInv, NEW q \in Request, Writers(q)
  PROVE  RowsStay
<1>1. ASSUME NEW a \in Account, RemoveAccount(q, a) PROVE RowsStay
  <2>1. accounts \in [Account -> Row \cup {NoAccount}] /\ accounts[a] \in Row
    BY <1>1 DEF RemoveAccount, TypeInv, TypeOK
  <2>2. [accounts[a] EXCEPT !.state = "deleted"] \in Row
    BY <2>1 DEF Row
  <2>3. accounts' = [accounts EXCEPT ![a] = [accounts[a] EXCEPT !.state = "deleted"]]
    BY <1>1, <2>1 DEF RemoveAccount
  <2> QED BY <2>1, <2>2, <2>3, Distinct DEF RowsStay
<1>2. ASSUME WriteAccount(q) PROVE RowsStay
  <2>1. PICK r : r = request[q]
    OBVIOUS
  <2>2. r \in AccountCalls /\ CallOK(r) /\ r.step = "write"
    BY <1>2, <2>1, AccountsWritten
  <2>3. NewRow(r) # NoAccount
    BY <2>2, RowWritten, Distinct DEF TypeInv
  <2>4. accounts' = accounts \/ accounts' = [accounts EXCEPT ![r.target] = NewRow(r)]
    BY <1>2, <2>1, AccountsWritten DEF database
  <2> QED BY <2>3, <2>4 DEF RowsStay, TypeInv, TypeOK
<1>3. UNCHANGED accounts \/ WriteAccount(q) \/ \E a \in Account : RemoveAccount(q, a)
  BY DEF Writers, CreateProvider, WriteProvider, DeleteProvider, SeedProvider, SeedEntry, database
<1> QED BY <1>1, <1>2, <1>3, SameRows

LEMMA WritersFacts ==
  ASSUME TypeInv, AllFacts, NEW q \in Request, Writers(q)
  PROVE  AllFacts'
<1>1. RowsStay
  BY WritersKeepRows
<1>2. ASSUME Wrote(q, Done) PROVE AllFacts'
  BY <1>1, <1>2, FactlessStep
<1>3. ASSUME NEW p \in Provider, SeedProvider(q, p) PROVE AllFacts'
  <2>1. request[q] \in SeedCalls
    BY <1>3, Sorts DEF SeedProvider, TypeInv, RequestsOK
  <2>2. p \in DOMAIN Seeds /\ request[q].left \subseteq DOMAIN Seeds
    BY <1>3, <2>1 DEF SeedProvider, SeedCalls
  <2>3. Seeds[p].entries \in SUBSET Entry
    BY <2>2, ProvidersAssumption
  <2>4. PICK r : r = [step |-> "seed", from |-> "api", left |-> request[q].left \ {p},
                      entries |-> {<<p, e>> : e \in Seeds[p].entries}]
    OBVIOUS
  <2>5. r \in SeedCalls
    BY <2>2, <2>3, <2>4 DEF SeedCalls
  <2>6. Wrote(q, r)
    BY <1>3, <2>4 DEF SeedProvider
  <2> QED BY <1>1, <2>5, <2>6, FactlessStep
<1>4. ASSUME NEW p \in Provider, NEW e \in Entry, SeedEntry(q, p, e) PROVE AllFacts'
  <2>1. request[q] \in SeedCalls
    BY <1>4, Sorts DEF SeedEntry, TypeInv, RequestsOK
  <2>2. PICK r : r = [request[q] EXCEPT !.entries = @ \ {<<p, e>>}]
    OBVIOUS
  <2>3. r \in SeedCalls
    BY <2>1, <2>2 DEF SeedCalls
  <2>4. Wrote(q, r)
    BY <1>4, <2>2 DEF SeedEntry
  <2> QED BY <1>1, <2>3, <2>4, FactlessStep
<1>5. ASSUME WriteAccount(q) PROVE AllFacts'
  <2>1. request[q].step = "write"
    BY <1>5 DEF WriteAccount
  <2>2. \/ UNCHANGED <<catalogue, accounts>> /\ (End(q, "refused") \/ End(q, "saved"))
        \/ UNCHANGED <<catalogue, accounts>> /\ End(q, "failed") /\ request[q].raced
        \/ Wrote(q, Over(request[q], "saved"))
    BY <1>5, AccountsWritten, AccountFails DEF Saved, database
  <2> QED BY <1>1, <2>1, <2>2, AnswerFacts
<1>6. ASSUME WriteProvider(q) PROVE AllFacts'
  <2>1. request[q].step = "write"
    BY <1>6 DEF WriteProvider
  <2>2. \/ UNCHANGED <<catalogue, accounts>> /\ End(q, "refused")
        \/ UNCHANGED <<catalogue, accounts>> /\ End(q, "failed") /\ request[q].raced
        \/ Wrote(q, Over(request[q], "saved"))
    BY <1>6, EditsWritten, ProviderFails DEF Saved, database
  <2> QED BY <1>1, <2>1, <2>2, AnswerFacts
<1>7. ASSUME DeleteProvider(q) PROVE AllFacts'
  <2>1. request[q].step = "write"
    BY <1>7 DEF DeleteProvider
  <2>2. \/ UNCHANGED <<catalogue, accounts>> /\ End(q, "failed") /\ request[q].raced
        \/ Wrote(q, Over(request[q], "saved"))
    BY <1>7, ProviderFails DEF DeleteProvider, Saved, database
  <2> QED BY <1>1, <2>1, <2>2, AnswerFacts
<1>8. (\E a \in Account : RemoveAccount(q, a)) => Wrote(q, Done)
  BY DEF RemoveAccount
<1>9. (\E p \in Provider, endpoint \in Endpoint, names \in SUBSET Entry :
         CreateProvider(q, p, endpoint, names)) => Wrote(q, Done)
  BY DEF CreateProvider
<1> QED BY <1>2, <1>3, <1>4, <1>5, <1>6, <1>7, <1>8, <1>9 DEF Writers

LEMMA UpdateFacts ==
  ASSUME TypeInv, AllFacts, NEW q \in Request, NEW p \in Provider, NEW edit \in ProviderEdits,
         NEW from \in {"api", "desk"}, UpdateProvider(q, p, edit, from)
  PROVE  AllFacts'
<1>1. PICK first \in {"count", "write"} : first = IF EndpointChanged(p, edit) THEN "count" ELSE "write"
  OBVIOUS
<1> QED BY <1>1, ProviderBegins DEF UpdateProvider

LEMMA AccountFactsBegin ==
  ASSUME TypeInv, AllFacts, RequestsOK', NEW q \in Request, NEW a, NEW link, NEW host, NEW w, NEW aim,
         Create(q, a, link, host, w, aim) \/ Update(q, a, link, host, w, aim)
  PROVE  AllFacts'
<1>1. CASE Create(q, a, link, host, w, aim)
  BY <1>1, AccountBegins DEF Create
<1>2. CASE Update(q, a, link, host, w, aim)
  <2>1. PICK base : base = accounts[a]
    OBVIOUS
  <2> QED BY <1>2, <2>1, AccountBegins DEF Update
<1> QED BY <1>1, <1>2

LEMMA DialogFacts ==
  ASSUME TypeInv, AllFacts, RequestsOK', Dialog
  PROVE  AllFacts'
<1>1. ASSUME UNCHANGED <<database, request>> PROVE AllFacts'
  <2>1. ASSUME NEW x \in Request PROVE Facts(request[x])'
    <3>1. PICK s : s = request[x]
      OBVIOUS
    <3>2. Facts(s)'
      BY <1>1, <3>1, SameFacts DEF AllFacts, database
    <3> QED BY <1>1, <3>1, <3>2
  <2> QED BY <2>1 DEF AllFacts
<1>2. ASSUME NEW q \in Request, NEW host \in Fields, NEW w \in Password \cup {Keep},
             Submit(q, host, w)
      PROVE  AllFacts'
  <2>1. PICK a, p, h, l, k, aim :
          /\ a = form.account /\ p = form.provider /\ l = Link /\ k = Host(host) /\ aim = Aim(host)
          /\ h = IF form.provider = NoProvider THEN host ELSE Keep
    OBVIOUS
  <2>2. Create(q, a, p, h, w, aim) \/ Update(q, a, l, k, w, aim)
    BY <1>2, <2>1 DEF Submit
  <2> QED BY <2>2, AccountFactsBegin
<1>3. ASSUME NEW q \in Request, NEW endpoint \in Endpoint, NEW active \in BOOLEAN,
             NEW names \in SUBSET Entry, SaveProvider(q, endpoint, active, names)
      PROVE  AllFacts'
  <2>1. desk \in Desks
    BY <1>3, Dialogs DEF SaveProvider, TypeInv
  <2>2. PICK p, n : p = desk.provider /\ n = Confirmation(endpoint)
    OBVIOUS
  <2>3. p \in Provider /\ n \in Nat \cup {Keep}
    BY <2>1, <2>2 DEF Desks, Confirmation
  <2>4. PICK edit : edit = [endpoint |-> endpoint, active |-> active, entries |-> names, confirm |-> n]
    OBVIOUS
  <2>5. edit \in ProviderEdits
    BY <2>3, <2>4 DEF ProviderEdits
  <2>6. UpdateProvider(q, p, edit, "desk")
    BY <1>3, <2>2, <2>4 DEF SaveProvider
  <2> QED BY <2>3, <2>5, <2>6, UpdateFacts
<1>4. ASSUME NEW q \in Request, Answered(q) PROVE AllFacts'
  <2>1. request[q] \in Outcomes /\ Facts(request[q])
    BY <1>4, Sorts DEF Answered, TypeInv, RequestsOK, AllFacts
  <2>2. PICK r : r = IF request[q].step = "failed" THEN [request[q] EXCEPT !.from = "api"] ELSE Done
    OBVIOUS
  <2>3. r \in {Done} \cup {o \in Outcomes : o.step = "failed" => o.raced}
    <3>1. request[q].step = "failed" => request[q].raced
      BY <2>1 DEF Facts
    <3>2. PICK s : s = request[q]
      OBVIOUS
    <3>3. [s EXCEPT !.from = "api"] \in Outcomes /\ [s EXCEPT !.from = "api"].raced = s.raced
      BY <2>1, <3>2 DEF Outcomes, Anyone
    <3> QED BY <2>2, <3>1, <3>2, <3>3
  <2>4. request' = [request EXCEPT ![q] = r] /\ UNCHANGED <<catalogue, accounts>>
    BY <1>4, <2>2 DEF Answered, Forgotten, TypeInv, RequestsOK, database
  <2> QED BY <2>3, <2>4, SameRows, FactlessStep
<1>5. CASE \/ \E a \in Account : Open(a)
           \/ Close
           \/ \E p \in Provider \cup {NoProvider} : Choose(p)
           \/ \E email \in Email : Blur(email)
           \/ ResolveByDomain \/ ResolveByMx \/ Detected
           \/ \E p \in Provider : OpenProvider(p)
           \/ CloseProvider
  BY <1>1, <1>5 DEF Open, Close, Choose, Blur, ResolveByDomain, ResolveByMx, Detected,
     OpenProvider, CloseProvider
<1> QED BY <1>2, <1>3, <1>4, <1>5 DEF Dialog

LEMMA FactsStep ==
  ASSUME TypeInv, LinksHold, AllFacts, [Next]_vars
  PROVE  AllFacts'
<1>1. RequestsOK'
  BY TypeStep DEF TypeInv
<1>2. CASE UNCHANGED vars
  <2>1. ASSUME NEW x \in Request PROVE Facts(request[x])'
    <3>1. PICK s : s = request[x]
      OBVIOUS
    <3>2. Facts(s)'
      BY <1>2, <3>1, SameFacts DEF AllFacts, vars
    <3> QED BY <1>2, <3>1, <3>2 DEF vars
  <2> QED BY <2>1 DEF AllFacts
<1>3. ASSUME NEW q \in Request, Api(q) PROVE AllFacts'
  <2>1. ASSUME NEW a \in Account, NEW p \in Provider, NEW w \in Password,
               Create(q, a, p, Keep, w, Keep)
        PROVE  AllFacts'
    BY <1>1, <2>1, AccountFactsBegin
  <2>2. ASSUME NEW a \in Account, NEW host \in Endpoint \cup {Keep}, NEW w \in Password,
               Create(q, a, NoProvider, host, w, Keep)
        PROVE  AllFacts'
    BY <1>1, <2>2, AccountFactsBegin
  <2>3. ASSUME NEW a \in Account, NEW patch \in Patches,
               Update(q, a, patch.link, patch.host, patch.password, Keep)
        PROVE  AllFacts'
    <3>1. PICK l, h, w : l = patch.link /\ h = patch.host /\ w = patch.password
      OBVIOUS
    <3> QED BY <1>1, <2>3, <3>1, AccountFactsBegin
  <2>4. ASSUME NEW p \in Provider, NEW edit \in Edits, UpdateProvider(q, p, edit, "api")
        PROVE  AllFacts'
    <3>1. edit \in ProviderEdits
      BY ProvidersAssumption DEF ProviderEdits
    <3> QED BY <2>4, <3>1, UpdateFacts
  <2>5. ASSUME NEW p \in Provider, RemoveProvider(q, p) PROVE AllFacts'
    BY <2>5, ProviderBegins DEF RemoveProvider
  <2>6. ASSUME StartSeed(q) PROVE AllFacts'
    <3>1. PICK r : r = [step |-> "seed", from |-> "api", left |-> DOMAIN Seeds, entries |-> {}]
      OBVIOUS
    <3>2. r \in SeedCalls
      BY <3>1 DEF SeedCalls
    <3>3. request' = [request EXCEPT ![q] = r] /\ UNCHANGED <<catalogue, accounts>>
      BY <2>6, <3>1 DEF StartSeed, Begin, database
    <3> QED BY <3>2, <3>3, SameRows, FactlessStep
  <2>7. ASSUME Writers(q) PROVE AllFacts'
    BY <2>7, WritersFacts
  <2> QED BY <1>3, <2>1, <2>2, <2>3, <2>4, <2>5, <2>6, <2>7 DEF Api, Writers
<1>4. ASSUME NEW q \in Request, Server(q) PROVE AllFacts'
  <2>1. ASSUME LoginFails(q) PROVE AllFacts'
    BY <2>1, SameRows, AnswerFacts DEF LoginFails, database
  <2>2. ASSUME EndSeed(q) PROVE AllFacts'
    BY <2>2, SameRows, FactlessStep DEF EndSeed, database
  <2>3. ASSUME Writers(q) PROVE AllFacts'
    BY <2>3, WritersFacts
  <2> QED BY <1>4, <2>1, <2>2, <2>3, ResolvingFacts, CountingFacts, ConfirmingFacts DEF Server, Writers
<1> QED BY <1>1, <1>2, <1>3, <1>4, DialogFacts DEF Next

-----------------------------------------------------------------------------
(* Credentials are written as they were verified.                          *)
LEMMA StoredStep ==
  ASSUME TypeInv, StoredIsVerified, [Next]_vars
  PROVE  StoredIsVerified'
<1>1. CASE UNCHANGED <<accounts, proved, mixed>>
  BY <1>1 DEF StoredIsVerified
<1>2. ASSUME NEW q \in Request, NEW a \in Account, RemoveAccount(q, a)
      PROVE  StoredIsVerified'
  <2>1. accounts \in [Account -> Row \cup {NoAccount}] /\ accounts[a] \in Row /\ accounts[a] # NoAccount
    BY <1>2 DEF RemoveAccount, TypeInv, TypeOK
  <2>2. PICK row : row = accounts[a]
    OBVIOUS
  <2>3. PICK new : new = [row EXCEPT !.state = "deleted"]
    OBVIOUS
  <2>4. new.provider = row.provider /\ new.own = row.own /\ new.password = row.password
    BY <2>1, <2>2, <2>3 DEF Row
  <2>5. accounts' = [accounts EXCEPT ![a] = new] /\ UNCHANGED <<proved, mixed>>
    BY <1>2, <2>1, <2>2, <2>3 DEF RemoveAccount
  <2> QED BY <2>1, <2>2, <2>4, <2>5 DEF StoredIsVerified
<1>3. ASSUME NEW q \in Request, WriteAccount(q)
      PROVE  StoredIsVerified'
  <2>1. PICK r : r = request[q]
    OBVIOUS
  <2>2. /\ r \in AccountCalls /\ CallOK(r) /\ r.step = "write" /\ r.target \in Account
    BY <1>3, <2>1, AccountsWritten
  <2>3. CASE /\ r.base = NoAccount => accounts[r.target] = NoAccount
             /\ accounts' = [accounts EXCEPT ![r.target] = NewRow(r)]
             /\ proved' = [proved EXCEPT ![r.target] = @ \cup {<<r.endpoint, LoginPassword(r)>>}]
             /\ mixed' = IF r.base = accounts[r.target] THEN mixed \ {r.target}
                         ELSE mixed \cup {r.target}
    <3>1. /\ NewRow(r).own = r.endpoint
          /\ NewRow(r).password = IF r.base = NoAccount THEN r.password
                                  ELSE Or(r.password, accounts[r.target].password)
      BY <2>2, RowWritten DEF TypeInv
    <3>2. r.base = accounts[r.target] => NewRow(r).password = LoginPassword(r)
      BY <3>1 DEF LoginPassword
    <3>3. r.base = accounts[r.target] =>
            <<NewRow(r).own, NewRow(r).password>> \in proved'[r.target]
      BY <2>2, <2>3, <3>1, <3>2 DEF TypeInv, TypeOK
    <3>4. \A b \in Account \ {r.target} : accounts'[b] = accounts[b] /\ proved'[b] = proved[b]
      BY <2>3 DEF TypeInv, TypeOK
    <3>5. accounts'[r.target] = NewRow(r)
      BY <2>2, <2>3 DEF TypeInv, TypeOK
    <3>6. /\ mixed \subseteq mixed' \cup {r.target}
          /\ r.target \notin mixed' => r.base = accounts[r.target]
      BY <2>3
    <3> QED BY <3>3, <3>4, <3>5, <3>6 DEF StoredIsVerified
  <2> QED BY <1>1, <1>3, <2>1, <2>3, AccountsWritten DEF database
<1>4. UNCHANGED <<accounts, proved, mixed>> \/ \E q \in Request :
        WriteAccount(q) \/ \E a \in Account : RemoveAccount(q, a)
  BY WhoWrites DEF Writers, CreateProvider, WriteProvider, DeleteProvider, SeedProvider, SeedEntry,
     database
<1> QED BY <1>1, <1>2, <1>3, <1>4

LEMMA DataInit ==
  ASSUME Init
  PROVE  AllFacts /\ StoredIsVerified
<1>1. AllFacts
  BY NoFacts DEF Init, AllFacts
<1>2. PICK world \in Worlds :
        /\ accounts = world.accounts
        /\ proved = [a \in Account |-> {<<row.own, row.password>> :
                       row \in {world.accounts[a]} \ {NoAccount}}]
  BY DEF Init
<1>3. StoredIsVerified
  BY <1>2 DEF StoredIsVerified
<1> QED BY <1>1, <1>3

LEMMA DataStep ==
  TypeInv /\ DataInv /\ [Next]_vars => (TypeInv /\ DataInv)'
BY TypeStep, LinksStep, FactsStep, StoredStep DEF DataInv

LEMMA DataAlways ==
  Spec => [](TypeInv /\ DataInv)
<1>1. Init => TypeInv /\ DataInv
  BY TypeInit, DataInit DEF DataInv
<1> QED BY <1>1, DataStep, PTL DEF Spec

(* A request nobody else wrote during never ends in the error of a foreign *)
(* key: what it counted and what it resolved are still so when it writes   *)
(* (mail-providers.service.ts and accounts.service.ts).                    *)
THEOREM ErrorsExplained ==
  Spec => []ErrorsAreExplained
<1>1. TypeInv /\ DataInv => ErrorsAreExplained
  <2> SUFFICES ASSUME TypeInv, DataInv, NEW q \in Request, request[q].step = "failed"
               PROVE  request[q].raced
    BY DEF ErrorsAreExplained
  <2>1. request[q] \in Outcomes
    BY Sorts DEF TypeInv, RequestsOK
  <2> QED BY <2>1 DEF DataInv, AllFacts, Facts
<1> QED BY <1>1, DataAlways, PTL

(* The endpoint and the password an account stores have logged in together *)
(* whatever other requests do to its profile between the login and the     *)
(* write, unless its row is not the one the request had read               *)
(* (accounts.service.ts, create and update).                               *)
THEOREM StoredStaysVerified ==
  Spec => []StoredIsVerified
<1>1. DataInv => StoredIsVerified
  BY DEF DataInv
<1> QED BY <1>1, DataAlways, PTL

-----------------------------------------------------------------------------
(* Who moves a profile: the edit, the deletion, the creation or the script *)
(* whose step it is.                                                       *)
LEMMA WhoMoves ==
  ASSUME TypeInv, [Next]_vars, NEW q \in Request, request[q].step = "write",
         request'[q].step # "write", catalogue' # catalogue
  PROVE  WriteProvider(q) \/ DeleteProvider(q)
<1>1. request[q] \in Calls /\ request \in [Request -> Calls]
  BY DEF TypeInv, RequestsOK
<1>2. PICK x \in Request : Writers(x)
  BY WhoWrites DEF database
<1>3. ASSUME NEW r, Wrote(x, r), x # q PROVE FALSE
  <2>1. request'[q] = Raced(request[q])
    BY <1>1, <1>3, Loudly DEF InFlight
  <2>2. PICK s : s = request[q]
    OBVIOUS
  <2>3. Raced(s).step = "write"
    BY <1>1, <2>2, RacedCalls
  <2> QED BY <2>1, <2>2, <2>3
<1>4. x = q
  BY <1>2, <1>3 DEF Writers, RemoveAccount, CreateProvider, WriteAccount, WriteProvider,
     DeleteProvider, SeedProvider, SeedEntry, Saved, database
<1>5. request[q] # Idle
  BY Steps
<1> QED BY <1>2, <1>4, <1>5 DEF Writers, RemoveAccount, CreateProvider, WriteAccount, SeedProvider,
           SeedEntry, database

LEMMA ConfirmedStep ==
  ASSUME TypeInv, DataInv, [Next]_vars, NEW q \in Request, NEW p \in Provider,
         MovesAccounts(q, p), ~request[q].raced
  PROVE  /\ request[q].method = "PATCH"
         /\ request[q].edit.confirm = Cardinality(Linked(p))
<1>1. WriteProvider(q) \/ DeleteProvider(q)
  BY WhoMoves DEF MovesAccounts
<1>2. PICK r : r = request[q]
  OBVIOUS
<1>3. r \in ProviderCalls /\ r.step = "write" /\ Facts(r)
  BY <1>1, <1>2, Targets DEF WriteProvider, DeleteProvider, TypeInv, RequestsOK, DataInv, AllFacts
<1>4. ProviderFacts(r) /\ ~r.raced
  BY <1>2, <1>3 DEF Facts
<1>5. CASE WriteProvider(q)
  <2>1. PICK row, edit : row = catalogue[r.target] /\ edit = r.edit
    OBVIOUS
  <2>2. /\ row \in Profile /\ edit \in ProviderEdits
        /\ catalogue' = [catalogue EXCEPT ![r.target] = Edited(row, edit)]
    BY <1>2, <1>5, <2>1, EditsWritten DEF MovesAccounts, database
  <2>3. p = r.target
    BY <2>2 DEF MovesAccounts, TypeInv, TypeOK
  <2>4. catalogue'[p] = Edited(row, edit)
    BY <2>2, <2>3 DEF TypeInv, TypeOK
  <2>5. Edited(row, edit) # Missing /\ Edited(row, edit).endpoint = Or(edit.endpoint, row.endpoint)
    BY <2>2, EditedType, Distinct
  <2>6. edit.endpoint \notin {Keep, row.endpoint}
    BY <2>1, <2>3, <2>4, <2>5 DEF MovesAccounts, Or
  <2>7. r.method = "PATCH"
    BY <1>2, <1>5 DEF WriteProvider
  <2>8. r.count = Cardinality(Linked(p)) /\ Confirmed(r)
    BY <1>3, <1>4, <2>1, <2>3, <2>6, <2>7 DEF ProviderFacts
  <2>9. r.count # 0
    BY <2>8, LinkedIsFinite, FS_EmptySet DEF MovesAccounts
  <2> QED BY <1>2, <2>7, <2>8, <2>9 DEF Confirmed
<1>6. CASE DeleteProvider(q)
  <2>1. Linked(r.target) = {} /\ catalogue' = [catalogue EXCEPT ![r.target] = Missing]
    BY <1>2, <1>6 DEF DeleteProvider, MovesAccounts, database
  <2>2. p = r.target
    BY <2>1 DEF MovesAccounts, TypeInv, TypeOK
  <2> QED BY <2>1, <2>2 DEF MovesAccounts
<1> QED BY <1>1, <1>5, <1>6

(* An edit or a deletion of a profile that nobody else wrote during moves  *)
(* its accounts only under the number that counts them all, whatever other *)
(* requests begin and count meanwhile (mail-providers.service.ts, update). *)
THEOREM EndpointConfirmed ==
  Spec => EndpointIsConfirmed
<1> DEFINE A == \A q \in Request, p \in Provider :
                  MovesAccounts(q, p) /\ ~request[q].raced
                    => /\ request[q].method = "PATCH"
                       /\ request[q].edit.confirm = Cardinality(Linked(p))
<1>1. TypeInv /\ DataInv /\ [Next]_vars => [A]_vars
  BY ConfirmedStep
<1>2. [](TypeInv /\ DataInv) /\ [][Next]_vars => [][A]_vars
  BY <1>1, PTL
<1>3. [][A]_vars => EndpointIsConfirmed
  BY DEF EndpointIsConfirmed
<1> HIDE DEF A
<1> QED BY <1>2, <1>3, DataAlways, PTL DEF Spec

-----------------------------------------------------------------------------
(* Who saves: only the writes do.                                          *)
LEMMA OtherKept ==
  ASSUME TypeInv, NEW x \in Request, NEW q \in Request, x # q, request[q].step = "write",
         NEW r, Wrote(x, r)
  PROVE  request'[q].step = "write"
<1>1. request[q] \in Calls /\ request \in [Request -> Calls]
  BY DEF TypeInv, RequestsOK
<1>2. request'[q] = Raced(request[q])
  BY <1>1, Loudly DEF InFlight
<1>3. PICK s : s = request[q]
  OBVIOUS
<1> QED BY <1>1, <1>2, <1>3, RacedCalls

LEMMA WhoSaves ==
  ASSUME TypeInv, [Next]_vars, NEW q \in Request, request[q].step = "write",
         request'[q].step = "saved"
  PROVE  WriteAccount(q) \/ WriteProvider(q) \/ DeleteProvider(q)
<1>1. request \in [Request -> Calls] /\ request[q] \in Calls /\ request[q] # Idle
  BY Steps DEF TypeInv, RequestsOK
<1>2. request' # request
  OBVIOUS
<1>3. \A r : \A x \in Request : request' = [request EXCEPT ![x] = r] => x = q /\ r.step = "saved"
  BY <1>1
<1>4. \A r : \A x \in Request : Wrote(x, r) => x = q /\ r.step = "saved"
  <2> SUFFICES ASSUME NEW x \in Request, NEW r, Wrote(x, r) PROVE x = q /\ r.step = "saved"
    OBVIOUS
  <2> QED BY <1>1, OtherKept, Loudly
<1>5. \A r : \A x \in Request : Begin(x, r) => FALSE
  BY <1>1, <1>3 DEF Begin
<1>6. ASSUME NEW x \in Request, Api(x) PROVE FALSE
  BY <1>1, <1>4, <1>5, <1>6 DEF Api, Create, Update, RemoveAccount, CreateProvider,
     UpdateProvider, RemoveProvider, StartSeed
<1>7. ASSUME NEW x \in Request, Server(x)
      PROVE  WriteAccount(q) \/ WriteProvider(q) \/ DeleteProvider(q)
  <2>1. CASE ResolveWriteEndpoint(x) \/ Counted(x) \/ \E t \in Tenant : CountTenant(x, t)
    <3>1. request[x].step # "write"
      BY <2>1 DEF ResolveWriteEndpoint, Counted, CountTenant
    <3>2. x # q
      BY <3>1
    <3> QED BY <1>1, <2>1, <3>2 DEF ResolveWriteEndpoint, Counted, CountTenant, End
  <2>2. CASE LoginFails(x)
    <3>1. request' = [request EXCEPT ![x] = Over(request[x], "refused")]
      BY <1>1, <2>2 DEF LoginFails, End
    <3>2. Over(request[x], "refused").step # "saved"
      BY Steps DEF Over
    <3> QED BY <1>3, <3>1, <3>2
  <2>3. CASE WriteAccount(x) \/ WriteProvider(x) \/ DeleteProvider(x)
    <3>1. \A o : End(x, o) => x = q
      BY <1>1 DEF End
    <3>2. Saved(x) => x = q
      BY <1>4 DEF Saved
    <3>3. x = q
      BY <2>3, <3>1, <3>2 DEF WriteAccount, WriteProvider, DeleteProvider
    <3> QED BY <2>3, <3>3
  <2>4. CASE (\E p \in Provider : SeedProvider(x, p) \/ \E e \in Entry : SeedEntry(x, p, e)) \/ EndSeed(x)
    <3>1. request[x].step = "seed"
      BY <2>4 DEF SeedProvider, SeedEntry, EndSeed
    <3> QED BY <1>3, <1>4, <2>4, <3>1 DEF SeedProvider, SeedEntry, EndSeed
  <2> QED BY <1>7, <2>1, <2>2, <2>3, <2>4 DEF Server
<1>8. CASE Dialog
  <2>1. ASSUME NEW x \in Request, Answered(x) PROVE FALSE
    <3>1. request[x].step # "write"
      BY <2>1 DEF Answered
    <3> QED BY <1>1, <2>1, <3>1 DEF Answered, Forgotten
  <2> QED BY <1>2, <1>5, <1>8, <2>1 DEF Dialog, Open, Close, Choose, Blur, ResolveByDomain, ResolveByMx,
         Detected, Submit, Create, Update, SaveProvider, UpdateProvider, OpenProvider, CloseProvider
<1> QED BY <1>2, <1>6, <1>7, <1>8 DEF Next, vars

(* What a form's call writes is what the form showed.                      *)
LEMMA AimIsWritten ==
  ASSUME NEW r \in AccountCalls, CallOK(r), r.step = "write", r.from = "form", r.base = r.aim.base
  PROVE  /\ NextProvider(r) = r.aim.provider
         /\ r.aim.provider = NoProvider => r.endpoint = r.aim.endpoint
         /\ ~CredentialsChanged(r) =>
              /\ r.base # NoAccount /\ r.base.provider = r.aim.provider
              /\ r.aim.provider = NoProvider => r.base.own = r.aim.endpoint
<1>1. AccountCallOK(r) /\ AimOK(r) /\ r.aim \in Aims
  BY DEF CallOK, AccountCallOK
<1>2. r.aim.provider \in Provider \cup {NoProvider} /\ r.aim.provider # Keep
  BY <1>1, ProvidersAssumption DEF Aims
<1>3. r.aim.provider = NoProvider => r.aim.endpoint \in Endpoint /\ r.aim.endpoint # Keep
  BY <1>1, ProvidersAssumption DEF AimOK
<1>4. NextProvider(r) = r.aim.provider
  BY <1>1, <1>2 DEF AimOK, NextProvider, Changed, Or
<1>5. r.aim.provider = NoProvider => NextOwn(r) = r.aim.endpoint
  BY <1>1, <1>3 DEF AimOK, NextOwn, Changed, Or
<1>6. r.aim.provider = NoProvider => r.endpoint = r.aim.endpoint
  BY <1>1, <1>4, <1>5 DEF AccountCallOK
<1>7. ASSUME ~CredentialsChanged(r)
      PROVE  /\ r.base # NoAccount /\ r.base.provider = r.aim.provider
             /\ r.aim.provider = NoProvider => r.base.own = r.aim.endpoint
  <2>1. r.link = Keep /\ r.host = Keep /\ r.password = Keep
    BY <1>7 DEF CredentialsChanged
  <2> QED BY <1>1, <1>2, <1>3, <2>1 DEF AccountCallOK, AimOK, Changed
<1> QED BY <1>4, <1>6, <1>7

LEMMA KeepsStep ==
  ASSUME TypeInv, [Next]_vars, NEW q \in Request, request[q].step = "write",
         request'[q].step = "saved", request[q].from = "form",
         request[q].base = request[q].aim.base, request[q].base = accounts[request[q].target]
  PROVE  LET r == request[q] row == accounts'[r.target]
         IN /\ row.provider = r.aim.provider
            /\ row.provider = NoProvider => row.own = r.aim.endpoint
<1>1. WriteAccount(q) \/ WriteProvider(q) \/ DeleteProvider(q)
  BY WhoSaves
<1>2. PICK r : r = request[q]
  OBVIOUS
<1>3. r \notin ProviderCalls
  BY <1>2 DEF ProviderCalls
<1>4. WriteAccount(q)
  BY <1>1, <1>2, <1>3, Targets DEF WriteProvider, DeleteProvider, TypeInv, RequestsOK
<1>5. r \in AccountCalls /\ CallOK(r) /\ r.step = "write" /\ r.target \in Account
  BY <1>2, <1>4, AccountsWritten
<1>6. /\ NextProvider(r) = r.aim.provider
      /\ r.aim.provider = NoProvider => r.endpoint = r.aim.endpoint
      /\ ~CredentialsChanged(r) =>
           /\ r.base # NoAccount /\ r.base.provider = r.aim.provider
           /\ r.aim.provider = NoProvider => r.base.own = r.aim.endpoint
  BY <1>2, <1>5, AimIsWritten
<1>7. ASSUME NEW o \in {"refused", "failed"}, End(q, o) PROVE FALSE
  <2>1. request'[q] = Over(request[q], o)
    BY <1>7 DEF End, TypeInv, RequestsOK
  <2> QED BY <2>1, Steps DEF Over
<1>8. CASE ~CredentialsChanged(r) /\ UNCHANGED database
  BY <1>2, <1>6, <1>8 DEF database
<1>9. CASE accounts' = [accounts EXCEPT ![r.target] = NewRow(r)]
  <2>1. NewRow(r).provider = NextProvider(r) /\ NewRow(r).own = r.endpoint
    BY <1>5, RowWritten DEF TypeInv
  <2>2. accounts'[r.target] = NewRow(r)
    BY <1>5, <1>9 DEF TypeInv, TypeOK
  <2> QED BY <1>2, <1>6, <2>1, <2>2
<1> QED BY <1>2, <1>4, <1>7, <1>8, <1>9 DEF WriteAccount

(* What the account dialog saves is what it showed, whatever other         *)
(* requests do between its question and its answer, as long as the row is  *)
(* the one it was opened with (AccountFormDialog.tsx, accounts.service.ts). *)
THEOREM PanelKeepsWhatItShowed ==
  Spec => PanelKeepsEndpoint
<1> DEFINE A == \A q \in Request :
        LET r == request[q]
        IN /\ r.step = "write" /\ request'[q].step = "saved" /\ r.from = "form"
           /\ r.base = r.aim.base /\ r.base = accounts[r.target]
           => LET row == accounts'[r.target]
              IN /\ row.provider = r.aim.provider
                 /\ row.provider = NoProvider => row.own = r.aim.endpoint
<1>1. TypeInv /\ DataInv /\ [Next]_vars => [A]_vars
  BY KeepsStep
<1>2. [](TypeInv /\ DataInv) /\ [][Next]_vars => [][A]_vars
  BY <1>1, PTL
<1>3. [][A]_vars => PanelKeepsEndpoint
  BY DEF PanelKeepsEndpoint
<1> HIDE DEF A
<1> QED BY <1>2, <1>3, DataAlways, PTL DEF Spec

-----------------------------------------------------------------------------
(* The choice of the user.                                                 *)
LEMMA ChoiceSame ==
  ASSUME ChoiceInv, UNCHANGED <<form, lookup>>
  PROVE  ChoiceInv'
BY DEF ChoiceInv, ChoiceIsKept, ShowsChoice, Awaited

LEMMA ChoiceShut ==
  ASSUME ~form'.open
  PROVE  ChoiceInv'
BY DEF ChoiceInv, ChoiceIsKept, ShowsChoice, Awaited

LEMMA ChoiceFields ==
  ASSUME ChoiceInv, form'.open, form.open, form'.provider = form.provider,
         form'.chosen = form.chosen, form'.suggested = form.suggested, form'.base = form.base,
         form'.opening = form.opening, form'.settled = form.settled, UNCHANGED lookup
  PROVE  ChoiceInv'
BY DEF ChoiceInv, ChoiceIsKept, ShowsChoice, Awaited

LEMMA ChoiceStep ==
  ASSUME TypeInv, ChoiceInv, [Next]_vars
  PROVE  ChoiceInv'
<1>1. CASE UNCHANGED <<form, lookup>>
  BY <1>1, ChoiceSame
<1>2. ASSUME NEW a \in Account, Open(a) PROVE ChoiceInv'
  <2>1. lookup' = lookup
    BY <1>2 DEF Open
  <2>2. PICK base : base = accounts[a]
    OBVIOUS
  <2>3. CASE base = NoAccount /\ form' = EmptyForm(a)
    <3>1. /\ form'.chosen = Unchosen /\ form'.provider = NoProvider /\ form'.base = NoAccount
          /\ form'.settled = ~Awaited
      BY <2>2, <2>3 DEF EmptyForm, NewForm
    <3> QED BY <2>1, <3>1 DEF ChoiceInv, ChoiceIsKept, ShowsChoice, Awaited
  <2>4. CASE base # NoAccount /\ form' = FormFromAccount(a)
    <3>1. /\ form'.chosen = Unchosen /\ form'.provider = base.provider /\ form'.base = base
          /\ form'.settled = ~Awaited
      BY <2>2, <2>4 DEF FormFromAccount, NewForm
    <3> QED BY <2>1, <2>4, <3>1 DEF ChoiceInv, ChoiceIsKept, ShowsChoice, Awaited
  <2> QED BY <1>2, <2>2, <2>3, <2>4 DEF Open
<1>3. ASSUME Close PROVE ChoiceInv'
  BY <1>3, ChoiceShut DEF Close, Closed
<1>4. ASSUME NEW p \in Provider \cup {NoProvider}, Choose(p) PROVE ChoiceInv'
  <2>1. form \in Forms /\ form' = [form EXCEPT !.provider = p, !.chosen = p,
                                                       !.settled = ~Awaited]
    BY <1>4, Dialogs DEF Choose, TypeInv
  <2>2. form'.provider = p /\ form'.chosen = p /\ form'.settled = ~Awaited
    BY <2>1 DEF Forms
  <2>3. lookup' = lookup /\ p # Unchosen
    BY <1>4, ProvidersAssumption DEF Choose, Unchosen
  <2> QED BY <2>2, <2>3 DEF ChoiceInv, ChoiceIsKept, ShowsChoice, Awaited
<1>5. ASSUME NEW email \in Email, Blur(email) PROVE ChoiceInv'
  <2>1. /\ lookup'.opening = form.opening /\ lookup'.apply = (form.chosen = Unchosen)
        /\ form' = form
    BY <1>5 DEF Blur
  <2> QED BY <2>1 DEF ChoiceInv, ChoiceIsKept, ShowsChoice, Awaited
<1>6. ASSUME ResolveByDomain \/ ResolveByMx PROVE ChoiceInv'
  <2>1. lookup \in Lookups
    BY <1>6, Dialogs DEF ResolveByDomain, ResolveByMx, TypeInv
  <2>2. PICK l : l = lookup
    OBVIOUS
  <2>3. \A p : /\ [l EXCEPT !.step = "answer", !.found = p].opening = l.opening
               /\ [l EXCEPT !.step = "answer", !.found = p].apply = l.apply
               /\ [l EXCEPT !.step = "mx"].opening = l.opening
               /\ [l EXCEPT !.step = "mx"].apply = l.apply
               /\ [l EXCEPT !.step = "answer"].opening = l.opening
               /\ [l EXCEPT !.step = "answer"].apply = l.apply
    BY <2>1, <2>2 DEF Lookups
  <2>4. /\ form' = form
        /\ \/ \E p : lookup' = [l EXCEPT !.step = "answer", !.found = p]
           \/ lookup' = [l EXCEPT !.step = "mx"]
           \/ lookup' = [l EXCEPT !.step = "answer"]
    BY <1>6, <2>2 DEF ResolveByDomain, ResolveByMx
  <2>5. lookup'.opening = lookup.opening /\ lookup'.apply = lookup.apply
    BY <2>2, <2>3, <2>4
  <2>6. lookup # Idle
    BY <1>6, Steps DEF ResolveByDomain, ResolveByMx
  <2> QED BY <2>4, <2>5, <2>6 DEF ChoiceInv, ChoiceIsKept, ShowsChoice, Awaited
<1>7. ASSUME Detected PROVE ChoiceInv'
  <2>1. lookup' = Idle /\ lookup # Idle
    BY <1>7, Steps DEF Detected
  <2>2. CASE form.open /\ Applies
    <3>1. form \in Forms
      BY <2>2, Dialogs DEF TypeInv
    <3>2. PICK p, S : p = lookup.found /\ S = IF lookup.opening = form.opening
                                             THEN form.suggested \cup {lookup.found}
                                             ELSE form.suggested
      OBVIOUS
    <3>3. form' = [form EXCEPT !.provider = p, !.suggested = S]
      BY <1>7, <2>2, <3>1, <3>2 DEF Detected, Forms
    <3>4. /\ form'.provider = p /\ form'.suggested = S /\ form'.chosen = form.chosen
          /\ form'.base = form.base /\ form'.settled = form.settled
      BY <3>1, <3>3 DEF Forms
    <3>5. form.settled => lookup.opening = form.opening /\ form.chosen = Unchosen
      BY <2>1, <2>2 DEF ChoiceInv, Applies, Awaited
    <3>6. form.settled => p \in S
      BY <3>2, <3>5
    <3> QED BY <2>1, <3>4, <3>5, <3>6 DEF ChoiceInv, ChoiceIsKept, ShowsChoice, Awaited
  <2>3. CASE ~(form.open /\ Applies)
    <3>1. form' = form
      BY <1>7, <2>3 DEF Detected
    <3> QED BY <2>1, <3>1 DEF ChoiceInv, ChoiceIsKept, ShowsChoice, Awaited
  <2> QED BY <2>2, <2>3
<1>8. ASSUME NEW q \in Request, NEW host \in Fields, NEW w \in Password \cup {Keep},
             Submit(q, host, w)
      PROVE  ChoiceInv'
  <2>1. form \in Forms /\ form.open /\ form' = [form EXCEPT !.sending = TRUE] /\ lookup' = lookup
    BY <1>8, Dialogs DEF Submit, TypeInv
  <2>2. /\ form'.open /\ form'.provider = form.provider /\ form'.chosen = form.chosen
        /\ form'.suggested = form.suggested /\ form'.base = form.base
        /\ form'.opening = form.opening /\ form'.settled = form.settled
    BY <2>1 DEF Forms
  <2> QED BY <2>1, <2>2, ChoiceFields
<1>9. ASSUME NEW q \in Request, Answered(q) PROVE ChoiceInv'
  <2>1. lookup' = lookup /\ (form' = form \/ form' = After(q, form))
    BY <1>9 DEF Answered
  <2>2. CASE form' = Closed(form.opening, FALSE)
    BY <2>2, ChoiceShut DEF Closed
  <2>3. CASE form' = [form EXCEPT !.sending = FALSE] /\ form.open
    <3>1. form \in Forms
      BY <2>3, Dialogs DEF TypeInv
    <3>2. /\ form'.open /\ form'.provider = form.provider /\ form'.chosen = form.chosen
          /\ form'.suggested = form.suggested /\ form'.base = form.base
          /\ form'.opening = form.opening /\ form'.settled = form.settled
      BY <2>3, <3>1 DEF Forms
    <3> QED BY <2>1, <2>3, <3>2, ChoiceFields
  <2>4. CASE form' = [form EXCEPT !.sending = FALSE] /\ ~form.open
    <3>1. form \in Shut
      BY <2>4, Dialogs DEF TypeInv
    <3>2. ~form'.open
      BY <2>4, <3>1 DEF Shut
    <3> QED BY <3>2, ChoiceShut
  <2> QED BY <1>1, <2>1, <2>2, <2>3, <2>4 DEF After
<1>10. ASSUME NEW q \in Request, Api(q) \/ Server(q) PROVE UNCHANGED <<form, lookup>>
  BY <1>10 DEF Api, Server, RemoveAccount, CreateProvider, RemoveProvider, StartSeed,
     ResolveWriteEndpoint, LoginFails, WriteAccount, CountTenant, Counted, WriteProvider,
     DeleteProvider, SeedProvider, SeedEntry, EndSeed, panel
<1>11. ASSUME Dialog PROVE ChoiceInv'
  <2>1. ASSUME \/ \E p \in Provider : OpenProvider(p)
               \/ CloseProvider
               \/ \E q \in Request, endpoint \in Endpoint, active \in BOOLEAN, names \in SUBSET Entry :
                    SaveProvider(q, endpoint, active, names)
        PROVE  UNCHANGED <<form, lookup>>
    BY <2>1 DEF OpenProvider, CloseProvider, SaveProvider
  <2> QED BY <1>1, <1>2, <1>3, <1>4, <1>5, <1>6, <1>7, <1>8, <1>9, <1>11, <2>1 DEF Dialog
<1> QED BY <1>1, <1>10, <1>11 DEF Next, vars

(* A service chosen while no answer is awaited stays in the dialog until   *)
(* the user chooses again, and a dialog opened then shows the account's or *)
(* one detected for it, whatever is asked for and answered afterwards      *)
(* (AccountFormDialog.tsx, providerTouched).                               *)
THEOREM ChoiceStays ==
  Spec => []ChoiceIsKept
<1>1. Init => ChoiceInv
  BY DEF Init, ChoiceInv, ChoiceIsKept, Closed
<1>2. TypeInv /\ DataInv /\ ChoiceInv /\ [Next]_vars => ChoiceInv'
  BY ChoiceStep
<1>3. ChoiceInv => ChoiceIsKept
  BY DEF ChoiceInv
<1> QED BY <1>1, <1>2, <1>3, DataAlways, PTL DEF Spec
=============================================================================
