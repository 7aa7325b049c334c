---------------------------- MODULE PanelSession ----------------------------
(***************************************************************************)
(* One tab of the web panel and the authentication of the server: login,   *)
(* the rotation of refresh tokens, the one refresh that all requests with  *)
(* an expired access token share, logout, and the stores that cache the    *)
(* tenant's data across the answers that arrive late. A token number       *)
(* stands for a pair of access and refresh token.                          *)
(***************************************************************************)
EXTENDS Integers, FiniteSets

CONSTANTS
  User,          \* users of the panel, each of a tenant of its own
  NoUser,
  Receptor,      \* taxpayers the tenants keep books for
  NoReceptor,
  TenantOf,      \* receptor -> user of its tenant
  Call,          \* requests the tab may have in flight
  MaxToken,      \* bound: token pairs ever issued
  Logins,        \* bound: logins
  Disruptions,   \* bound: access tokens that reach their TTL, refresh
                 \* answers the network loses
  Patient        \* TRUE: nobody logs in during a refresh or over the tokens
                 \* that a late one has stored, nor leaves the catalogue
                 \* during a write

Token == 1..MaxToken

ASSUME PanelAssumption ==
  /\ NoUser \notin User
  /\ NoReceptor \notin Receptor
  /\ TenantOf \in [Receptor -> User]
  /\ MaxToken \in Nat /\ Logins \in Nat /\ Disruptions \in Nat
  /\ Patient \in BOOLEAN

VARIABLES
  current,       \* user -> the token of users.currentRefreshTokenHash, 0 null
  owner,         \* token -> the user it was issued to
  expired,       \* tokens whose access token is past its TTL
  page,          \* what the tab shows
  auth,          \* auth-store: the token pair, 0 none
  generation,    \* of the stores: the resets so far
  accounts,      \* accounts-store; of: whose accounts it holds
  activities,    \* purchase-activities-store; of: whose activities it holds
  calls,         \* the requests in flight
  refresh,       \* refreshPromise and its request
  login,         \* the request of the login page
  left           \* budgets

vars == <<current, owner, expired, page, auth, generation, accounts, activities,
          calls, refresh, login, left>>
tokens == <<current, owner, expired>>
stores == <<generation, accounts, activities>>

Kind == {"none", "accounts", "activities", "create", "logout"}
CallRecord == [kind : Kind, phase : {"sent", "denied", "waiting", "answered", "refused"},
               token : Token \cup {0}, again : BOOLEAN, generation : Nat,
               receptor : Receptor \cup {NoReceptor}, from : User \cup {NoUser}]

NoCall == [kind |-> "none", phase |-> "sent", token |-> 0, again |-> FALSE,
           generation |-> 0, receptor |-> NoReceptor, from |-> NoUser]
NoRefresh == [phase |-> "idle", token |-> 0, seen |-> 0]
NoLogin == [phase |-> "idle", user |-> NoUser, token |-> 0]
EmptyAccounts == [loading |-> FALSE, loaded |-> FALSE, of |-> {}]
EmptyActivities == [receptor |-> NoReceptor, loading |-> FALSE, of |-> {}]

Init ==
  /\ current = [u \in User |-> 0]
  /\ owner = [t \in Token |-> NoUser]
  /\ expired = {}
  /\ page = "login"
  /\ auth = 0
  /\ generation = 0
  /\ accounts = EmptyAccounts
  /\ activities = EmptyActivities
  /\ calls = [c \in Call |-> NoCall]
  /\ refresh = NoRefresh
  /\ login = NoLogin
  /\ left = [login |-> Logins, disrupt |-> Disruptions]

Issued == {t \in Token : owner[t] # NoUser}
NextToken == Cardinality(Issued) + 1
InFlight(kind) == \E c \in Call : calls[c].kind = kind
User0(t) == IF t = 0 THEN NoUser ELSE owner[t]

-----------------------------------------------------------------------------
(* The stores: every one of them is emptied when a session opens or ends.  *)

EmptiedButLoading ==                    \* mutant: the flag survives
  /\ accounts' = [EmptyAccounts EXCEPT !.loading = accounts.loading]
  /\ activities' = EmptyActivities

Emptied ==
  /\ accounts' = EmptyAccounts
  /\ activities' = EmptyActivities

ResetStores == Emptied /\ generation' = generation + 1

(* endSession and redirectToLogin: the page is loaded anew and nothing     *)
(* that was in flight is heard of again.                                   *)
EndAndRedirect ==
  /\ auth' = 0
  /\ page' = "login"
  /\ Emptied /\ generation' = 0
  /\ calls' = [c \in Call |-> NoCall]
  /\ refresh' = NoRefresh
  /\ login' = NoLogin

-----------------------------------------------------------------------------
(* Requests.                                                               *)

Request(kind, r) ==
  [kind |-> kind, phase |-> "sent", token |-> auth, again |-> FALSE,
   generation |-> generation, receptor |-> r, from |-> NoUser]

Send(c, kind, r) ==
  /\ page = "panel" /\ auth # 0
  /\ calls[c].kind = "none"
  /\ calls' = [calls EXCEPT ![c] = Request(kind, r)]
  /\ UNCHANGED <<tokens, page, auth, generation, refresh, login, left>>

(* No view asks for a forced fetch.                                        *)
FetchAccounts(c) ==
  /\ ~accounts.loading /\ ~accounts.loaded
  /\ accounts' = [accounts EXCEPT !.loading = TRUE]
  /\ Send(c, "accounts", NoReceptor)
  /\ UNCHANGED activities

(* The receptor is set before the answer, and what was there is dropped.   *)
Load(c, r) ==
  /\ TenantOf[r] = User0(auth) /\ r # activities.receptor
  /\ Patient => ~InFlight("create")
  /\ activities' = [receptor |-> r, loading |-> TRUE, of |-> {}]
  /\ Send(c, "activities", r)
  /\ UNCHANGED accounts

CreateActivity(c) ==
  /\ activities.receptor # NoReceptor
  /\ Patient => ~InFlight("logout")
  /\ Send(c, "create", activities.receptor)
  /\ UNCHANGED <<accounts, activities>>

Logout(c) ==
  /\ ~InFlight("logout")
  /\ Patient => ~InFlight("create")
  /\ Send(c, "logout", NoReceptor)
  /\ UNCHANGED <<accounts, activities>>

(* The server: the guard, then the handler. The receptor of another tenant *)
(* is not found.                                                           *)
Serve(c) ==
  /\ calls[c].kind # "none" /\ calls[c].phase = "sent"
  /\ LET u == owner[calls[c].token]
         r == calls[c].receptor
         mine == r \in Receptor => TenantOf[r] = u
     IN IF calls[c].token \in expired
        THEN /\ calls' = [calls EXCEPT ![c].phase = "denied"]
             /\ UNCHANGED current
        ELSE /\ calls' = [calls EXCEPT ![c].phase = IF mine THEN "answered" ELSE "refused",
                                       ![c].from = u]
             /\ current' = IF calls[c].kind = "logout"
                           THEN [current EXCEPT ![u] = 0] ELSE current
  /\ UNCHANGED <<owner, expired, page, auth, stores, refresh, login, left>>

Unchecked == TRUE                       \* mutant: a refresh without a token

HasRefreshToken == auth # 0

(* A 401 starts the refresh or joins the one under way; a second 401 is an *)
(* answer like any other.                                                  *)
Unauthorized(c) ==
  /\ calls[c].phase = "denied"
  /\ \/ /\ calls[c].again
        /\ calls' = [calls EXCEPT ![c].phase = "refused"]
        /\ UNCHANGED <<page, auth, stores, refresh, login>>
     \/ /\ ~calls[c].again
        /\ refresh.phase # "idle" \/ HasRefreshToken
        /\ calls' = [calls EXCEPT ![c].phase = "waiting"]
        /\ refresh' = IF refresh.phase # "idle" THEN refresh
                      ELSE [phase |-> "sent", token |-> auth, seen |-> 0]
        /\ UNCHANGED <<page, auth, stores, login>>
     \/ /\ ~calls[c].again
        /\ refresh.phase = "idle" /\ ~HasRefreshToken
        /\ EndAndRedirect
  /\ UNCHANGED <<tokens, left>>

-----------------------------------------------------------------------------
(* The refresh: the server reads the user's row and writes it later.       *)

RefreshRead ==
  /\ refresh.phase = "sent"
  /\ LET seen == current[owner[refresh.token]]
     IN refresh' = [refresh EXCEPT !.phase = IF seen = 0 THEN "failed" ELSE "read",
                                   !.seen = seen]
  /\ UNCHANGED <<tokens, page, auth, stores, calls, login, left>>

(* A token that was rotated already ends the user's session; the current   *)
(* one is exchanged for the next.                                          *)
RefreshWrite ==
  /\ refresh.phase = "read"
  /\ LET u == owner[refresh.token]
     IN IF refresh.seen # refresh.token
        THEN /\ current' = [current EXCEPT ![u] = 0]
             /\ refresh' = [refresh EXCEPT !.phase = "failed"]
             /\ UNCHANGED owner
        ELSE /\ NextToken \in Token
             /\ owner' = [owner EXCEPT ![NextToken] = u]
             /\ current' = [current EXCEPT ![u] = NextToken]
             /\ refresh' = [refresh EXCEPT !.phase = "ok", !.token = NextToken]
  /\ UNCHANGED <<expired, page, auth, stores, calls, login, left>>

RefreshLost ==
  /\ refresh.phase \in {"sent", "ok"}
  /\ left.disrupt > 0
  /\ left' = [left EXCEPT !.disrupt = @ - 1]
  /\ refresh' = [refresh EXCEPT !.phase = "failed"]
  /\ UNCHANGED <<tokens, page, auth, stores, calls, login>>

KeepTokens(t) == auth                   \* mutant: the new pair is not stored

SetTokens(t) == t

(* The new pair is stored, whatever session is open by now, and every      *)
(* request that waited goes out again.                                     *)
RefreshAnswered ==
  /\ refresh.phase = "ok"
  /\ auth' = SetTokens(refresh.token)
  /\ refresh' = NoRefresh
  /\ calls' = [c \in Call |->
       IF calls[c].phase # "waiting" THEN calls[c]
       ELSE [calls[c] EXCEPT !.phase = "sent", !.again = TRUE, !.token = auth']]
  /\ UNCHANGED <<tokens, page, stores, login, left>>

RefreshFailed ==
  /\ refresh.phase = "failed"
  /\ EndAndRedirect
  /\ UNCHANGED <<tokens, left>>

-----------------------------------------------------------------------------
(* Answers.                                                                *)

AnyGeneration(c) == TRUE                \* mutant: late answers count

SameGeneration(c) == calls[c].generation = generation

SameReceptor(c) == SameGeneration(c) /\ activities.receptor = calls[c].receptor

Done(c) == calls' = [calls EXCEPT ![c] = NoCall]

Arrived(c, kind) ==
  /\ calls[c].kind = kind /\ calls[c].phase \in {"answered", "refused"}
  /\ Done(c)
  /\ UNCHANGED <<tokens, refresh, login, left>>

AccountsAnswered(c) ==
  /\ Arrived(c, "accounts")
  /\ accounts' = IF ~SameGeneration(c) THEN accounts
                 ELSE IF calls[c].phase = "answered"
                 THEN [loading |-> FALSE, loaded |-> TRUE, of |-> {calls[c].from}]
                 ELSE [accounts EXCEPT !.loading = FALSE]
  /\ UNCHANGED <<page, auth, generation, activities>>

ActivitiesAnswered(c) ==
  /\ Arrived(c, "activities")
  /\ activities' = IF ~SameReceptor(c) THEN activities
                   ELSE IF calls[c].phase = "answered"
                   THEN [activities EXCEPT !.loading = FALSE, !.of = {calls[c].receptor}]
                   ELSE [activities EXCEPT !.loading = FALSE]
  /\ UNCHANGED <<page, auth, generation, accounts>>

(* The created activity joins the list as it is now.                       *)
CreateAnswered(c) ==
  /\ Arrived(c, "create")
  /\ activities' = IF calls[c].phase = "refused" THEN activities
                   ELSE [activities EXCEPT !.of = @ \cup {calls[c].receptor}]
  /\ UNCHANGED <<page, auth, generation, accounts>>

(* endSession and a soft navigation: the other requests go on.             *)
LogoutAnswered(c) ==
  /\ Arrived(c, "logout")
  /\ auth' = 0
  /\ page' = "login"
  /\ ResetStores

-----------------------------------------------------------------------------
(* The login page.                                                         *)

StartLogin(u) ==
  /\ page = "login" /\ login.phase = "idle"
  /\ Patient => refresh.phase = "idle" /\ auth = 0
  /\ left.login > 0
  /\ left' = [left EXCEPT !.login = @ - 1]
  /\ login' = [phase |-> "sent", user |-> u, token |-> 0]
  /\ UNCHANGED <<tokens, page, auth, stores, calls, refresh>>

LoginServed ==
  /\ login.phase = "sent"
  /\ NextToken \in Token
  /\ owner' = [owner EXCEPT ![NextToken] = login.user]
  /\ current' = [current EXCEPT ![login.user] = NextToken]
  /\ login' = [login EXCEPT !.phase = "ok", !.token = NextToken]
  /\ UNCHANGED <<expired, page, auth, stores, calls, refresh, left>>

(* startSession.                                                           *)
LoginAnswered ==
  /\ login.phase = "ok"
  /\ ResetStores
  /\ auth' = login.token
  /\ page' = "panel"
  /\ login' = NoLogin
  /\ UNCHANGED <<tokens, calls, refresh, left>>

Expire(t) ==
  /\ t \in Issued \ expired
  /\ left.disrupt > 0
  /\ left' = [left EXCEPT !.disrupt = @ - 1]
  /\ expired' = expired \cup {t}
  /\ UNCHANGED <<current, owner, page, auth, stores, calls, refresh, login>>

-----------------------------------------------------------------------------
Progress(c) ==
  \/ Serve(c) \/ Unauthorized(c)
  \/ AccountsAnswered(c) \/ ActivitiesAnswered(c) \/ CreateAnswered(c) \/ LogoutAnswered(c)

RefreshStep == RefreshRead \/ RefreshWrite \/ RefreshAnswered \/ RefreshFailed

Next ==
  \/ \E c \in Call :
       \/ Progress(c)
       \/ FetchAccounts(c)
       \/ \E r \in Receptor : Load(c, r)
       \/ CreateActivity(c) \/ Logout(c)
  \/ RefreshStep \/ RefreshLost
  \/ \E u \in User : StartLogin(u)
  \/ LoginServed \/ LoginAnswered
  \/ \E t \in Token : Expire(t)

Spec == Init /\ [][Next]_vars

(* Requests are answered and their callbacks run.                          *)
Fairness ==
  /\ \A c \in Call : WF_vars(Progress(c))
  /\ WF_vars(RefreshStep) /\ WF_vars(LoginServed \/ LoginAnswered)
FairSpec == Spec /\ Fairness

-----------------------------------------------------------------------------
TypeOK ==
  /\ current \in [User -> Issued \cup {0}]
  /\ owner \in [Token -> User \cup {NoUser}]
  /\ expired \subseteq Issued
  /\ page \in {"login", "panel"}
  /\ auth \in Issued \cup {0}
  /\ generation \in Nat
  /\ accounts \in [loading : BOOLEAN, loaded : BOOLEAN, of : SUBSET User]
  /\ activities \in [receptor : Receptor \cup {NoReceptor}, loading : BOOLEAN,
                     of : SUBSET Receptor]
  /\ calls \in [Call -> CallRecord]
  /\ \A c \in Call : calls[c].kind # "none" => calls[c].token \in Issued
  /\ refresh \in [phase : {"idle", "sent", "read", "ok", "failed"},
                  token : Issued \cup {0}, seen : Token \cup {0}]
  /\ refresh.phase # "idle" => refresh.token \in Issued
  /\ login \in [phase : {"idle", "sent", "ok"}, user : User \cup {NoUser},
                token : Issued \cup {0}]
  /\ left \in [login : Nat, disrupt : Nat]

(* The stores show data of the session that is open, and nothing outside   *)
(* one, although answers of the session before may still arrive; the        *)
(* catalogue on the screen is that of the receptor selected.                *)
StoresBelongToSession ==
  /\ accounts.of \subseteq {User0(auth)}
  /\ \A r \in activities.of : TenantOf[r] = User0(auth)
  /\ activities.of \subseteq {activities.receptor}
  /\ page = "login" => accounts.of = {} /\ activities.of = {}

(* While the panel is open and neither a refresh nor a logout is under     *)
(* way, its refresh token is the one the server expects: the tab does not  *)
(* end its own session by presenting a token it has already exchanged.     *)
SessionIsLive ==
  page = "panel" /\ refresh.phase = "idle" /\ ~InFlight("logout")
    => auth # 0 /\ current[owner[auth]] = auth

(* The accounts do not stay in loading, whatever 401s, refreshes and       *)
(* changes of session cross the request.                                   *)
LoadsEnd == accounts.loading ~> ~accounts.loading
=============================================================================
