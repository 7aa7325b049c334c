----------------------------- MODULE PanelProofs -----------------------------
(***************************************************************************)
(* Theorems about PanelSession, for any number of users, receptors, tokens *)
(* and requests in flight: its types; and, for a patient user, that the    *)
(* stores belong to the open session and that the tab never ends its own   *)
(* session.                                                                *)
(***************************************************************************)
EXTENDS PanelSession, FiniteSetTheorems, TLAPS

(* Tokens are issued in the order of their numbers.                        *)
InOrder == \E n \in 0..MaxToken : Issued = 1..n

(* What a request carries from the view to its answer: the receptor it is  *)
(* about, and, once answered, the user the server took it from.            *)
CallOK(c) ==
  /\ calls[c].phase # "sent" => calls[c].kind # "none"
  /\ calls[c].kind \in {"activities", "create"} => calls[c].receptor \in Receptor
  /\ calls[c].phase = "answered" =>
       /\ calls[c].from = owner[calls[c].token]
       /\ calls[c].receptor \in Receptor => TenantOf[calls[c].receptor] = calls[c].from

LoginOK ==
  /\ login.phase # "idle" => login.user \in User
  /\ login.phase = "ok" => login.token \in Issued

TypeInv == TypeOK /\ InOrder /\ LoginOK /\ \A c \in Call : CallOK(c)

-----------------------------------------------------------------------------
(* The next token is a new one.                                            *)
LEMMA NextIsNew ==
  ASSUME InOrder
  PROVE  /\ NextToken \notin Issued
         /\ NextToken \in Nat \ {0}
         /\ NextToken \in Token => \E n \in 0..MaxToken : Issued \cup {NextToken} = 1..n
<1>1. PICK n \in 0..MaxToken : Issued = 1..n
  BY DEF InOrder
<1>2. MaxToken \in Nat
  BY PanelAssumption
<1>3. n \in Nat
  BY <1>2
<1>4. Cardinality(1..n) = n
  <2>1. Cardinality(1..n) = IF 1 > n THEN 0 ELSE n - 1 + 1
    BY <1>3, FS_Interval, 1 \in Int, n \in Int
  <2> QED BY <2>1, <1>3
<1>5. NextToken = n + 1
  BY <1>1, <1>4 DEF NextToken
<1>6. NextToken \notin Issued /\ NextToken \in Nat \ {0}
  BY <1>1, <1>3, <1>5
<1>7. ASSUME NextToken \in Token PROVE n + 1 \in 0..MaxToken /\ Issued \cup {NextToken} = 1..(n + 1)
  BY <1>1, <1>2, <1>3, <1>5, <1>7 DEF Token
<1> QED BY <1>6, <1>7

(* Issuing it to a user leaves the owners of the others alone.             *)
LEMMA Issuing ==
  ASSUME TypeInv, NextToken \in Token, NEW u \in User, owner' = [owner EXCEPT ![NextToken] = u]
  PROVE  /\ Issued' = Issued \cup {NextToken}
         /\ InOrder'
         /\ owner' \in [Token -> User \cup {NoUser}]
         /\ owner'[NextToken] = u
         /\ \A t \in Issued : owner'[t] = owner[t]
<1>1. owner \in [Token -> User \cup {NoUser}] /\ NoUser \notin User
  BY PanelAssumption DEF TypeInv, TypeOK
<1>2. NextToken \notin Issued
  BY NextIsNew DEF TypeInv
<1>3. owner' \in [Token -> User \cup {NoUser}]
  BY <1>1
<1>4. \A t \in Token : owner'[t] = IF t = NextToken THEN u ELSE owner[t]
  BY <1>1
<1>5. Issued' = Issued \cup {NextToken}
  BY <1>1, <1>4 DEF Issued
<1>6. InOrder'
  BY <1>5, NextIsNew DEF TypeInv, InOrder
<1>7. \A t \in Issued : owner'[t] = owner[t]
  BY <1>2, <1>4 DEF Issued
<1> QED BY <1>3, <1>4, <1>5, <1>6, <1>7

LEMMA Unissued ==
  ASSUME UNCHANGED owner
  PROVE  Issued' = Issued /\ (InOrder => InOrder')
BY DEF Issued, InOrder

LEMMA Owners ==
  ASSUME TypeInv
  PROVE  \A t \in Issued : t \in Token /\ t # 0 /\ owner[t] \in User
BY PanelAssumption DEF TypeInv, TypeOK, Issued, Token

-----------------------------------------------------------------------------
(* Types.                                                                  *)

LEMMA TypeInvInit == Init => TypeInv
<1> SUFFICES ASSUME Init PROVE TypeInv
  OBVIOUS
<1>1. Issued = {} /\ Issued = 1..0
  BY DEF Init, Issued
<1>2. InOrder
  BY <1>1, PanelAssumption DEF InOrder
<1>3. TypeOK
  BY <1>1, PanelAssumption DEF Init, TypeOK, CallRecord, Kind, NoCall, NoRefresh, NoLogin,
     EmptyAccounts, EmptyActivities
<1>4. LoginOK /\ \A c \in Call : CallOK(c)
  BY DEF Init, LoginOK, CallOK, NoCall, NoLogin
<1> QED BY <1>2, <1>3, <1>4 DEF TypeInv

(* A request that is sent holds the token of the session.                  *)
LEMMA SendTypes ==
  ASSUME TypeInv, NEW c \in Call, NEW kind \in Kind \ {"none"},
         NEW r \in Receptor \cup {NoReceptor},
         kind \in {"activities", "create"} => r \in Receptor,
         Send(c, kind, r),
         accounts' \in [loading : BOOLEAN, loaded : BOOLEAN, of : SUBSET User],
         activities' \in [receptor : Receptor \cup {NoReceptor}, loading : BOOLEAN,
                          of : SUBSET Receptor]
  PROVE  TypeInv'
<1>1. Issued' = Issued /\ InOrder'
  BY Unissued DEF Send, tokens, TypeInv
<1>2. auth \in Issued /\ generation \in Nat /\ calls \in [Call -> CallRecord]
  BY DEF Send, TypeInv, TypeOK
<1>3. auth \in Token
  BY <1>2, Owners
<1>4. Request(kind, r) \in CallRecord
  BY <1>2, <1>3, PanelAssumption DEF Request, CallRecord
<1>5. calls' = [calls EXCEPT ![c] = Request(kind, r)]
  BY DEF Send
<1>6. calls' \in [Call -> CallRecord]
  BY <1>2, <1>4, <1>5
<1>7. \A d \in Call : calls'[d].kind # "none" => calls'[d].token \in Issued'
  BY <1>1, <1>2, <1>5 DEF Request, TypeInv, TypeOK
<1>8. TypeOK'
  BY <1>1, <1>6, <1>7 DEF TypeInv, TypeOK, Send, tokens
<1>9. ASSUME NEW d \in Call PROVE CallOK(d)'
  BY <1>2, <1>5 DEF TypeInv, CallOK, Request, Send, tokens
<1>10. LoginOK'
  BY <1>1 DEF LoginOK, TypeInv, Send
<1> QED BY <1>1, <1>8, <1>9, <1>10 DEF TypeInv

(* The page is loaded anew.                                                *)
LEMMA RedirectTypes ==
  ASSUME TypeInv, EndAndRedirect, UNCHANGED <<tokens, left>>
  PROVE  TypeInv'
<1>1. Issued' = Issued /\ InOrder'
  BY Unissued DEF tokens, TypeInv
<1>2. TypeOK'
  BY <1>1 DEF TypeInv, TypeOK, EndAndRedirect, Emptied, tokens, CallRecord, Kind, NoCall,
     NoRefresh, NoLogin, EmptyAccounts, EmptyActivities
<1>3. LoginOK' /\ \A c \in Call : CallOK(c)'
  BY DEF EndAndRedirect, LoginOK, CallOK, NoCall, NoLogin
<1> QED BY <1>1, <1>2, <1>3 DEF TypeInv

(* A request moves on in its phases.                                       *)
LEMMA PhaseTypes ==
  ASSUME TypeInv, NEW c \in Call, calls[c].kind # "none", NEW r \in CallRecord,
         r.kind = calls[c].kind, r.token = calls[c].token, r.receptor = calls[c].receptor,
         r.phase = "answered" =>
           /\ r.from = owner[r.token]
           /\ r.receptor \in Receptor => TenantOf[r.receptor] = r.from,
         calls' = [calls EXCEPT ![c] = r], UNCHANGED owner
  PROVE  /\ calls' \in [Call -> CallRecord]
         /\ \A d \in Call : calls'[d].kind # "none" => calls'[d].token \in Issued'
         /\ \A d \in Call : CallOK(d)'
<1>1. calls \in [Call -> CallRecord] /\ Issued' = Issued
  BY Unissued DEF TypeInv, TypeOK
<1>2. calls' \in [Call -> CallRecord]
  BY <1>1
<1>3. \A d \in Call : calls'[d] = IF d = c THEN r ELSE calls[d]
  BY <1>1
<1>4. \A d \in Call : calls'[d].kind # "none" => calls'[d].token \in Issued
  BY <1>3 DEF TypeInv, TypeOK
<1>5. ASSUME NEW d \in Call PROVE CallOK(d)'
  BY <1>3 DEF TypeInv, CallOK
<1> QED BY <1>1, <1>2, <1>4, <1>5

(* The record of a request whose phase, or phase and user, are set.        *)
Phased(r, ph, u) ==
  [kind |-> r.kind, phase |-> ph, token |-> r.token, again |-> r.again,
   generation |-> r.generation, receptor |-> r.receptor, from |-> u]

LEMMA PhaseSet ==
  ASSUME TypeInv, NEW c \in Call, NEW ph \in {"denied", "waiting", "answered", "refused"},
         NEW u \in User \cup {NoUser}
  PROVE  /\ Phased(calls[c], ph, u) \in CallRecord
         /\ [calls EXCEPT ![c].phase = ph] = [calls EXCEPT ![c] = Phased(calls[c], ph, calls[c].from)]
<1>1. calls \in [Call -> CallRecord] /\ calls[c] \in CallRecord
  BY DEF TypeInv, TypeOK
<1> DEFINE r1 == Phased(calls[c], ph, calls[c].from)
           r2 == Phased(calls[c], ph, u)
           first == [calls EXCEPT ![c].phase = ph]
<1>2. r1 \in CallRecord /\ r2 \in CallRecord
  BY <1>1 DEF Phased, CallRecord
<1>3. [calls[c] EXCEPT !.phase = ph] = r1
  BY <1>1 DEF CallRecord, Phased
<1>5. first = [calls EXCEPT ![c] = r1]
  <2>1. first = [calls EXCEPT ![c] = [calls[c] EXCEPT !.phase = ph]]
    BY <1>1
  <2> QED BY <2>1, <1>3, Zenon
<1> QED BY <1>2, <1>5

LEMMA ServeTypes ==
  ASSUME TypeInv, NEW c \in Call, Serve(c)
  PROVE  TypeInv'
<1> DEFINE u == owner[calls[c].token]
           r == calls[c].receptor
           mine == r \in Receptor => TenantOf[r] = u
<1>1. /\ calls[c] \in CallRecord /\ calls[c].kind # "none" /\ calls[c].token \in Issued
      /\ u \in User /\ calls \in [Call -> CallRecord]
  <2>1. calls[c].kind # "none" /\ calls[c].token \in Issued /\ calls \in [Call -> CallRecord]
    BY DEF Serve, TypeInv, TypeOK
  <2> QED BY <2>1, Owners
<1>2. Issued' = Issued /\ InOrder'
  BY Unissued DEF Serve, TypeInv
<1>3. \E ph \in {"denied", "answered", "refused"}, v \in User \cup {NoUser} :
        /\ calls' = [calls EXCEPT ![c] = Phased(calls[c], ph, v)]
        /\ ph = "answered" => v = u /\ mine
  <2>1. CASE calls[c].token \in expired
    <3>1. calls' = [calls EXCEPT ![c].phase = "denied"]
      BY <2>1 DEF Serve
    <3>2. calls' = [calls EXCEPT ![c] = Phased(calls[c], "denied", calls[c].from)]
      BY <3>1, PhaseSet, <1>1
    <3>3. calls[c].from \in User \cup {NoUser}
      BY <1>1 DEF CallRecord
    <3> QED BY <3>2, <3>3
  <2>2. CASE calls[c].token \notin expired
    <3> DEFINE ph == IF mine THEN "answered" ELSE "refused"
    <3>1. ph \in {"denied", "answered", "refused"} /\ (ph = "answered" => mine)
      OBVIOUS
    <3> DEFINE first == [calls EXCEPT ![c].phase = ph]
    <3>2. calls' = [first EXCEPT ![c].from = u]
      BY <2>2 DEF Serve
    <3>3. first = [calls EXCEPT ![c].phase = ph]
      OBVIOUS
    <3> HIDE DEF ph, mine, u, first
    <3>4. calls' = [calls EXCEPT ![c] = Phased(calls[c], ph, u)]
      <4> DEFINE r1 == Phased(calls[c], ph, calls[c].from)
      <4>1. ph \in {"denied", "waiting", "answered", "refused"}
        BY <3>1
      <4>2. [calls EXCEPT ![c].phase = ph] = [calls EXCEPT ![c] = r1]
        BY <4>1, PhaseSet
      <4>3. first = [calls EXCEPT ![c] = r1]
        BY <3>3, <4>2
      <4>4. [r1 EXCEPT !.from = u] = Phased(calls[c], ph, u)
        BY DEF Phased
      <4> HIDE DEF r1
      <4>5. calls' = [calls EXCEPT ![c] = [r1 EXCEPT !.from = u]]
        BY <3>2, <4>3, <1>1
      <4> QED BY <4>4, <4>5
    <3> QED BY <3>1, <3>4, <1>1
  <2> QED BY <2>1, <2>2
<1>4. PICK ph \in {"denied", "answered", "refused"}, v \in User \cup {NoUser} :
        /\ calls' = [calls EXCEPT ![c] = Phased(calls[c], ph, v)]
        /\ ph = "answered" => v = u /\ mine
  BY <1>3
<1>5. /\ calls' \in [Call -> CallRecord]
      /\ \A d \in Call : calls'[d].kind # "none" => calls'[d].token \in Issued'
      /\ \A d \in Call : CallOK(d)'
  <2> DEFINE s == Phased(calls[c], ph, v)
  <2>1. s \in CallRecord
    BY PhaseSet
  <2>2. /\ s.kind = calls[c].kind /\ s.token = calls[c].token /\ s.receptor = calls[c].receptor
        /\ s.phase = ph /\ s.from = v
    BY DEF Phased
  <2>3. UNCHANGED owner
    BY DEF Serve
  <2> HIDE DEF s
  <2>4. calls' = [calls EXCEPT ![c] = s]
    BY <1>4 DEF s
  <2>5. s.phase = "answered" =>
           /\ s.from = owner[s.token]
           /\ s.receptor \in Receptor => TenantOf[s.receptor] = s.from
    BY <1>4, <2>2
  <2> QED BY <1>1, <2>1, <2>2, <2>3, <2>4, <2>5, PhaseTypes
<1>6. current' \in [User -> Issued \cup {0}]
  BY <1>1 DEF Serve, TypeInv, TypeOK
<1>7. TypeOK'
  BY <1>2, <1>5, <1>6 DEF TypeInv, TypeOK, Serve, stores
<1>8. LoginOK'
  BY <1>2 DEF TypeInv, LoginOK, Serve
<1> QED BY <1>2, <1>5, <1>7, <1>8 DEF TypeInv

(* A request that is refused, or waits for a refresh.                      *)
LEMMA SetAside ==
  ASSUME TypeInv, NEW c \in Call, calls[c].phase # "sent", NEW ph \in {"waiting", "refused"},
         calls' = [calls EXCEPT ![c].phase = ph], UNCHANGED owner
  PROVE  /\ calls' \in [Call -> CallRecord]
         /\ \A d \in Call : calls'[d].kind # "none" => calls'[d].token \in Issued'
         /\ \A d \in Call : CallOK(d)'
<1> DEFINE s == Phased(calls[c], ph, calls[c].from)
<1>1. calls[c] \in CallRecord /\ calls[c].from \in User \cup {NoUser}
  BY DEF TypeInv, TypeOK, CallRecord
<1>2. s \in CallRecord /\ calls' = [calls EXCEPT ![c] = s]
  BY <1>1, PhaseSet
<1>3. /\ s.kind = calls[c].kind /\ s.token = calls[c].token /\ s.receptor = calls[c].receptor
      /\ s.phase = ph
  BY DEF Phased
<1>4. calls[c].kind # "none"
  BY DEF TypeInv, CallOK
<1> HIDE DEF s
<1> QED BY <1>2, <1>3, <1>4, PhaseTypes

LEMMA UnauthorizedTypes ==
  ASSUME TypeInv, NEW c \in Call, Unauthorized(c)
  PROVE  TypeInv'
<1>1. Issued' = Issued /\ InOrder' /\ UNCHANGED owner
  BY Unissued DEF Unauthorized, tokens, TypeInv
<1>2. calls[c].phase # "sent"
  BY DEF Unauthorized
<1>3. CASE EndAndRedirect
  BY <1>3, RedirectTypes DEF Unauthorized
<1>4. CASE ~EndAndRedirect
  <2>1. PICK ph \in {"waiting", "refused"} : calls' = [calls EXCEPT ![c].phase = ph]
    BY <1>4 DEF Unauthorized
  <2>2. /\ calls' \in [Call -> CallRecord]
        /\ \A d \in Call : calls'[d].kind # "none" => calls'[d].token \in Issued'
        /\ \A d \in Call : CallOK(d)'
    BY <1>1, <1>2, <2>1, SetAside
  <2>3. /\ refresh' \in [phase : {"idle", "sent", "read", "ok", "failed"},
                         token : Issued \cup {0}, seen : Token \cup {0}]
        /\ refresh'.phase # "idle" => refresh'.token \in Issued
    BY <1>4 DEF Unauthorized, HasRefreshToken, TypeInv, TypeOK
  <2>4. UNCHANGED <<page, auth, stores, login, tokens, left>>
    BY <1>4 DEF Unauthorized
  <2>5. TypeOK'
    BY <1>1, <2>2, <2>3, <2>4 DEF TypeInv, TypeOK, stores, tokens
  <2>6. LoginOK'
    BY <1>1, <2>4 DEF TypeInv, LoginOK
  <2> QED BY <1>1, <2>2, <2>5, <2>6 DEF TypeInv
<1> QED BY <1>3, <1>4

(* Tokens are issued or not, and the requests stay as they are.            *)
LEMMA CallsStay ==
  ASSUME TypeInv, UNCHANGED calls, Issued \subseteq Issued',
         \A t \in Issued : owner'[t] = owner[t]
  PROVE  /\ calls' \in [Call -> CallRecord]
         /\ \A d \in Call : calls'[d].kind # "none" => calls'[d].token \in Issued'
         /\ \A d \in Call : CallOK(d)'
<1>1. calls' \in [Call -> CallRecord]
  BY DEF TypeInv, TypeOK
<1>2. \A d \in Call : calls'[d].kind # "none" => calls'[d].token \in Issued'
  BY DEF TypeInv, TypeOK
<1>3. ASSUME NEW d \in Call PROVE CallOK(d)'
  BY DEF TypeInv, TypeOK, CallOK
<1> QED BY <1>1, <1>2, <1>3

LEMMA RefreshWriteTypes ==
  ASSUME TypeInv, RefreshWrite
  PROVE  TypeInv'
<1> DEFINE u == owner[refresh.token]
<1>1. refresh.token \in Issued /\ u \in User /\ refresh.token \in Token
  <2>1. refresh.token \in Issued
    BY DEF RefreshWrite, TypeInv, TypeOK
  <2> QED BY <2>1, Owners
<1>2. CASE refresh.seen # refresh.token
  <2>1. /\ current' = [current EXCEPT ![u] = 0]
        /\ refresh' = [refresh EXCEPT !.phase = "failed"]
        /\ UNCHANGED <<owner, expired, page, auth, stores, calls, login, left>>
    BY <1>2 DEF RefreshWrite
  <2>2. Issued' = Issued /\ InOrder'
    BY <2>1, Unissued DEF TypeInv
  <2>3. /\ calls' \in [Call -> CallRecord]
        /\ \A d \in Call : calls'[d].kind # "none" => calls'[d].token \in Issued'
        /\ \A d \in Call : CallOK(d)'
    BY <2>1, <2>2, CallsStay
  <2>4. TypeOK'
    <3>1. current' \in [User -> Issued' \cup {0}]
      BY <1>1, <2>1, <2>2 DEF TypeInv, TypeOK
    <3>2. /\ refresh' \in [phase : {"idle", "sent", "read", "ok", "failed"},
                           token : Issued' \cup {0}, seen : Token \cup {0}]
          /\ refresh'.token \in Issued'
      BY <1>1, <2>1, <2>2 DEF TypeInv, TypeOK
    <3> QED BY <2>1, <2>2, <2>3, <3>1, <3>2 DEF TypeInv, TypeOK, stores
  <2>5. LoginOK'
    BY <2>1, <2>2 DEF TypeInv, LoginOK
  <2> QED BY <2>2, <2>3, <2>4, <2>5 DEF TypeInv
<1>3. CASE refresh.seen = refresh.token
  <2>1. /\ NextToken \in Token
        /\ owner' = [owner EXCEPT ![NextToken] = u]
        /\ current' = [current EXCEPT ![u] = NextToken]
        /\ refresh' = [refresh EXCEPT !.phase = "ok", !.token = NextToken]
        /\ UNCHANGED <<expired, page, auth, stores, calls, login, left>>
    BY <1>3 DEF RefreshWrite
  <2>2. /\ Issued' = Issued \cup {NextToken} /\ InOrder'
        /\ owner' \in [Token -> User \cup {NoUser}]
        /\ \A t \in Issued : owner'[t] = owner[t]
    BY <1>1, <2>1, Issuing
  <2>3. /\ calls' \in [Call -> CallRecord]
        /\ \A d \in Call : calls'[d].kind # "none" => calls'[d].token \in Issued'
        /\ \A d \in Call : CallOK(d)'
    BY <2>1, <2>2, CallsStay
  <2>4. refresh' = [phase |-> "ok", token |-> NextToken, seen |-> refresh.seen]
    BY <2>1 DEF TypeInv, TypeOK
  <2>5. TypeOK'
    <3>1. /\ refresh' \in [phase : {"idle", "sent", "read", "ok", "failed"},
                           token : Issued' \cup {0}, seen : Token \cup {0}]
          /\ refresh'.phase # "idle" => refresh'.token \in Issued'
      BY <2>2, <2>4 DEF TypeInv, TypeOK
    <3>2. current' \in [User -> Issued' \cup {0}]
      BY <1>1, <2>1, <2>2 DEF TypeInv, TypeOK
    <3> QED BY <2>1, <2>2, <2>3, <3>1, <3>2 DEF TypeInv, TypeOK, stores
  <2>6. LoginOK'
    BY <2>1, <2>2 DEF TypeInv, LoginOK
  <2> QED BY <2>2, <2>3, <2>5, <2>6 DEF TypeInv
<1> QED BY <1>2, <1>3

LEMMA LoginServedTypes ==
  ASSUME TypeInv, LoginServed
  PROVE  TypeInv'
<1>1. login.user \in User
  BY DEF LoginServed, TypeInv, LoginOK
<1>2. /\ NextToken \in Token
      /\ owner' = [owner EXCEPT ![NextToken] = login.user]
      /\ current' = [current EXCEPT ![login.user] = NextToken]
      /\ login' = [login EXCEPT !.phase = "ok", !.token = NextToken]
      /\ UNCHANGED <<expired, page, auth, stores, calls, refresh, left>>
  BY DEF LoginServed
<1>3. /\ Issued' = Issued \cup {NextToken} /\ InOrder'
      /\ owner' \in [Token -> User \cup {NoUser}]
      /\ \A t \in Issued : owner'[t] = owner[t]
  BY <1>1, <1>2, Issuing
<1>4. /\ calls' \in [Call -> CallRecord]
      /\ \A d \in Call : calls'[d].kind # "none" => calls'[d].token \in Issued'
      /\ \A d \in Call : CallOK(d)'
  BY <1>2, <1>3, CallsStay
<1>5. login' = [phase |-> "ok", user |-> login.user, token |-> NextToken]
  BY <1>2 DEF TypeInv, TypeOK
<1>6. TypeOK'
  BY <1>1, <1>2, <1>3, <1>4, <1>5 DEF TypeInv, TypeOK, stores
<1>7. LoginOK'
  BY <1>1, <1>3, <1>5 DEF LoginOK
<1> QED BY <1>3, <1>4, <1>6, <1>7 DEF TypeInv

(* The steps that move no request and issue no token.                      *)
LEMMA QuietTypes ==
  ASSUME TypeInv,
         \/ RefreshRead \/ RefreshLost \/ LoginAnswered
         \/ \E u \in User : StartLogin(u)
         \/ \E t \in Token : Expire(t)
  PROVE  TypeInv'
<1>1. UNCHANGED <<owner, calls>>
  BY DEF RefreshRead, RefreshLost, LoginAnswered, StartLogin, Expire, tokens
<1>2. Issued' = Issued /\ InOrder'
  BY <1>1, Unissued DEF TypeInv
<1>3. /\ calls' \in [Call -> CallRecord]
      /\ \A d \in Call : calls'[d].kind # "none" => calls'[d].token \in Issued'
      /\ \A d \in Call : CallOK(d)'
  BY <1>1, <1>2, CallsStay
<1>4. CASE RefreshRead
  <2>1. owner[refresh.token] \in User
    BY <1>4, Owners DEF RefreshRead, TypeInv, TypeOK
  <2>2. current[owner[refresh.token]] \in Token \cup {0}
    BY <2>1, Owners DEF TypeInv, TypeOK
  <2>3. TypeOK'
    <3>1. refresh' \in [phase : {"idle", "sent", "read", "ok", "failed"},
                        token : Issued' \cup {0}, seen : Token \cup {0}]
      BY <1>2, <1>4, <2>2 DEF TypeInv, TypeOK, RefreshRead
    <3>2. refresh'.token \in Issued'
      BY <1>2, <1>4 DEF TypeInv, TypeOK, RefreshRead
    <3> QED BY <1>2, <1>3, <1>4, <3>1, <3>2 DEF TypeInv, TypeOK, RefreshRead, tokens, stores
  <2>4. LoginOK'
    BY <1>2, <1>4 DEF TypeInv, LoginOK, RefreshRead
  <2> QED BY <1>2, <1>3, <2>3, <2>4 DEF TypeInv
<1>5. CASE RefreshLost
  <2>1. TypeOK'
    BY <1>2, <1>3, <1>5 DEF TypeInv, TypeOK, RefreshLost, tokens, stores
  <2>2. LoginOK'
    BY <1>2, <1>5 DEF TypeInv, LoginOK, RefreshLost
  <2> QED BY <1>2, <1>3, <2>1, <2>2 DEF TypeInv
<1>6. CASE LoginAnswered
  <2>1. TypeOK'
    BY <1>2, <1>3, <1>6 DEF TypeInv, TypeOK, LoginAnswered, tokens, ResetStores, Emptied,
       EmptyAccounts, EmptyActivities, NoLogin
  <2>2. LoginOK'
    BY <1>6 DEF LoginOK, LoginAnswered, NoLogin
  <2> QED BY <1>2, <1>3, <2>1, <2>2 DEF TypeInv
<1>7. ASSUME NEW u \in User, StartLogin(u) PROVE TypeInv'
  <2>1. TypeOK'
    BY <1>2, <1>3, <1>7 DEF TypeInv, TypeOK, StartLogin, tokens, stores
  <2>2. LoginOK'
    BY <1>7 DEF LoginOK, StartLogin
  <2> QED BY <1>2, <1>3, <2>1, <2>2 DEF TypeInv
<1>8. ASSUME NEW t \in Token, Expire(t) PROVE TypeInv'
  <2>1. TypeOK'
    BY <1>2, <1>3, <1>8 DEF TypeInv, TypeOK, Expire, stores
  <2>2. LoginOK'
    BY <1>2, <1>8 DEF TypeInv, LoginOK, Expire
  <2> QED BY <1>2, <1>3, <2>1, <2>2 DEF TypeInv
<1> QED BY <1>4, <1>5, <1>6, <1>7, <1>8

(* A request that waited goes out again with the new token.                *)
Resent(s, r, t) ==
  /\ s.phase = "sent" /\ s.token = t
  /\ s.kind = r.kind /\ s.generation = r.generation
  /\ s.receptor = r.receptor /\ s.from = r.from

LEMMA RefreshAnsweredCalls ==
  ASSUME TypeInv, RefreshAnswered
  PROVE  /\ refresh.token \in Issued /\ auth' = refresh.token
         /\ \A c \in Call : IF calls[c].phase # "waiting" THEN calls'[c] = calls[c]
                            ELSE Resent(calls'[c], calls[c], refresh.token)
         /\ calls' \in [Call -> CallRecord]
<1>1. refresh.token \in Issued /\ refresh.token \in Token
  BY Owners DEF TypeInv, TypeOK, RefreshAnswered
<1>2. auth' = refresh.token
  BY DEF RefreshAnswered, SetTokens
<1>3. ASSUME NEW c \in Call
      PROVE  /\ IF calls[c].phase # "waiting" THEN calls'[c] = calls[c]
                ELSE Resent(calls'[c], calls[c], refresh.token)
             /\ calls'[c] \in CallRecord
  <2>1. calls[c] \in CallRecord
    BY DEF TypeInv, TypeOK
  <2>2. calls'[c] = IF calls[c].phase # "waiting" THEN calls[c]
                    ELSE [calls[c] EXCEPT !.phase = "sent", !.again = TRUE, !.token = auth']
    BY DEF RefreshAnswered
  <2>3. CASE calls[c].phase # "waiting"
    BY <2>1, <2>2, <2>3
  <2>4. CASE calls[c].phase = "waiting"
    <3>1. calls'[c] = [calls[c] EXCEPT !.phase = "sent", !.again = TRUE, !.token = refresh.token]
      BY <1>2, <2>2, <2>4
    <3>2. calls'[c] \in CallRecord
      BY <1>1, <2>1, <3>1 DEF CallRecord
    <3>3. Resent(calls'[c], calls[c], refresh.token)
      BY <1>1, <2>1, <3>1 DEF CallRecord, Resent
    <3> QED BY <2>4, <3>2, <3>3
  <2> QED BY <2>3, <2>4
<1>4. calls' \in [Call -> CallRecord]
  <2>1. calls' = [c \in Call |-> calls'[c]]
    BY DEF RefreshAnswered
  <2> QED BY <1>3, <2>1
<1> QED BY <1>1, <1>2, <1>3, <1>4

LEMMA RefreshAnsweredTypes ==
  ASSUME TypeInv, RefreshAnswered
  PROVE  TypeInv'
<1>1. Issued' = Issued /\ InOrder' /\ UNCHANGED owner
  BY Unissued DEF RefreshAnswered, tokens, TypeInv
<1>2. /\ refresh.token \in Issued /\ auth' = refresh.token
      /\ \A c \in Call : IF calls[c].phase # "waiting" THEN calls'[c] = calls[c]
                         ELSE Resent(calls'[c], calls[c], refresh.token)
      /\ calls' \in [Call -> CallRecord]
  BY RefreshAnsweredCalls
<1>3. \A c \in Call : calls'[c].kind # "none" => calls'[c].token \in Issued
  BY <1>2 DEF Resent, TypeInv, TypeOK
<1>4. ASSUME NEW c \in Call PROVE CallOK(c)'
  BY <1>1, <1>2 DEF Resent, TypeInv, CallOK
<1>5. refresh' = NoRefresh /\ UNCHANGED <<tokens, page, stores, login, left>>
  BY DEF RefreshAnswered
<1>6. TypeOK'
  BY <1>1, <1>2, <1>3, <1>5 DEF TypeInv, TypeOK, NoRefresh, tokens, stores
<1>7. LoginOK'
  BY <1>1, <1>5 DEF TypeInv, LoginOK
<1> QED BY <1>1, <1>4, <1>6, <1>7 DEF TypeInv

(* An answer has arrived: its request is over.                             *)
LEMMA ArrivedTypes ==
  ASSUME TypeInv, NEW c \in Call, NEW kind, Arrived(c, kind),
         page' \in {"login", "panel"}, auth' \in Issued \cup {0}, generation' \in Nat,
         accounts' \in [loading : BOOLEAN, loaded : BOOLEAN, of : SUBSET User],
         activities' \in [receptor : Receptor \cup {NoReceptor}, loading : BOOLEAN,
                          of : SUBSET Receptor]
  PROVE  TypeInv'
<1>1. Issued' = Issued /\ InOrder' /\ UNCHANGED <<tokens, refresh, login, left>>
  BY Unissued DEF Arrived, tokens, TypeInv
<1>2. calls' = [calls EXCEPT ![c] = NoCall] /\ NoCall \in CallRecord
  BY DEF Arrived, Done, NoCall, CallRecord, Kind
<1>3. calls' \in [Call -> CallRecord]
  BY <1>2 DEF TypeInv, TypeOK
<1>4. \A d \in Call : calls'[d].kind # "none" => calls'[d].token \in Issued
  BY <1>2 DEF TypeInv, TypeOK, NoCall
<1>5. ASSUME NEW d \in Call PROVE CallOK(d)'
  <2>1. calls'[d] = IF d = c THEN NoCall ELSE calls[d]
    BY <1>2 DEF TypeInv, TypeOK
  <2>2. UNCHANGED owner
    BY <1>1 DEF tokens
  <2> QED BY <2>1, <2>2 DEF TypeInv, CallOK, NoCall
<1>6. TypeOK'
  BY <1>1, <1>3, <1>4 DEF TypeInv, TypeOK, tokens
<1>7. LoginOK'
  BY <1>1 DEF TypeInv, LoginOK
<1> QED BY <1>1, <1>5, <1>6, <1>7 DEF TypeInv

LEMMA AnswerTypes ==
  ASSUME TypeInv, NEW c \in Call,
         AccountsAnswered(c) \/ ActivitiesAnswered(c) \/ CreateAnswered(c) \/ LogoutAnswered(c)
  PROVE  TypeInv'
<1>1. CASE AccountsAnswered(c)
  <2>1. calls[c].kind # "none" /\ (calls[c].phase = "answered" => calls[c].from \in User)
    BY <1>1, Owners DEF AccountsAnswered, Arrived, TypeInv, TypeOK, CallOK
  <2>2. accounts' \in [loading : BOOLEAN, loaded : BOOLEAN, of : SUBSET User]
    BY <1>1, <2>1 DEF AccountsAnswered, TypeInv, TypeOK
  <2>3. UNCHANGED <<page, auth, generation, activities>>
    BY <1>1 DEF AccountsAnswered
  <2> QED BY <1>1, <2>2, <2>3, ArrivedTypes DEF AccountsAnswered, TypeInv, TypeOK
<1>2. CASE ActivitiesAnswered(c)
  <2>1. calls[c].receptor \in Receptor
    BY <1>2 DEF ActivitiesAnswered, Arrived, TypeInv, CallOK
  <2>2. activities' \in [receptor : Receptor \cup {NoReceptor}, loading : BOOLEAN,
                         of : SUBSET Receptor]
    BY <1>2, <2>1 DEF ActivitiesAnswered, TypeInv, TypeOK
  <2>3. UNCHANGED <<page, auth, generation, accounts>>
    BY <1>2 DEF ActivitiesAnswered
  <2> QED BY <1>2, <2>2, <2>3, ArrivedTypes DEF ActivitiesAnswered, TypeInv, TypeOK
<1>3. CASE CreateAnswered(c)
  <2>1. calls[c].receptor \in Receptor
    BY <1>3 DEF CreateAnswered, Arrived, TypeInv, CallOK
  <2>2. activities' \in [receptor : Receptor \cup {NoReceptor}, loading : BOOLEAN,
                         of : SUBSET Receptor]
    BY <1>3, <2>1 DEF CreateAnswered, TypeInv, TypeOK
  <2>3. UNCHANGED <<page, auth, generation, accounts>>
    BY <1>3 DEF CreateAnswered
  <2> QED BY <1>3, <2>2, <2>3, ArrivedTypes DEF CreateAnswered, TypeInv, TypeOK
<1>4. CASE LogoutAnswered(c)
  <2>1. accounts' = EmptyAccounts /\ activities' = EmptyActivities /\ generation' = generation + 1
        /\ auth' = 0 /\ page' = "login"
    BY <1>4 DEF LogoutAnswered, ResetStores, Emptied
  <2>2. generation' \in Nat
    BY <2>1 DEF TypeInv, TypeOK
  <2>3. /\ accounts' \in [loading : BOOLEAN, loaded : BOOLEAN, of : SUBSET User]
        /\ activities' \in [receptor : Receptor \cup {NoReceptor}, loading : BOOLEAN,
                            of : SUBSET Receptor]
    BY <2>1 DEF EmptyAccounts, EmptyActivities
  <2> QED BY <1>4, <2>1, <2>2, <2>3, ArrivedTypes DEF LogoutAnswered
<1> QED BY <1>1, <1>2, <1>3, <1>4

LEMMA RequestTypes ==
  ASSUME TypeInv, NEW c \in Call,
         \/ FetchAccounts(c)
         \/ \E r \in Receptor : Load(c, r)
         \/ CreateActivity(c) \/ Logout(c)
  PROVE  TypeInv'
<1>1. CASE FetchAccounts(c)
  BY <1>1, SendTypes DEF FetchAccounts, TypeInv, TypeOK, Kind
<1>2. ASSUME NEW r \in Receptor, Load(c, r) PROVE TypeInv'
  BY <1>2, SendTypes DEF Load, TypeInv, TypeOK, Kind
<1>3. CASE CreateActivity(c)
  BY <1>3, SendTypes DEF CreateActivity, TypeInv, TypeOK, Kind
<1>4. CASE Logout(c)
  BY <1>4, SendTypes DEF Logout, TypeInv, TypeOK, Kind
<1> QED BY <1>1, <1>2, <1>3, <1>4

LEMMA TypeInvStep == TypeInv /\ [Next]_vars => TypeInv'
<1> SUFFICES ASSUME TypeInv, [Next]_vars PROVE TypeInv'
  OBVIOUS
<1>3. CASE RefreshStep
  <2>1. CASE RefreshRead
    BY <2>1, QuietTypes
  <2>2. CASE RefreshWrite
    BY <2>2, RefreshWriteTypes
  <2>3. CASE RefreshAnswered
    BY <2>3, RefreshAnsweredTypes
  <2>4. CASE RefreshFailed
    BY <2>4, RedirectTypes DEF RefreshFailed
  <2> QED BY <1>3, <2>1, <2>2, <2>3, <2>4 DEF RefreshStep
<1>4. CASE LoginServed
  BY <1>4, LoginServedTypes
<1>5. ASSUME \/ RefreshLost \/ LoginAnswered
             \/ \E u \in User : StartLogin(u)
             \/ \E t \in Token : Expire(t)
      PROVE TypeInv'
  BY <1>5, QuietTypes
<1>6. CASE UNCHANGED vars
  <2>1. Issued' = Issued /\ InOrder' /\ calls' = calls /\ owner' = owner
    BY <1>6, Unissued DEF vars, TypeInv
  <2>2. TypeOK'
    BY <1>6, <2>1 DEF vars, TypeInv, TypeOK
  <2>3. LoginOK' /\ \A c \in Call : CallOK(c)'
    BY <1>6, <2>1 DEF vars, TypeInv, LoginOK, CallOK
  <2> QED BY <2>1, <2>2, <2>3 DEF TypeInv
<1>7. CASE Next
  <2>1. CASE \E c \in Call :
               \/ Progress(c)
               \/ FetchAccounts(c)
               \/ \E r \in Receptor : Load(c, r)
               \/ CreateActivity(c) \/ Logout(c)
    <3>1. PICK c \in Call : \/ Progress(c)
                            \/ FetchAccounts(c)
                            \/ \E r \in Receptor : Load(c, r)
                            \/ CreateActivity(c) \/ Logout(c)
      BY <2>1
    <3>2. CASE Progress(c)
      BY <3>2, ServeTypes, UnauthorizedTypes, AnswerTypes DEF Progress
    <3>3. CASE \/ FetchAccounts(c)
               \/ \E r \in Receptor : Load(c, r)
               \/ CreateActivity(c) \/ Logout(c)
      BY <3>3, RequestTypes
    <3> QED BY <3>1, <3>2, <3>3
  <2> QED BY <1>7, <2>1, <1>3, <1>4, <1>5 DEF Next
<1> QED BY <1>6, <1>7

(* The panel, its requests and the tokens of the server stay well typed,   *)
(* and a request that was answered was answered for the user who owns its  *)
(* token.                                                                  *)
THEOREM PanelTypes == Spec => []TypeOK
<1>1. Spec => []TypeInv
  BY TypeInvInit, TypeInvStep, PTL DEF Spec
<1>2. TypeInv => TypeOK
  BY DEF TypeInv
<1> QED BY <1>1, <1>2, PTL

-----------------------------------------------------------------------------
(* The session.                                                            *)

(* The login page is waiting for the answer only while nothing else could  *)
(* store tokens.                                                           *)
PageOK ==
  /\ page = "panel" => auth # 0
  /\ login.phase # "idle" => page = "login" /\ auth = 0 /\ refresh.phase = "idle"
  /\ login.phase = "ok" => owner[login.token] = login.user /\ current[login.user] = login.token

(* A request of the generation of the stores is one of the open session,   *)
(* and a write is one of the catalogue on the screen.                      *)
RequestOK(c) ==
  /\ calls[c].kind # "none" =>
       /\ calls[c].generation <= generation
       /\ calls[c].generation = generation =>
            page = "panel" /\ owner[calls[c].token] = owner[auth]
  /\ calls[c].kind = "logout" => page = "panel"
  /\ calls[c].kind = "create" =>
       calls[c].generation = generation /\ calls[c].receptor = activities.receptor

(* Nobody leaves the panel during a write or twice.                        *)
Alone ==
  \A c, d \in Call :
    calls[c].kind = "logout" /\ calls[d].kind \in {"logout", "create"} => c = d

(* The refresh under way is the session's, and its pair is the one that    *)
(* the server expects next unless a logout comes before.                   *)
RefreshOK ==
  page = "panel" =>
    /\ refresh.phase \in {"sent", "read"} => refresh.token = auth
    /\ refresh.phase = "ok" => owner[refresh.token] = owner[auth]

LiveOK ==
  page = "panel" /\ ~InFlight("logout") =>
    /\ refresh.phase \in {"idle", "sent", "read"} => current[owner[auth]] = auth
    /\ refresh.phase = "ok" => current[owner[auth]] = refresh.token

SessionInv ==
  /\ StoresBelongToSession /\ PageOK /\ Alone /\ RefreshOK /\ LiveOK
  /\ \A c \in Call : RequestOK(c)

LEMMA SessionInvInit == Init => SessionInv
BY DEF Init, SessionInv, StoresBelongToSession, PageOK, Alone, RefreshOK, LiveOK, RequestOK,
   InFlight, User0, NoCall, NoRefresh, NoLogin, EmptyAccounts, EmptyActivities

LEMMA RedirectSession ==
  ASSUME EndAndRedirect
  PROVE  SessionInv'
BY DEF EndAndRedirect, Emptied, SessionInv, StoresBelongToSession, PageOK, Alone, RefreshOK,
   LiveOK, RequestOK, NoCall, NoLogin, NoRefresh, EmptyAccounts, EmptyActivities

(* A view sends a request.                                                 *)
LEMMA SendSession ==
  ASSUME Patient, TypeInv, SessionInv, NEW c \in Call, NEW kind, NEW r, Send(c, kind, r),
         kind = "logout" => ~InFlight("create") /\ ~InFlight("logout"),
         kind = "create" => ~InFlight("logout") /\ r = activities.receptor,
         accounts'.of = accounts.of,
         activities'.of = {} \/ UNCHANGED activities,
         UNCHANGED activities \/ (~InFlight("create") /\ kind # "create")
  PROVE  SessionInv'
<1>1. /\ page = "panel" /\ auth # 0
      /\ \A d \in Call : calls'[d] = IF d = c THEN Request(kind, r) ELSE calls[d]
      /\ UNCHANGED <<tokens, page, auth, generation, refresh, login, left>>
      /\ generation \in Nat
  BY DEF Send, TypeInv, TypeOK
<1>2. StoresBelongToSession'
  BY <1>1 DEF SessionInv, StoresBelongToSession, User0, tokens
<1>3. PageOK' /\ RefreshOK'
  BY <1>1 DEF SessionInv, PageOK, RefreshOK, tokens
<1>4. Alone'
  BY <1>1 DEF SessionInv, Alone, InFlight, Request
<1>5. LiveOK'
  <2>1. calls[c].kind = "none"
    BY DEF Send
  <2>2. InFlight("logout") => InFlight("logout")'
    BY <1>1, <2>1 DEF InFlight
  <2> QED BY <1>1, <2>2 DEF SessionInv, LiveOK, tokens
<1>6. ASSUME NEW d \in Call PROVE RequestOK(d)'
  BY <1>1 DEF SessionInv, RequestOK, InFlight, Request, tokens
<1> QED BY <1>2, <1>3, <1>4, <1>5, <1>6 DEF SessionInv

LEMMA RequestSession ==
  ASSUME Patient, TypeInv, SessionInv, NEW c \in Call,
         \/ FetchAccounts(c)
         \/ \E r \in Receptor : Load(c, r)
         \/ CreateActivity(c) \/ Logout(c)
  PROVE  SessionInv'
<1>1. CASE FetchAccounts(c)
  <2>1. accounts'.of = accounts.of
    BY <1>1 DEF FetchAccounts, TypeInv, TypeOK
  <2> QED BY <1>1, <2>1, SendSession DEF FetchAccounts
<1>2. ASSUME NEW r \in Receptor, Load(c, r) PROVE SessionInv'
  <2>1. /\ Send(c, "activities", r) /\ ~InFlight("create")
        /\ activities'.of = {} /\ accounts'.of = accounts.of
    BY <1>2 DEF Load
  <2> QED BY <2>1, SendSession
<1>3. CASE CreateActivity(c)
  <2>1. PICK r : r = activities.receptor
    OBVIOUS
  <2>2. /\ Send(c, "create", r) /\ ~InFlight("logout")
        /\ UNCHANGED activities /\ accounts'.of = accounts.of
    BY <1>3, <2>1 DEF CreateActivity
  <2> QED BY <2>1, <2>2, SendSession
<1>4. CASE Logout(c)
  BY <1>4, SendSession DEF Logout
<1> QED BY <1>1, <1>2, <1>3, <1>4

(* The requests stay what they are for the session, whatever their phase.  *)
LEMMA SameRequests ==
  ASSUME TypeInv, SessionInv, UNCHANGED <<page, auth, generation, activities>>,
         \A t \in Issued : owner'[t] = owner[t],
         \A d \in Call : /\ calls'[d].kind = calls[d].kind /\ calls'[d].token = calls[d].token
                        /\ calls'[d].receptor = calls[d].receptor
                        /\ calls'[d].generation = calls[d].generation
  PROVE  /\ Alone' /\ \A d \in Call : RequestOK(d)'
         /\ InFlight("logout")' = InFlight("logout")
<1>1. Alone' /\ InFlight("logout")' = InFlight("logout")
  BY DEF SessionInv, Alone, InFlight
<1>2. page = "panel" => auth \in Issued
  BY DEF SessionInv, PageOK, TypeInv, TypeOK
<1>3. ASSUME NEW d \in Call PROVE RequestOK(d)'
  <2>1. calls[d].kind # "none" => calls[d].token \in Issued
    BY DEF TypeInv, TypeOK
  <2> QED BY <1>2, <2>1 DEF SessionInv, RequestOK
<1> QED BY <1>1, <1>3

LEMMA ServeSession ==
  ASSUME TypeInv, SessionInv, NEW c \in Call, Serve(c)
  PROVE  SessionInv'
<1> DEFINE u == owner[calls[c].token]
<1>1. /\ UNCHANGED <<owner, expired, page, auth, stores, refresh, login, left>>
      /\ calls \in [Call -> CallRecord]
      /\ \/ current' = current
         \/ calls[c].kind = "logout" /\ current' = [current EXCEPT ![u] = 0]
  BY DEF Serve, TypeInv, TypeOK
<1>2. \A d \in Call : /\ calls'[d].kind = calls[d].kind /\ calls'[d].token = calls[d].token
                     /\ calls'[d].receptor = calls[d].receptor
                     /\ calls'[d].generation = calls[d].generation
  BY <1>1 DEF Serve, CallRecord
<1>3. /\ Alone' /\ \A d \in Call : RequestOK(d)'
      /\ InFlight("logout")' = InFlight("logout")
  BY <1>1, <1>2, SameRequests DEF stores
<1>4. StoresBelongToSession' /\ RefreshOK'
  BY <1>1 DEF SessionInv, StoresBelongToSession, RefreshOK, User0, stores
<1>5. calls[c].kind = "logout" => InFlight("logout") /\ page = "panel"
  BY DEF InFlight, SessionInv, RequestOK
<1>6. PageOK'
  BY <1>1, <1>5 DEF SessionInv, PageOK
<1>7. LiveOK'
  BY <1>1, <1>3, <1>5 DEF SessionInv, LiveOK
<1> QED BY <1>3, <1>4, <1>6, <1>7 DEF SessionInv

LEMMA UnauthorizedSession ==
  ASSUME TypeInv, SessionInv, NEW c \in Call, Unauthorized(c)
  PROVE  SessionInv'
<1>1. CASE EndAndRedirect
  BY <1>1, RedirectSession
<1>2. CASE ~EndAndRedirect
  <2>1. /\ UNCHANGED <<page, auth, stores, login, tokens, left>>
        /\ calls \in [Call -> CallRecord]
        /\ \E ph \in {"waiting", "refused"} : calls' = [calls EXCEPT ![c].phase = ph]
        /\ \/ UNCHANGED refresh
           \/ /\ refresh.phase = "idle" /\ auth # 0
              /\ refresh' = [phase |-> "sent", token |-> auth, seen |-> 0]
    BY <1>2 DEF Unauthorized, HasRefreshToken, TypeInv, TypeOK
  <2>2. \A d \in Call : /\ calls'[d].kind = calls[d].kind /\ calls'[d].token = calls[d].token
                       /\ calls'[d].receptor = calls[d].receptor
                       /\ calls'[d].generation = calls[d].generation
    BY <2>1 DEF CallRecord
  <2>3. /\ Alone' /\ \A d \in Call : RequestOK(d)'
        /\ InFlight("logout")' = InFlight("logout")
    BY <2>1, <2>2, SameRequests DEF stores, tokens
  <2>4. StoresBelongToSession'
    BY <2>1 DEF SessionInv, StoresBelongToSession, User0, stores, tokens
  <2>5. PageOK' /\ RefreshOK'
    BY <2>1 DEF SessionInv, PageOK, RefreshOK, tokens
  <2>6. LiveOK'
    BY <2>1, <2>3 DEF SessionInv, LiveOK, tokens
  <2> QED BY <2>3, <2>4, <2>5, <2>6 DEF SessionInv
<1> QED BY <1>1, <1>2

(* The server reads and writes the row of a refresh, and its answer is     *)
(* lost or not.                                                            *)
LEMMA RefreshSession ==
  ASSUME TypeInv, SessionInv, RefreshRead \/ RefreshWrite \/ RefreshLost
  PROVE  SessionInv'
<1>1. /\ UNCHANGED <<expired, page, auth, stores, calls, login>>
      /\ refresh.phase # "idle" /\ refresh.token \in Issued
      /\ login.phase = "idle"
  BY DEF RefreshRead, RefreshWrite, RefreshLost, tokens, SessionInv, PageOK, TypeInv, TypeOK
<1>2. \A t \in Issued : owner'[t] = owner[t]
  <2>1. CASE UNCHANGED owner
    BY <2>1
  <2>2. CASE ~UNCHANGED owner
    <3>1. NextToken \in Token /\ owner' = [owner EXCEPT ![NextToken] = owner[refresh.token]]
      BY <2>2 DEF RefreshRead, RefreshWrite, RefreshLost, tokens
    <3> QED BY <1>1, <3>1, Owners, Issuing
  <2> QED BY <2>1, <2>2
<1>3. /\ Alone' /\ \A d \in Call : RequestOK(d)'
      /\ InFlight("logout")' = InFlight("logout")
  BY <1>1, <1>2, SameRequests DEF stores
<1>4. auth \in Issued \cup {0} /\ (auth = 0 \/ auth \in Issued)
  BY DEF TypeInv, TypeOK
<1>5. StoresBelongToSession'
  <2>1. User0(auth)' = User0(auth)
    BY <1>1, <1>2, <1>4 DEF User0
  <2> QED BY <1>1, <2>1 DEF SessionInv, StoresBelongToSession, stores
<1>6. PageOK'
  BY <1>1 DEF SessionInv, PageOK
<1>7. CASE RefreshRead \/ RefreshLost
  <2>1. UNCHANGED tokens /\ refresh'.phase \in {"read", "failed"}
        /\ refresh'.token = refresh.token
        /\ (refresh'.phase = "read" => refresh.phase = "sent")
    BY <1>7 DEF RefreshRead, RefreshLost, TypeInv, TypeOK
  <2>2. RefreshOK' /\ LiveOK'
    BY <1>1, <1>3, <2>1 DEF SessionInv, RefreshOK, LiveOK, tokens
  <2> QED BY <1>3, <1>5, <1>6, <2>2 DEF SessionInv
<1>8. CASE RefreshWrite /\ refresh.seen # refresh.token
  <2>1. refresh'.phase = "failed"
    BY <1>8 DEF RefreshWrite, TypeInv, TypeOK
  <2>2. RefreshOK' /\ LiveOK'
    BY <2>1 DEF RefreshOK, LiveOK
  <2> QED BY <1>3, <1>5, <1>6, <2>2 DEF SessionInv
<1>9. CASE RefreshWrite /\ refresh.seen = refresh.token
  <2>1. /\ NextToken \in Token
        /\ owner' = [owner EXCEPT ![NextToken] = owner[refresh.token]]
        /\ current' = [current EXCEPT ![owner[refresh.token]] = NextToken]
        /\ refresh' = [refresh EXCEPT !.phase = "ok", !.token = NextToken]
        /\ refresh.phase = "read"
    BY <1>9 DEF RefreshWrite
  <2>2. refresh'.phase = "ok" /\ refresh'.token = NextToken
    BY <2>1 DEF TypeInv, TypeOK
  <2>3. owner[refresh.token] \in User /\ owner'[NextToken] = owner[refresh.token]
    BY <1>1, <2>1, Owners, Issuing
  <2>4. ASSUME page = "panel"
        PROVE  /\ refresh.token = auth /\ owner'[auth] = owner[auth]
               /\ current'[owner[auth]] = NextToken
    BY <1>1, <1>2, <2>1, <2>3, <2>4 DEF SessionInv, RefreshOK, TypeInv, TypeOK
  <2>5. RefreshOK' /\ LiveOK'
    BY <1>1, <2>2, <2>3, <2>4 DEF RefreshOK, LiveOK
  <2> QED BY <1>3, <1>5, <1>6, <2>5 DEF SessionInv
<1> QED BY <1>7, <1>8, <1>9

(* The new pair is of the user whose session is open, if one is.           *)
LEMMA RefreshAnsweredSession ==
  ASSUME TypeInv, SessionInv, RefreshAnswered
  PROVE  SessionInv'
<1>1. /\ refresh.phase = "ok" /\ refresh' = NoRefresh
      /\ UNCHANGED <<tokens, page, stores, login, left>>
      /\ login.phase = "idle"
  BY DEF RefreshAnswered, SessionInv, PageOK
<1>2. /\ refresh.token \in Issued /\ auth' = refresh.token
      /\ \A c \in Call : IF calls[c].phase # "waiting" THEN calls'[c] = calls[c]
                         ELSE Resent(calls'[c], calls[c], refresh.token)
  BY RefreshAnsweredCalls
<1>3. refresh.token # 0
  BY <1>2, Owners
<1>4. page = "panel" => auth # 0 /\ owner[refresh.token] = owner[auth]
  BY <1>1 DEF SessionInv, RefreshOK, PageOK
<1>5. \A c \in Call : /\ calls'[c].kind = calls[c].kind
                     /\ calls'[c].generation = calls[c].generation
                     /\ calls'[c].receptor = calls[c].receptor
                     /\ \/ calls'[c].token = calls[c].token
                        \/ calls'[c].token = refresh.token
  BY <1>2 DEF Resent
<1>6. StoresBelongToSession'
  <2>1. UNCHANGED <<accounts, activities, page, owner>>
    BY <1>1 DEF stores, tokens
  <2>2. CASE page = "panel"
    <3>1. User0(auth)' = User0(auth)
      BY <1>2, <1>3, <1>4, <2>1, <2>2 DEF User0
    <3> QED BY <2>1, <2>2, <3>1 DEF SessionInv, StoresBelongToSession
  <2>3. CASE page # "panel"
    <3>1. page = "login"
      BY <2>3 DEF TypeInv, TypeOK
    <3>2. accounts.of = {} /\ activities.of = {}
      BY <3>1 DEF SessionInv, StoresBelongToSession
    <3> QED BY <2>1, <3>2 DEF StoresBelongToSession
  <2> QED BY <2>2, <2>3
<1>7. PageOK' /\ RefreshOK'
  BY <1>1, <1>2, <1>3 DEF PageOK, RefreshOK, NoRefresh
<1>8. Alone' /\ InFlight("logout")' = InFlight("logout")
  BY <1>5 DEF SessionInv, Alone, InFlight
<1>9. LiveOK'
  BY <1>1, <1>2, <1>4, <1>8 DEF SessionInv, LiveOK, NoRefresh, tokens
<1>10. ASSUME NEW c \in Call PROVE RequestOK(c)'
  BY <1>1, <1>2, <1>4, <1>5 DEF SessionInv, RequestOK, tokens, stores
<1> QED BY <1>6, <1>7, <1>8, <1>9, <1>10 DEF SessionInv

(* What arrives for the stores is of the session that is open, or late and *)
(* ignored.                                                                *)
LEMMA AnswerSession ==
  ASSUME TypeInv, SessionInv, NEW c \in Call,
         AccountsAnswered(c) \/ ActivitiesAnswered(c) \/ CreateAnswered(c)
  PROVE  SessionInv'
<1>1. /\ calls[c].kind \notin {"none", "logout"}
      /\ \A d \in Call : calls'[d] = IF d = c THEN NoCall ELSE calls[d]
      /\ UNCHANGED <<tokens, refresh, login, left, page, auth, generation>>
      /\ activities'.receptor = activities.receptor
  BY DEF AccountsAnswered, ActivitiesAnswered, CreateAnswered, Arrived, Done, TypeInv, TypeOK
<1>2. Alone' /\ InFlight("logout")' = InFlight("logout")
  BY <1>1 DEF SessionInv, Alone, InFlight, NoCall
<1>3. PageOK' /\ RefreshOK' /\ LiveOK'
  BY <1>1, <1>2 DEF SessionInv, PageOK, RefreshOK, LiveOK, tokens
<1>4. ASSUME NEW d \in Call PROVE RequestOK(d)'
  BY <1>1 DEF SessionInv, RequestOK, NoCall, tokens
<1>5. ASSUME calls[c].generation = generation
      PROVE  /\ page = "panel"
             /\ calls[c].phase = "answered" =>
                  /\ calls[c].from = User0(auth)
                  /\ calls[c].receptor \in Receptor => TenantOf[calls[c].receptor] = User0(auth)
  BY <1>1, <1>5 DEF SessionInv, RequestOK, PageOK, TypeInv, CallOK, User0
<1>6. calls[c].phase \in {"answered", "refused"}
  BY DEF AccountsAnswered, ActivitiesAnswered, CreateAnswered, Arrived
<1>7. User0(auth)' = User0(auth)
  BY <1>1 DEF User0, tokens
<1>8. StoresBelongToSession'
  <2>1. CASE AccountsAnswered(c)
    <3>1. activities' = activities
      BY <2>1 DEF AccountsAnswered
    <3>2. CASE accounts'.of = accounts.of
      BY <1>1, <1>7, <3>1, <3>2 DEF SessionInv, StoresBelongToSession
    <3>3. CASE accounts'.of # accounts.of
      <4>1. calls[c].generation = generation /\ calls[c].phase = "answered"
            /\ accounts'.of = {calls[c].from}
        BY <2>1, <3>3, <1>6 DEF AccountsAnswered, SameGeneration, TypeInv, TypeOK
      <4> QED BY <1>1, <1>5, <1>7, <3>1, <4>1 DEF SessionInv, StoresBelongToSession
    <3> QED BY <3>2, <3>3
  <2>2. CASE ActivitiesAnswered(c)
    <3>1. accounts' = accounts /\ calls[c].receptor \in Receptor
      BY <2>2 DEF ActivitiesAnswered, Arrived, TypeInv, CallOK
    <3>2. CASE activities'.of = activities.of
      BY <1>1, <1>7, <3>1, <3>2 DEF SessionInv, StoresBelongToSession
    <3>3. CASE activities'.of # activities.of
      <4>1. /\ calls[c].generation = generation /\ calls[c].phase = "answered"
            /\ activities.receptor = calls[c].receptor /\ activities'.of = {calls[c].receptor}
        BY <2>2, <3>3, <1>6 DEF ActivitiesAnswered, SameReceptor, SameGeneration, TypeInv, TypeOK
      <4> QED BY <1>1, <1>5, <1>7, <3>1, <4>1 DEF SessionInv, StoresBelongToSession
    <3> QED BY <3>2, <3>3
  <2>3. CASE CreateAnswered(c)
    <3>1. /\ accounts' = accounts /\ calls[c].receptor \in Receptor
          /\ calls[c].generation = generation /\ activities.receptor = calls[c].receptor
      BY <2>3 DEF CreateAnswered, Arrived, TypeInv, CallOK, SessionInv, RequestOK
    <3>2. CASE activities'.of = activities.of
      BY <1>1, <1>7, <3>1, <3>2 DEF SessionInv, StoresBelongToSession
    <3>3. CASE activities'.of # activities.of
      <4>1. /\ calls[c].phase = "answered"
            /\ activities'.of = activities.of \cup {calls[c].receptor}
        BY <2>3, <3>3, <1>6 DEF CreateAnswered, TypeInv, TypeOK
      <4> QED BY <1>1, <1>5, <1>7, <3>1, <4>1 DEF SessionInv, StoresBelongToSession
    <3> QED BY <3>2, <3>3
  <2> QED BY <2>1, <2>2, <2>3
<1> QED BY <1>2, <1>3, <1>4, <1>8 DEF SessionInv

LEMMA LogoutSession ==
  ASSUME TypeInv, SessionInv, NEW c \in Call, LogoutAnswered(c)
  PROVE  SessionInv'
<1>1. /\ calls[c].kind = "logout"
      /\ \A d \in Call : calls'[d] = IF d = c THEN NoCall ELSE calls[d]
      /\ auth' = 0 /\ page' = "login" /\ generation' = generation + 1
      /\ accounts' = EmptyAccounts /\ activities' = EmptyActivities
      /\ UNCHANGED <<tokens, refresh, login, left>>
      /\ generation \in Nat /\ \A d \in Call : calls[d].generation \in Nat
  BY DEF LogoutAnswered, Arrived, Done, ResetStores, Emptied, TypeInv, TypeOK, CallRecord
<1>2. page = "panel" /\ login.phase = "idle"
  BY <1>1 DEF SessionInv, RequestOK, PageOK
<1>3. StoresBelongToSession' /\ PageOK' /\ RefreshOK' /\ LiveOK'
  BY <1>1, <1>2 DEF StoresBelongToSession, PageOK, RefreshOK, LiveOK, EmptyAccounts, EmptyActivities
<1>4. \A d \in Call : calls'[d].kind \notin {"logout", "create"}
  BY <1>1 DEF SessionInv, Alone, NoCall
<1>5. Alone'
  BY <1>4 DEF Alone
<1>6. ASSUME NEW d \in Call PROVE RequestOK(d)'
  BY <1>1, <1>4 DEF SessionInv, RequestOK, NoCall
<1> QED BY <1>3, <1>5, <1>6 DEF SessionInv

LEMMA StartLoginSession ==
  ASSUME Patient, TypeInv, SessionInv, NEW u \in User, StartLogin(u)
  PROVE  SessionInv'
<1>1. /\ page = "login" /\ refresh.phase = "idle" /\ auth = 0
      /\ UNCHANGED <<tokens, page, auth, stores, calls, refresh>>
      /\ login'.phase = "sent"
  BY DEF StartLogin
<1>2. StoresBelongToSession' /\ PageOK' /\ RefreshOK' /\ LiveOK' /\ Alone'
  BY <1>1 DEF SessionInv, StoresBelongToSession, PageOK, RefreshOK, LiveOK, Alone, User0, tokens,
     stores
<1>3. ASSUME NEW d \in Call PROVE RequestOK(d)'
  BY <1>1 DEF SessionInv, RequestOK, tokens, stores
<1> QED BY <1>2, <1>3 DEF SessionInv

LEMMA LoginServedSession ==
  ASSUME TypeInv, SessionInv, LoginServed
  PROVE  SessionInv'
<1>1. /\ login.phase = "sent" /\ login.user \in User
      /\ NextToken \in Token
      /\ owner' = [owner EXCEPT ![NextToken] = login.user]
      /\ current' = [current EXCEPT ![login.user] = NextToken]
      /\ login' = [login EXCEPT !.phase = "ok", !.token = NextToken]
      /\ UNCHANGED <<expired, page, auth, stores, calls, refresh, left>>
  BY DEF LoginServed, TypeInv, LoginOK
<1>2. page = "login" /\ auth = 0 /\ refresh.phase = "idle"
  BY <1>1 DEF SessionInv, PageOK
<1>3. owner'[NextToken] = login.user /\ \A t \in Issued : owner'[t] = owner[t]
  BY <1>1, Issuing
<1>4. /\ Alone' /\ \A d \in Call : RequestOK(d)'
  BY <1>1, <1>3, SameRequests DEF stores
<1>5. login'.phase = "ok" /\ login'.token = NextToken /\ login'.user = login.user
  BY <1>1 DEF TypeInv, TypeOK
<1>6. PageOK'
  BY <1>1, <1>2, <1>3, <1>5 DEF PageOK, TypeInv, TypeOK
<1>7. StoresBelongToSession' /\ RefreshOK' /\ LiveOK'
  BY <1>1, <1>2 DEF SessionInv, StoresBelongToSession, RefreshOK, LiveOK, User0, stores
<1> QED BY <1>4, <1>6, <1>7 DEF SessionInv

LEMMA LoginAnsweredSession ==
  ASSUME TypeInv, SessionInv, LoginAnswered
  PROVE  SessionInv'
<1>1. /\ login.phase = "ok" /\ auth' = login.token /\ page' = "panel" /\ login' = NoLogin
      /\ generation' = generation + 1
      /\ accounts' = EmptyAccounts /\ activities' = EmptyActivities
      /\ UNCHANGED <<tokens, calls, refresh, left>>
      /\ generation \in Nat /\ \A d \in Call : calls[d].generation \in Nat
  BY DEF LoginAnswered, ResetStores, Emptied, TypeInv, TypeOK, CallRecord
<1>2. /\ page = "login" /\ refresh.phase = "idle" /\ login.token # 0
      /\ owner[login.token] = login.user /\ current[login.user] = login.token
  BY <1>1, Owners DEF SessionInv, PageOK, TypeInv, LoginOK
<1>3. \A d \in Call : calls[d].kind \notin {"logout", "create"}
  BY <1>2 DEF SessionInv, RequestOK
<1>4. StoresBelongToSession' /\ PageOK' /\ RefreshOK' /\ LiveOK' /\ Alone'
  BY <1>1, <1>2, <1>3 DEF StoresBelongToSession, PageOK, RefreshOK, LiveOK, Alone, NoLogin,
     EmptyAccounts, EmptyActivities, tokens
<1>5. ASSUME NEW d \in Call PROVE RequestOK(d)'
  BY <1>1, <1>3 DEF SessionInv, RequestOK
<1> QED BY <1>4, <1>5 DEF SessionInv

LEMMA UnchangedSession ==
  ASSUME SessionInv,
         UNCHANGED <<current, owner, page, auth, stores, calls, refresh, login>>
  PROVE  SessionInv'
<1>1. StoresBelongToSession' /\ PageOK' /\ RefreshOK' /\ LiveOK' /\ Alone'
  BY DEF SessionInv, StoresBelongToSession, PageOK, RefreshOK, LiveOK, Alone, User0, InFlight, stores
<1>2. ASSUME NEW d \in Call PROVE RequestOK(d)'
  BY DEF SessionInv, RequestOK, stores
<1> QED BY <1>1, <1>2 DEF SessionInv

LEMMA SessionInvStep ==
  ASSUME Patient, TypeInv, SessionInv, [Next]_vars
  PROVE  SessionInv'
<1>1. CASE \E c \in Call :
             \/ Progress(c)
             \/ FetchAccounts(c)
             \/ \E r \in Receptor : Load(c, r)
             \/ CreateActivity(c) \/ Logout(c)
  <2>1. PICK c \in Call : \/ Progress(c)
                          \/ FetchAccounts(c)
                          \/ \E r \in Receptor : Load(c, r)
                          \/ CreateActivity(c) \/ Logout(c)
    BY <1>1
  <2>2. CASE Progress(c)
    BY <2>2, ServeSession, UnauthorizedSession, AnswerSession, LogoutSession DEF Progress
  <2>3. CASE \/ FetchAccounts(c)
             \/ \E r \in Receptor : Load(c, r)
             \/ CreateActivity(c) \/ Logout(c)
    BY <2>3, RequestSession
  <2> QED BY <2>1, <2>2, <2>3
<1>2. CASE RefreshStep \/ RefreshLost
  BY <1>2, RefreshSession, RefreshAnsweredSession, RedirectSession DEF RefreshStep, RefreshFailed
<1>3. ASSUME NEW u \in User, StartLogin(u) PROVE SessionInv'
  BY <1>3, StartLoginSession
<1>4. CASE LoginServed
  BY <1>4, LoginServedSession
<1>5. CASE LoginAnswered
  BY <1>5, LoginAnsweredSession
<1>6. ASSUME NEW t \in Token, Expire(t) PROVE SessionInv'
  BY <1>6, UnchangedSession DEF Expire
<1>7. CASE UNCHANGED vars
  BY <1>7, UnchangedSession DEF vars, stores
<1> QED BY <1>1, <1>2, <1>3, <1>4, <1>5, <1>6, <1>7 DEF Next

(* With a patient user the stores never show data of another session, of   *)
(* another receptor, or of none, however many requests cross the logins,   *)
(* logouts and refreshes of the tab.                                       *)
THEOREM StoresFollowSession ==
  ASSUME Patient
  PROVE  Spec => []StoresBelongToSession
<1>1. Init => TypeInv /\ SessionInv
  BY TypeInvInit, SessionInvInit
<1>2. TypeInv /\ SessionInv /\ [Next]_vars => (TypeInv /\ SessionInv)'
  BY TypeInvStep, SessionInvStep
<1>3. TypeInv /\ SessionInv => StoresBelongToSession
  BY DEF SessionInv
<1> QED BY <1>1, <1>2, <1>3, PTL DEF Spec

(* And the tab never presents a token that it has already exchanged: while *)
(* neither a refresh nor a logout is under way, its token is the current   *)
(* one of its user.                                                        *)
THEOREM SessionStaysLive ==
  ASSUME Patient
  PROVE  Spec => []SessionIsLive
<1>1. Init => TypeInv /\ SessionInv
  BY TypeInvInit, SessionInvInit
<1>2. TypeInv /\ SessionInv /\ [Next]_vars => (TypeInv /\ SessionInv)'
  BY TypeInvStep, SessionInvStep
<1>3. TypeInv /\ SessionInv => SessionIsLive
  BY DEF SessionInv, SessionIsLive, PageOK, LiveOK
<1> QED BY <1>1, <1>2, <1>3, PTL DEF Spec
=============================================================================
