------------------------ MODULE PurchaseActivities ------------------------
(* The catalogue of activities of each contributor (receptor), the activity *)
(* each supplier (emisor) brings by default, the override of a single       *)
(* purchase, and the seeding of both (purchase-activity.service.ts,         *)
(* purchase-activity-seed.service.ts, activity-guards.ts).  Every request   *)
(* runs in one READ COMMITTED transaction: a statement sees what the others *)
(* have committed, so what a request has checked may change before it       *)
(* writes.  A request that only checks what its single write checks again   *)
(* is one action; the others are one action per statement.                  *)
EXTENDS Naturals, FiniteSets

CONSTANTS Receptor,     \* contributors of the tenant, rows of dte_parties
          Emisor,       \* suppliers, ordered as their ids are
          Activity,     \* ids of activities, each used once
          Nombre,       \* names of activities
          Doc,          \* purchases
          ReceptorOf,   \* the contributor of a purchase
          EmisorOf,     \* and its supplier
          Lots,         \* lots a seeding is asked to apply
          Call,         \* requests under way at the same time
          NoActivity,   \* null
          NoRow,        \* an id not used yet
          Gone,         \* an id whose row was deleted
          AnyReceptor,  \* a filter that names no contributor
          MaxSuppliers  \* ACTIVITY_FILTER_MAX_SUPPLIERS

Row == [receptor : Receptor, nombre : Nombre, active : BOOLEAN]
Maybe == Activity \cup {NoActivity}

Lot == [names : SUBSET Nombre,                            \* dto.activities
        mappings : UNION {[K -> Nombre] : K \in SUBSET Emisor}]

ASSUME LotsOfNames == Lots \subseteq Lot
ASSUME Markers == NoActivity \notin Activity /\ NoRow \notin Row /\ Gone \notin Row
                  /\ NoRow # Gone /\ AnyReceptor \notin Receptor
ASSUME Purchases == ReceptorOf \in [Doc -> Receptor] /\ EmisorOf \in [Doc -> Emisor]
ASSUME Ordered == Emisor \subseteq Nat /\ MaxSuppliers \in Nat

VARIABLES catalog,    \* purchase_activities
          defaults,   \* supplier_activity_defaults
          overrides,  \* purchase_documents.activityId
          call        \* what each request under way has read

vars == <<catalog, defaults, overrides, call>>

Live == {a \in Activity : catalog[a] \in Row}
Idle == [pc |-> "idle"]

NoNames == [n \in Nombre |-> NoActivity]

Removing == [pc : {"remove"}, activity : Activity]
Assigning == [pc : {"default"}, receptor : Receptor, emisor : Emisor, activity : Activity]
Overriding == [pc : {"override"}, doc : Doc, activity : Activity]
Seeding == [pc : {"create", "reread", "mapped", "write"}, receptor : Receptor,
            lot : Lot,
            idByName : [Nombre -> Maybe],
            mine : [Nombre -> Maybe],                 \* rows inserted, not committed
            mapped : SUBSET Emisor]

Init == /\ catalog = [a \in Activity |-> NoRow]
        /\ defaults = [r \in Receptor |-> [e \in Emisor |-> NoActivity]]
        /\ overrides = [d \in Doc |-> NoActivity]
        /\ call = [c \in Call |-> Idle]

(* What a seeding in progress has inserted, invisible to the others.  An    *)
(* insert of the same name waits for its transaction to end.                *)
SeedSteps == {"create", "reread", "mapped", "write"}
Seeds(c) == call[c].pc \in SeedSteps
Inserted(c) == IF Seeds(c) THEN {call[c].mine[n] : n \in Nombre} \ {NoActivity} ELSE {}
Pending(r, n) == \E c \in Call : /\ Seeds(c)
                                 /\ call[c].receptor = r
                                 /\ call[c].mine[n] # NoActivity
Fresh == {a \in Activity : catalog[a] = NoRow /\ \A c \in Call : a \notin Inserted(c)}
Named(r, n) == {a \in Live : catalog[a].receptor = r /\ catalog[a].nombre = n}

Referenced(a) == \/ \E r \in Receptor, e \in Emisor : defaults[r][e] = a
                 \/ \E d \in Doc : overrides[d] = a

Begin(c, record) == call[c] = Idle /\ call' = [call EXCEPT ![c] = record]
End(c) == call' = [call EXCEPT ![c] = Idle]
---------------------------------------------------------------------------
(* The catalogue.                                                          *)

(* A taken name is answered with 409 and changes nothing.                  *)
Create(r, n, a) ==
  /\ a \in Fresh /\ Named(r, n) = {} /\ ~Pending(r, n)
  /\ catalog' = [catalog EXCEPT ![a] = [receptor |-> r, nombre |-> n, active |-> TRUE]]
  /\ UNCHANGED <<defaults, overrides, call>>

(* The PATCH renames, retires or brings back; nothing moves an activity to *)
(* another contributor.                                                    *)
Update(a, n, active) ==
  /\ a \in Live
  /\ Named(catalog[a].receptor, n) \subseteq {a}
  /\ ~Pending(catalog[a].receptor, n)
  /\ catalog' = [catalog EXCEPT ![a].nombre = n, ![a].active = active]
  /\ UNCHANGED <<defaults, overrides, call>>

Deactivate(a) ==
  /\ a \in Live
  /\ catalog' = [catalog EXCEPT ![a].active = FALSE]
  /\ UNCHANGED <<defaults, overrides, call>>

(* A request to delete counts the references; a foreign key counts them    *)
(* again when the row goes.                                                *)
RemoveCount(c, a) ==
  /\ a \in Live /\ ~Referenced(a)
  /\ Begin(c, [pc |-> "remove", activity |-> a])
  /\ UNCHANGED <<catalog, defaults, overrides>>

Unrestricted(a) == a \in Live
Deletable(a) == a \in Live /\ ~Referenced(a)

RemoveDelete(c) ==
  /\ call[c].pc = "remove"
  /\ LET a == call[c].activity
     IN catalog' = IF Deletable(a) THEN [catalog EXCEPT ![a] = Gone] ELSE catalog
  /\ End(c)
  /\ UNCHANGED <<defaults, overrides>>
---------------------------------------------------------------------------
(* Assignments: of a supplier, of a purchase.                              *)

Assignable(a, r) == a \in Live /\ catalog[a].receptor = r /\ catalog[a].active

SetDefaultCheck(c, r, e, a) ==
  /\ Assignable(a, r)
  /\ Begin(c, [pc |-> "default", receptor |-> r, emisor |-> e, activity |-> a])
  /\ UNCHANGED <<catalog, defaults, overrides>>

(* The write of an activity that was deleted meanwhile fails on its foreign *)
(* key; one that was only retired is written all the same.                  *)
SetDefaultWrite(c) ==
  /\ call[c].pc = "default"
  /\ defaults' = IF call[c].activity \in Live
                 THEN [defaults EXCEPT ![call[c].receptor][call[c].emisor] = call[c].activity]
                 ELSE defaults
  /\ End(c)
  /\ UNCHANGED <<catalog, overrides>>

ClearDefault(r, e) ==
  /\ defaults[r][e] # NoActivity
  /\ defaults' = [defaults EXCEPT ![r][e] = NoActivity]
  /\ UNCHANGED <<catalog, overrides, call>>

OverrideCheck(c, d, a) ==
  /\ Assignable(a, ReceptorOf[d])
  /\ Begin(c, [pc |-> "override", doc |-> d, activity |-> a])
  /\ UNCHANGED <<catalog, defaults, overrides>>

OverrideWrite(c) ==
  /\ call[c].pc = "override"
  /\ overrides' = IF call[c].activity \in Live
                  THEN [overrides EXCEPT ![call[c].doc] = call[c].activity]
                  ELSE overrides
  /\ End(c)
  /\ UNCHANGED <<catalog, defaults>>

ClearOverride(d) ==
  /\ overrides[d] # NoActivity
  /\ overrides' = [overrides EXCEPT ![d] = NoActivity]
  /\ UNCHANGED <<catalog, defaults, call>>
---------------------------------------------------------------------------
(* Seeding.  The lot names activities and gives a name to each supplier of  *)
(* "mappings"; all of it is one transaction.                                *)

(* The catalogue as a statement of c sees it.                              *)
Visible(c, r, n) == Named(r, n) \cup ({call[c].mine[n]} \ {NoActivity})
Seen(c, r, before) ==
  [n \in Nombre |-> IF Visible(c, r, n) = {} THEN before[n]
                    ELSE CHOOSE a \in Visible(c, r, n) : TRUE]
ByName(r) == [n \in Nombre |-> IF Named(r, n) = {} THEN NoActivity
                               ELSE CHOOSE a \in Named(r, n) : TRUE]

(* When every name is in the catalogue already it is not read again.       *)
SeedRead(c, r, lot) ==
  /\ Begin(c, [pc |-> IF \E n \in lot.names : ByName(r)[n] = NoActivity THEN "create" ELSE "mapped",
               receptor |-> r, lot |-> lot,
               idByName |-> ByName(r), mine |-> NoNames, mapped |-> {}])
  /\ UNCHANGED <<catalog, defaults, overrides>>

(* A name another request committed meanwhile is skipped; one it has not    *)
(* committed yet is waited for.                                             *)
ToInsert(c) == {n \in call[c].lot.names : /\ call[c].idByName[n] = NoActivity
                                          /\ Named(call[c].receptor, n) = {}}
SeedCreate(c, mine) ==
  /\ call[c].pc = "create"
  /\ \A n \in call[c].lot.names :
       call[c].idByName[n] = NoActivity => ~Pending(call[c].receptor, n)
  /\ \A n \in Nombre : IF n \in ToInsert(c) THEN mine[n] \in Fresh ELSE mine[n] = NoActivity
  /\ \A m, n \in ToInsert(c) : mine[m] = mine[n] => m = n
  /\ call' = [call EXCEPT ![c].pc = "reread", ![c].mine = mine]
  /\ UNCHANGED <<catalog, defaults, overrides>>

SeedReread(c) ==
  /\ call[c].pc = "reread"
  /\ call' = [call EXCEPT ![c].pc = "mapped",
                          ![c].idByName = Seen(c, call[c].receptor, call[c].idByName)]
  /\ UNCHANGED <<catalog, defaults, overrides>>

SeedReadMapped(c) ==
  /\ call[c].pc = "mapped"
  /\ call' = [call EXCEPT ![c].pc = "write",
                ![c].mapped = {e \in DOMAIN call[c].lot.mappings :
                                  defaults[call[c].receptor][e] # NoActivity}]
  /\ UNCHANGED <<catalog, defaults, overrides>>

Target(c, e) == call[c].idByName[call[c].lot.mappings[e]]
ToMap(c) == DOMAIN call[c].lot.mappings \ call[c].mapped

(* Every supplier's name is known and every row that is inserted points at  *)
(* an activity that is still there.                                         *)
SeedHolds(c) == /\ \A e \in DOMAIN call[c].lot.mappings : Target(c, e) # NoActivity
                /\ \A e \in ToMap(c) : Target(c, e) \in Live \cup Inserted(c)

(* ON CONFLICT DO NOTHING, against ON CONFLICT DO UPDATE.                  *)
Overwrites(c, e, old) == Target(c, e)
InsertedRow(c, e, old) == IF old = NoActivity THEN Target(c, e) ELSE old

SeedCommit(c) ==
  LET r == call[c].receptor
  IN /\ call[c].pc = "write" /\ SeedHolds(c)
     /\ catalog' = [a \in Activity |->
                      IF a \in Inserted(c)
                      THEN [receptor |-> r, active |-> TRUE,
                            nombre |-> CHOOSE n \in Nombre : call[c].mine[n] = a]
                      ELSE catalog[a]]
     /\ defaults' = [defaults EXCEPT ![r] =
                       [e \in Emisor |-> IF e \in ToMap(c) THEN InsertedRow(c, e, defaults[r][e])
                                         ELSE defaults[r][e]]]
     /\ End(c)
     /\ UNCHANGED overrides

(* 422 for a name nobody knows, or the foreign key of an activity deleted   *)
(* since it was read: nothing of the lot stays.                             *)
SeedRollback(c) ==
  /\ call[c].pc = "write" /\ ~SeedHolds(c)
  /\ End(c)
  /\ UNCHANGED <<catalog, defaults, overrides>>
---------------------------------------------------------------------------
Catalogue == \/ \E r \in Receptor, n \in Nombre, a \in Activity : Create(r, n, a)
             \/ \E a \in Activity, n \in Nombre, active \in BOOLEAN : Update(a, n, active)
             \/ \E a \in Activity : Deactivate(a)
             \/ \E c \in Call, a \in Activity : RemoveCount(c, a)
             \/ \E c \in Call : RemoveDelete(c)

Assign == \/ \E c \in Call, r \in Receptor, e \in Emisor, a \in Activity : SetDefaultCheck(c, r, e, a)
          \/ \E c \in Call : SetDefaultWrite(c)
          \/ \E r \in Receptor, e \in Emisor : ClearDefault(r, e)
          \/ \E c \in Call, d \in Doc, a \in Activity : OverrideCheck(c, d, a)
          \/ \E c \in Call : OverrideWrite(c)
          \/ \E d \in Doc : ClearOverride(d)

Seed == \/ \E c \in Call, r \in Receptor, lot \in Lots : SeedRead(c, r, lot)
        \/ \E c \in Call, mine \in [Nombre -> Maybe] : SeedCreate(c, mine)
        \/ \E c \in Call : SeedReread(c)
        \/ \E c \in Call : SeedReadMapped(c)
        \/ \E c \in Call : SeedCommit(c)
        \/ \E c \in Call : SeedRollback(c)

Next == Catalogue \/ Assign \/ Seed

Spec == Init /\ [][Next]_vars
---------------------------------------------------------------------------
(* Reads.  The effective activity of a purchase, and the purchases a filter *)
(* by activity answers with, of one contributor or of any.                  *)

Resolved(d) == IF overrides[d] # NoActivity THEN overrides[d]
               ELSE defaults[ReceptorOf[d]][EmisorOf[d]]

FirstSuppliers(S) == {e \in S : Cardinality({f \in S : f < e}) < MaxSuppliers}
MappedEmisores(r, A) == FirstSuppliers({e \in Emisor : defaults[r][e] \in A})

OfReceptor(r) == {d \in Doc : r \in {AnyReceptor, ReceptorOf[d]}}
DefaultOnly(a, r) == {d \in Doc : EmisorOf[d] \in MappedEmisores(r, {a})}
ByActivity(a, r) == {d \in Doc : \/ overrides[d] = a
                                 \/ /\ overrides[d] = NoActivity
                                    /\ EmisorOf[d] \in MappedEmisores(r, {a})}
WithoutActivity(r) == {d \in Doc : /\ overrides[d] = NoActivity
                                   /\ EmisorOf[d] \notin MappedEmisores(r, Activity)}
(* findAll: the list of activity a, asked with the contributor r or without *)
Listed(a, r) == ByActivity(a, catalog[a].receptor) \cap OfReceptor(r)
ListedWithout(r) == WithoutActivity(r) \cap OfReceptor(r)
---------------------------------------------------------------------------
(* Properties.                                                             *)

TypeOK == /\ catalog \in [Activity -> Row \cup {NoRow, Gone}]
          /\ defaults \in [Receptor -> [Emisor -> Maybe]]
          /\ overrides \in [Doc -> Maybe]
          /\ call \in [Call -> {Idle} \cup Removing \cup Assigning \cup Overriding \cup Seeding]

(* No default and no override points at a deleted activity or at one of     *)
(* another contributor, whatever was deleted while a request or a seeding   *)
(* that had checked it was on its way.                                      *)
DefaultsHold == \A r \in Receptor, e \in Emisor :
                  defaults[r][e] # NoActivity => /\ defaults[r][e] \in Live
                                                 /\ catalog[defaults[r][e]].receptor = r
OverridesHold == \A d \in Doc :
                   overrides[d] # NoActivity => /\ overrides[d] \in Live
                                                /\ catalog[overrides[d]].receptor = ReceptorOf[d]
ReferencesHold == DefaultsHold /\ OverridesHold

(* A seeding never undoes what the accountant decided by hand: a default    *)
(* that is there when the lot is written keeps its activity, even when it   *)
(* was set after the seeding looked.                                        *)
CorrectionsSurvive ==
  [][\A c \in Call, r \in Receptor, e \in Emisor :
       Seeds(c) /\ call'[c] = Idle /\ defaults[r][e] # NoActivity
         => defaults'[r][e] = defaults[r][e]]_vars

(* A filter that names its contributor answers with exactly the purchases   *)
(* whose effective activity is the one asked for (or none).                 *)
FilterAgrees ==
  /\ \A a \in Live : Listed(a, catalog[a].receptor) = {d \in Doc : Resolved(d) = a}
  /\ \A r \in Receptor : ListedWithout(r) = {d \in OfReceptor(r) : Resolved(d) = NoActivity}

(* activity-resolution.ts:32-34: the answer must be confined to the         *)
(* contributor of the activity also when the filter names none.             *)
FilterStaysWithReceptor == \A a \in Live : Listed(a, AnyReceptor) = {d \in Doc : Resolved(d) = a}

(* activity-guards.ts:42-43, 74: what is assigned is active.               *)
AssignedIsActive ==
  [][\A r \in Receptor, e \in Emisor :
       defaults'[r][e] \notin {defaults[r][e], NoActivity} => catalog'[defaults'[r][e]].active]_vars
=============================================================================
