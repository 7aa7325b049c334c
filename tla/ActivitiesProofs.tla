-------------------------- MODULE ActivitiesProofs --------------------------
(***************************************************************************)
(* Proofs about PurchaseActivities: type correctness; no default and no    *)
(* override ever points at a deleted activity or at one of another         *)
(* contributor; hence a filter answers with the purchases it should, as    *)
(* long as it may name every supplier; and no seeding undoes a correction. *)
(***************************************************************************)
EXTENDS PurchaseActivities, FiniteSetTheorems, TLAPS

(* The steps of Next, one name each.                                       *)
LEMMA NextCases ==
  ASSUME Next
  PROVE  \/ \E r \in Receptor, n \in Nombre, a \in Activity : Create(r, n, a)
         \/ \E a \in Activity, n \in Nombre, active \in BOOLEAN : Update(a, n, active)
         \/ \E a \in Activity : Deactivate(a)
         \/ \E c \in Call, a \in Activity : RemoveCount(c, a)
         \/ \E c \in Call : RemoveDelete(c)
         \/ \E c \in Call, r \in Receptor, e \in Emisor, a \in Activity :
              SetDefaultCheck(c, r, e, a)
         \/ \E c \in Call : SetDefaultWrite(c)
         \/ \E r \in Receptor, e \in Emisor : ClearDefault(r, e)
         \/ \E c \in Call, d \in Doc, a \in Activity : OverrideCheck(c, d, a)
         \/ \E c \in Call : OverrideWrite(c)
         \/ \E d \in Doc : ClearOverride(d)
         \/ \E c \in Call, r \in Receptor, lot \in Lots : SeedRead(c, r, lot)
         \/ \E c \in Call, mine \in [Nombre -> Maybe] : SeedCreate(c, mine)
         \/ \E c \in Call : SeedReread(c)
         \/ \E c \in Call : SeedReadMapped(c)
         \/ \E c \in Call : SeedCommit(c)
         \/ \E c \in Call : SeedRollback(c)
BY DEF Next, Catalogue, Assign, Seed

Requests == {Idle} \cup Removing \cup Assigning \cup Overriding \cup Seeding

(* What a request holds, by the step it is at.                             *)
LEMMA Held ==
  ASSUME TypeOK, NEW c \in Call
  PROVE  /\ call[c] \in Requests
         /\ call[c].pc = "remove" => call[c] \in Removing
         /\ call[c].pc = "default" => call[c] \in Assigning
         /\ call[c].pc = "override" => call[c] \in Overriding
         /\ Seeds(c) => call[c] \in Seeding
<1>1. call[c] \in Requests
  BY DEF TypeOK, Requests
<1>2. CASE call[c] = Idle
  BY <1>1, <1>2 DEF Idle, Seeds, SeedSteps
<1>3. CASE call[c] \in Removing
  BY <1>1, <1>3 DEF Removing, Seeds, SeedSteps
<1>4. CASE call[c] \in Assigning
  BY <1>1, <1>4 DEF Assigning, Seeds, SeedSteps
<1>5. CASE call[c] \in Overriding
  BY <1>1, <1>5 DEF Overriding, Seeds, SeedSteps
<1>6. CASE call[c] \in Seeding
  BY <1>1, <1>6 DEF Seeding, Seeds, SeedSteps
<1> QED BY <1>1, <1>2, <1>3, <1>4, <1>5, <1>6 DEF Requests

LEMMA Indexed ==
  ASSUME TypeOK, NEW r \in Receptor
  PROVE  ByName(r) \in [Nombre -> Maybe]
<1>1. ASSUME NEW n \in Nombre
      PROVE  (IF Named(r, n) = {} THEN NoActivity ELSE CHOOSE a \in Named(r, n) : TRUE) \in Maybe
  BY DEF Named, Live, Maybe
<1> QED BY <1>1 DEF ByName

LEMMA Reindexed ==
  ASSUME TypeOK, NEW c \in Call, call[c] \in Seeding
  PROVE  Seen(c, call[c].receptor, call[c].idByName) \in [Nombre -> Maybe]
<1>1. ASSUME NEW n \in Nombre
      PROVE  (IF Visible(c, call[c].receptor, n) = {} THEN call[c].idByName[n]
              ELSE CHOOSE a \in Visible(c, call[c].receptor, n) : TRUE) \in Maybe
  <2>1. call[c].idByName[n] \in Maybe /\ call[c].mine[n] \in Maybe
    BY DEF Seeding
  <2>2. Visible(c, call[c].receptor, n) \subseteq Maybe
    BY <2>1 DEF Visible, Named, Live, Maybe
  <2> QED BY <2>1, <2>2
<1> QED BY <1>1 DEF Seen
-----------------------------------------------------------------------------
(* Type correctness.                                                       *)

LEMMA TypeInit == Init => TypeOK
BY DEF Init, TypeOK, Maybe, Idle

LEMMA TypeCatalogue ==
  ASSUME TypeOK,
         \/ \E r \in Receptor, n \in Nombre, a \in Activity : Create(r, n, a)
         \/ \E a \in Activity, n \in Nombre, active \in BOOLEAN : Update(a, n, active)
         \/ \E a \in Activity : Deactivate(a)
         \/ \E c \in Call, a \in Activity : RemoveCount(c, a)
         \/ \E c \in Call : RemoveDelete(c)
  PROVE  TypeOK'
<1>1. ASSUME NEW r \in Receptor, NEW n \in Nombre, NEW a \in Activity, Create(r, n, a)
      PROVE  TypeOK'
  BY <1>1 DEF TypeOK, Create, Row
<1>2. ASSUME NEW a \in Activity, NEW n \in Nombre, NEW active \in BOOLEAN, Update(a, n, active)
      PROVE  TypeOK'
  <2>1. catalog[a] \in Row
    BY <1>2 DEF Update, Live
  <2>2. catalog' = [catalog EXCEPT ![a] = [@ EXCEPT !.nombre = n, !.active = active]]
    BY <1>2, <2>1 DEF Update, Row, TypeOK
  <2>3. [catalog[a] EXCEPT !.nombre = n, !.active = active] \in Row
    BY <2>1 DEF Row
  <2> QED BY <1>2, <2>2, <2>3 DEF TypeOK, Update
<1>3. ASSUME NEW a \in Activity, Deactivate(a)
      PROVE  TypeOK'
  <2>1. catalog[a] \in Row
    BY <1>3 DEF Deactivate, Live
  <2>2. [catalog[a] EXCEPT !.active = FALSE] \in Row
    BY <2>1 DEF Row
  <2> QED BY <1>3, <2>2 DEF TypeOK, Deactivate
<1>4. ASSUME NEW c \in Call, NEW a \in Activity, RemoveCount(c, a)
      PROVE  TypeOK'
  <2>1. [pc |-> "remove", activity |-> a] \in Removing
    BY DEF Removing
  <2> QED BY <1>4, <2>1 DEF TypeOK, RemoveCount, Begin
<1>5. ASSUME NEW c \in Call, RemoveDelete(c)
      PROVE  TypeOK'
  BY <1>5 DEF TypeOK, RemoveDelete, End
<1> QED BY <1>1, <1>2, <1>3, <1>4, <1>5

LEMMA TypeAssign ==
  ASSUME TypeOK,
         \/ \E c \in Call, r \in Receptor, e \in Emisor, a \in Activity :
              SetDefaultCheck(c, r, e, a)
         \/ \E c \in Call : SetDefaultWrite(c)
         \/ \E r \in Receptor, e \in Emisor : ClearDefault(r, e)
         \/ \E c \in Call, d \in Doc, a \in Activity : OverrideCheck(c, d, a)
         \/ \E c \in Call : OverrideWrite(c)
         \/ \E d \in Doc : ClearOverride(d)
  PROVE  TypeOK'
<1>1. ASSUME NEW c \in Call, NEW r \in Receptor, NEW e \in Emisor, NEW a \in Activity,
             SetDefaultCheck(c, r, e, a)
      PROVE  TypeOK'
  <2>1. [pc |-> "default", receptor |-> r, emisor |-> e, activity |-> a] \in Assigning
    BY DEF Assigning
  <2> QED BY <1>1, <2>1 DEF TypeOK, SetDefaultCheck, Begin
<1>2. ASSUME NEW c \in Call, SetDefaultWrite(c)
      PROVE  TypeOK'
  <2>1. call[c].activity \in Maybe /\ call[c].receptor \in Receptor /\ call[c].emisor \in Emisor
    BY <1>2, Held DEF SetDefaultWrite, Assigning, Maybe
  <2>2. defaults' \in [Receptor -> [Emisor -> Maybe]]
    BY <1>2, <2>1 DEF SetDefaultWrite, TypeOK
  <2> QED BY <1>2, <2>2 DEF TypeOK, SetDefaultWrite, End
<1>3. ASSUME NEW r \in Receptor, NEW e \in Emisor, ClearDefault(r, e)
      PROVE  TypeOK'
  BY <1>3 DEF TypeOK, ClearDefault, Maybe
<1>4. ASSUME NEW c \in Call, NEW d \in Doc, NEW a \in Activity, OverrideCheck(c, d, a)
      PROVE  TypeOK'
  <2>1. [pc |-> "override", doc |-> d, activity |-> a] \in Overriding
    BY DEF Overriding
  <2> QED BY <1>4, <2>1 DEF TypeOK, OverrideCheck, Begin
<1>5. ASSUME NEW c \in Call, OverrideWrite(c)
      PROVE  TypeOK'
  <2>1. call[c].activity \in Maybe
    BY <1>5, Held DEF OverrideWrite, Overriding, Maybe
  <2>2. overrides' \in [Doc -> Maybe]
    BY <1>5, <2>1 DEF OverrideWrite, TypeOK
  <2> QED BY <1>5, <2>2 DEF TypeOK, OverrideWrite, End
<1>6. ASSUME NEW d \in Doc, ClearOverride(d)
      PROVE  TypeOK'
  BY <1>6 DEF TypeOK, ClearOverride, Maybe
<1> QED BY <1>1, <1>2, <1>3, <1>4, <1>5, <1>6

LEMMA TypeSeed ==
  ASSUME TypeOK,
         \/ \E c \in Call, r \in Receptor, lot \in Lots : SeedRead(c, r, lot)
         \/ \E c \in Call, mine \in [Nombre -> Maybe] : SeedCreate(c, mine)
         \/ \E c \in Call : SeedReread(c)
         \/ \E c \in Call : SeedReadMapped(c)
         \/ \E c \in Call : SeedCommit(c)
         \/ \E c \in Call : SeedRollback(c)
  PROVE  TypeOK'
<1>1. ASSUME NEW c \in Call, NEW r \in Receptor, NEW lot \in Lots, SeedRead(c, r, lot)
      PROVE  TypeOK'
  <2>1. lot \in Lot /\ NoNames \in [Nombre -> Maybe] /\ ByName(r) \in [Nombre -> Maybe]
    BY LotsOfNames, Indexed DEF NoNames, Maybe
  <2>2. PICK pc \in {"create", "mapped"} :
          call' = [call EXCEPT ![c] = [pc |-> pc, receptor |-> r, lot |-> lot,
                     idByName |-> ByName(r), mine |-> NoNames, mapped |-> {}]]
    BY <1>1 DEF SeedRead, Begin
  <2>3. [pc |-> pc, receptor |-> r, lot |-> lot,
         idByName |-> ByName(r), mine |-> NoNames, mapped |-> {}] \in Seeding
    BY <2>1 DEF Seeding
  <2> QED BY <1>1, <2>2, <2>3 DEF TypeOK, SeedRead
<1>2. ASSUME NEW c \in Call, NEW mine \in [Nombre -> Maybe], SeedCreate(c, mine)
      PROVE  TypeOK'
  <2>1. call[c] \in Seeding
    BY <1>2, Held DEF SeedCreate, Seeds, SeedSteps
  <2>2. [call[c] EXCEPT !.pc = "reread", !.mine = mine] \in Seeding
    BY <2>1 DEF Seeding
  <2>3. call' = [call EXCEPT ![c] = [call[c] EXCEPT !.pc = "reread", !.mine = mine]]
    BY <1>2, <2>1 DEF SeedCreate, TypeOK, Seeding
  <2> QED BY <1>2, <2>2, <2>3 DEF TypeOK, SeedCreate
<1>3. ASSUME NEW c \in Call, SeedReread(c)
      PROVE  TypeOK'
  <2> DEFINE seen == Seen(c, call[c].receptor, call[c].idByName)
  <2>1. call[c] \in Seeding
    BY <1>3, Held DEF SeedReread, Seeds, SeedSteps
  <2>2. seen \in [Nombre -> Maybe]
    BY <2>1, Reindexed
  <2>3. call' = [call EXCEPT ![c].pc = "mapped", ![c].idByName = seen]
    BY <1>3 DEF SeedReread
  <2> HIDE DEF seen
  <2>4. [call[c] EXCEPT !.pc = "mapped", !.idByName = seen] \in Seeding
    BY <2>1, <2>2 DEF Seeding
  <2>5. call' = [call EXCEPT ![c] = [call[c] EXCEPT !.pc = "mapped", !.idByName = seen]]
    BY <2>1, <2>3 DEF TypeOK, Seeding
  <2> QED BY <1>3, <2>4, <2>5 DEF TypeOK, SeedReread
<1>4. ASSUME NEW c \in Call, SeedReadMapped(c)
      PROVE  TypeOK'
  <2> DEFINE set == {e \in DOMAIN call[c].lot.mappings :
                       defaults[call[c].receptor][e] # NoActivity}
  <2>1. call[c] \in Seeding
    BY <1>4, Held DEF SeedReadMapped, Seeds, SeedSteps
  <2>2. set \subseteq Emisor
    BY <2>1 DEF Seeding, Lot
  <2>3. call' = [call EXCEPT ![c].pc = "write", ![c].mapped = set]
    BY <1>4 DEF SeedReadMapped
  <2> HIDE DEF set
  <2>4. [call[c] EXCEPT !.pc = "write", !.mapped = set] \in Seeding
    BY <2>1, <2>2 DEF Seeding
  <2>5. call' = [call EXCEPT ![c] = [call[c] EXCEPT !.pc = "write", !.mapped = set]]
    BY <2>1, <2>3 DEF TypeOK, Seeding
  <2> QED BY <1>4, <2>4, <2>5 DEF TypeOK, SeedReadMapped
<1>5. ASSUME NEW c \in Call, SeedCommit(c)
      PROVE  TypeOK'
  <2> DEFINE r == call[c].receptor
             row(a) == [receptor |-> r, active |-> TRUE,
                        nombre |-> CHOOSE n \in Nombre : call[c].mine[n] = a]
  <2>1. call[c] \in Seeding /\ r \in Receptor
    BY <1>5, Held DEF SeedCommit, Seeds, SeedSteps, Seeding
  <2>2. ASSUME NEW a \in Activity, a \in Inserted(c)
        PROVE  row(a) \in Row
    <3>1. (CHOOSE n \in Nombre : call[c].mine[n] = a) \in Nombre
      <4>1. \E n \in Nombre : call[c].mine[n] = a
        BY <2>2 DEF Inserted
      <4> QED BY <4>1
    <3> QED BY <2>1, <3>1 DEF Row
  <2>3. catalog' = [a \in Activity |-> IF a \in Inserted(c) THEN row(a) ELSE catalog[a]]
    BY <1>5 DEF SeedCommit
  <2>4. catalog' \in [Activity -> Row \cup {NoRow, Gone}]
    <3> HIDE DEF row
    <3> QED BY <2>2, <2>3 DEF TypeOK
  <2>5. ASSUME NEW e \in ToMap(c)
        PROVE  Target(c, e) \in Maybe
    <3>1. call[c].lot \in Lot /\ call[c].idByName \in [Nombre -> Maybe]
      BY <2>1 DEF Seeding
    <3>2. PICK K \in SUBSET Emisor : call[c].lot.mappings \in [K -> Nombre]
      BY <3>1 DEF Lot
    <3>3. e \in K
      BY <2>5, <3>2 DEF ToMap
    <3>4. call[c].lot.mappings[e] \in Nombre
      BY <3>2, <3>3
    <3> QED BY <3>1, <3>4 DEF Target
  <2>6. defaults' \in [Receptor -> [Emisor -> Maybe]]
    <3>1. ASSUME NEW e \in Emisor
          PROVE  (IF e \in ToMap(c) THEN InsertedRow(c, e, defaults[r][e])
                  ELSE defaults[r][e]) \in Maybe
      BY <2>1, <2>5 DEF InsertedRow, TypeOK
    <3>2. defaults' = [defaults EXCEPT ![r] =
                         [e \in Emisor |-> IF e \in ToMap(c)
                                           THEN InsertedRow(c, e, defaults[r][e])
                                           ELSE defaults[r][e]]]
      BY <1>5 DEF SeedCommit
    <3> QED BY <2>1, <3>1, <3>2 DEF TypeOK
  <2>7. call' = [call EXCEPT ![c] = Idle] /\ UNCHANGED overrides
    BY <1>5 DEF SeedCommit, End
  <2> QED BY <2>4, <2>6, <2>7 DEF TypeOK
<1>6. ASSUME NEW c \in Call, SeedRollback(c)
      PROVE  TypeOK'
  BY <1>6 DEF TypeOK, SeedRollback, End
<1> QED BY <1>1, <1>2, <1>3, <1>4, <1>5, <1>6

LEMMA TypeStep ==
  ASSUME TypeOK, [Next]_vars
  PROVE  TypeOK'
<1>1. CASE UNCHANGED vars
  BY <1>1 DEF TypeOK, vars
<1>2. CASE Next
  BY <1>2, NextCases, TypeCatalogue, TypeAssign, TypeSeed
<1> QED BY <1>1, <1>2

(* Every reachable state is well typed.                                    *)
THEOREM ActivitiesTypes == Spec => []TypeOK
BY TypeInit, TypeStep, PTL DEF Spec
-----------------------------------------------------------------------------
(* References.                                                             *)

(* An id that was handed out, and whose activity, if it is still there, is  *)
(* one of contributor r.  It stays so: nothing moves an activity.           *)
RightfulIn(rows, a, r) == rows[a] # NoRow /\ (rows[a] \in Row => rows[a].receptor = r)
Rightful(a, r) == RightfulIn(catalog, a, r)

(* What a request has read keeps naming activities of its contributor, and  *)
(* what a seeding has inserted is nobody else's.                            *)
CallHolds(c) ==
  /\ call[c].pc = "default" => Rightful(call[c].activity, call[c].receptor)
  /\ call[c].pc = "override" => Rightful(call[c].activity, ReceptorOf[call[c].doc])
  /\ Seeds(c) => \A n \in Nombre : call[c].idByName[n] # NoActivity
                   => \/ call[c].idByName[n] \in Inserted(c)
                      \/ Rightful(call[c].idByName[n], call[c].receptor)
  /\ call[c].pc = "create" => Inserted(c) = {}
  /\ \A a \in Inserted(c) : catalog[a] = NoRow
Apart == \A b, c \in Call : b # c => Inserted(b) \cap Inserted(c) = {}

IInv == TypeOK /\ ReferencesHold /\ (\A c \in Call : CallHolds(c)) /\ Apart

(* How a step may treat the rows that are there.                           *)
Kept == \A a \in Activity : catalog[a] # NoRow
          => /\ catalog'[a] # NoRow
             /\ catalog'[a] \in Row => catalog[a] \in Row /\ catalog'[a].receptor = catalog[a].receptor
Stay == \A a \in Live : Referenced(a) => a \in Live'

LEMMA InsertedIds ==
  ASSUME TypeOK, NEW c \in Call
  PROVE  Inserted(c) \subseteq Activity
BY Held DEF Inserted, Seeding, Maybe

LEMMA RightfulKept ==
  ASSUME Kept, NEW a \in Activity, NEW r, Rightful(a, r)
  PROVE  Rightful(a, r)'
BY DEF Kept, Rightful, RightfulIn, Live

(* A request that does nothing keeps what it holds.                        *)
LEMMA CallKept ==
  ASSUME IInv, Kept, NEW c \in Call, call'[c] = call[c],
         \A a \in Inserted(c) : catalog'[a] = NoRow
  PROVE  CallHolds(c)' /\ Inserted(c)' = Inserted(c)
<1>1. Inserted(c)' = Inserted(c) /\ Seeds(c)' = Seeds(c)
  BY DEF Inserted, Seeds
<1>2. CallHolds(c) /\ TypeOK
  BY DEF IInv
<1>3. call[c].pc = "default" => Rightful(call[c].activity, call[c].receptor)'
  BY <1>2, Held, RightfulKept DEF CallHolds, Assigning
<1>4. call[c].pc = "override" => Rightful(call[c].activity, ReceptorOf[call[c].doc])'
  BY <1>2, Held, RightfulKept DEF CallHolds, Overriding
<1>5. ASSUME Seeds(c), NEW n \in Nombre, call[c].idByName[n] # NoActivity
      PROVE  \/ call[c].idByName[n] \in Inserted(c)
             \/ Rightful(call[c].idByName[n], call[c].receptor)'
  <2>1. call[c].idByName[n] \in Activity
    BY <1>2, <1>5, Held DEF Seeding, Maybe
  <2> QED BY <1>2, <1>5, <2>1, RightfulKept DEF CallHolds
<1> QED BY <1>1, <1>2, <1>3, <1>4, <1>5 DEF CallHolds, Rightful, RightfulIn, Live

(* References that do not change keep holding.                             *)
LEMMA ReferencesKept ==
  ASSUME IInv, Kept, Stay, UNCHANGED <<defaults, overrides>>
  PROVE  ReferencesHold'
<1>1. ASSUME NEW r \in Receptor, NEW e \in Emisor, defaults[r][e] # NoActivity
      PROVE  defaults[r][e] \in Live' /\ catalog'[defaults[r][e]].receptor = r
  <2>1. defaults[r][e] \in Live /\ catalog[defaults[r][e]].receptor = r
    BY <1>1 DEF IInv, ReferencesHold, DefaultsHold
  <2> QED BY <1>1, <2>1, Markers DEF Kept, Stay, Referenced, Live
<1>2. ASSUME NEW d \in Doc, overrides[d] # NoActivity
      PROVE  overrides[d] \in Live' /\ catalog'[overrides[d]].receptor = ReceptorOf[d]
  <2>1. overrides[d] \in Live /\ catalog[overrides[d]].receptor = ReceptorOf[d]
    BY <1>2 DEF IInv, ReferencesHold, OverridesHold
  <2> QED BY <1>2, <2>1, Markers DEF Kept, Stay, Referenced, Live
<1> QED BY <1>1, <1>2 DEF ReferencesHold, DefaultsHold, OverridesHold

(* An idle request holds nothing.                                          *)
LEMMA IdleHolds ==
  ASSUME NEW c \in Call, call'[c] = Idle
  PROVE  CallHolds(c)' /\ Inserted(c)' = {}
BY DEF CallHolds, Idle, Inserted, Seeds, SeedSteps

LEMMA HoldsInit == Init => ReferencesHold /\ (\A c \in Call : CallHolds(c)) /\ Apart
BY DEF Init, ReferencesHold, DefaultsHold, OverridesHold, CallHolds, Apart, Idle, Inserted, Seeds,
       SeedSteps

LEMMA SameCatalog ==
  ASSUME UNCHANGED catalog
  PROVE  Kept /\ Stay
BY DEF Kept, Stay, Live

(* Steps that touch the catalogue and no request.                          *)
LEMMA HoldsEdit ==
  ASSUME IInv, Kept, Stay, UNCHANGED <<defaults, overrides, call>>,
         \A c \in Call : \A a \in Inserted(c) : catalog'[a] = NoRow
  PROVE  ReferencesHold' /\ (\A c \in Call : CallHolds(c)') /\ Apart'
<1>1. \A c \in Call : CallHolds(c)' /\ Inserted(c)' = Inserted(c)
  BY CallKept
<1> QED BY <1>1, ReferencesKept DEF Apart, IInv

(* Steps that end the request c, or begin one that has inserted nothing.    *)
LEMMA HoldsOthers ==
  ASSUME IInv, Kept, NEW c \in Call, NEW record, call' = [call EXCEPT ![c] = record],
         \A b \in Call \ {c} : \A a \in Inserted(b) : catalog'[a] = NoRow,
         CallHolds(c)', Inserted(c)' = {}
  PROVE  (\A b \in Call : CallHolds(b)') /\ Apart'
<1>1. \A b \in Call \ {c} : call'[b] = call[b]
  BY DEF IInv, TypeOK
<1>2. \A b \in Call \ {c} : CallHolds(b)' /\ Inserted(b)' = Inserted(b)
  BY <1>1, CallKept
<1> QED BY <1>2 DEF Apart, IInv

LEMMA HoldsCatalogue ==
  ASSUME IInv,
         \/ \E r \in Receptor, n \in Nombre, a \in Activity : Create(r, n, a)
         \/ \E a \in Activity, n \in Nombre, active \in BOOLEAN : Update(a, n, active)
         \/ \E a \in Activity : Deactivate(a)
         \/ \E c \in Call, a \in Activity : RemoveCount(c, a)
         \/ \E c \in Call : RemoveDelete(c)
  PROVE  ReferencesHold' /\ (\A c \in Call : CallHolds(c)') /\ Apart'
<1>0. /\ TypeOK
      /\ \A c \in Call : \A a \in Inserted(c) : a \in Activity /\ catalog[a] = NoRow
  BY InsertedIds DEF IInv, CallHolds
<1>1. ASSUME NEW r \in Receptor, NEW n \in Nombre, NEW a \in Activity, Create(r, n, a)
      PROVE  ReferencesHold' /\ (\A c \in Call : CallHolds(c)') /\ Apart'
  <2>1. Kept /\ Stay
    BY <1>0, <1>1, Markers DEF Create, Fresh, Kept, Stay, Live, TypeOK
  <2>2. \A c \in Call : \A b \in Inserted(c) : catalog'[b] = NoRow
    BY <1>0, <1>1 DEF Create, Fresh, TypeOK
  <2> QED BY <1>1, <2>1, <2>2, HoldsEdit DEF Create
<1>2. ASSUME NEW a \in Activity, NEW n \in Nombre, NEW active \in BOOLEAN, Update(a, n, active)
      PROVE  ReferencesHold' /\ (\A c \in Call : CallHolds(c)') /\ Apart'
  <2>1. catalog[a] \in Row
    BY <1>2 DEF Update, Live
  <2>2. PICK row \in Row : /\ row.receptor = catalog[a].receptor
                           /\ catalog' = [catalog EXCEPT ![a] = row]
    <3> DEFINE row == [catalog[a] EXCEPT !.nombre = n, !.active = active]
    <3>1. row \in Row /\ row.receptor = catalog[a].receptor
      BY <2>1 DEF Row
    <3>2. catalog' = [catalog EXCEPT ![a] = [@ EXCEPT !.nombre = n, !.active = active]]
      BY <1>0, <1>2, <2>1 DEF Update, Row, TypeOK
    <3> QED BY <3>1, <3>2
  <2>3. Kept /\ Stay
    BY <1>0, <2>1, <2>2, Markers DEF Kept, Stay, Live, TypeOK
  <2>4. \A c \in Call : \A b \in Inserted(c) : catalog'[b] = NoRow
    BY <1>0, <2>1, <2>2, Markers DEF TypeOK
  <2> QED BY <1>2, <2>3, <2>4, HoldsEdit DEF Update
<1>3. ASSUME NEW a \in Activity, Deactivate(a)
      PROVE  ReferencesHold' /\ (\A c \in Call : CallHolds(c)') /\ Apart'
  <2>1. catalog[a] \in Row
    BY <1>3 DEF Deactivate, Live
  <2>2. PICK row \in Row : /\ row.receptor = catalog[a].receptor
                           /\ catalog' = [catalog EXCEPT ![a] = row]
    <3> DEFINE row == [catalog[a] EXCEPT !.active = FALSE]
    <3>1. row \in Row /\ row.receptor = catalog[a].receptor
      BY <2>1 DEF Row
    <3>2. catalog' = [catalog EXCEPT ![a] = row]
      BY <1>3 DEF Deactivate
    <3> QED BY <3>1, <3>2
  <2>3. Kept /\ Stay
    BY <1>0, <2>1, <2>2, Markers DEF Kept, Stay, Live, TypeOK
  <2>4. \A c \in Call : \A b \in Inserted(c) : catalog'[b] = NoRow
    BY <1>0, <2>1, <2>2, Markers DEF TypeOK
  <2> QED BY <1>3, <2>3, <2>4, HoldsEdit DEF Deactivate
<1>4. ASSUME NEW c \in Call, NEW a \in Activity, RemoveCount(c, a)
      PROVE  ReferencesHold' /\ (\A b \in Call : CallHolds(b)') /\ Apart'
  <2>1. Kept /\ Stay /\ ReferencesHold'
    BY <1>4, SameCatalog, ReferencesKept DEF RemoveCount
  <2>2. CallHolds(c)' /\ Inserted(c)' = {}
    <3>1. call'[c] = [pc |-> "remove", activity |-> a]
      BY <1>0, <1>4 DEF RemoveCount, Begin, TypeOK
    <3> QED BY <3>1 DEF CallHolds, Inserted, Seeds, SeedSteps
  <2> QED BY <1>0, <1>4, <2>1, <2>2, HoldsOthers DEF RemoveCount, Begin
<1>5. ASSUME NEW c \in Call, RemoveDelete(c)
      PROVE  ReferencesHold' /\ (\A b \in Call : CallHolds(b)') /\ Apart'
  <2> DEFINE a == call[c].activity
  <2>1. a \in Activity
    BY <1>0, <1>5, Held DEF RemoveDelete, Removing
  <2>2. catalog' = IF Deletable(a) THEN [catalog EXCEPT ![a] = Gone] ELSE catalog
    BY <1>5 DEF RemoveDelete
  <2>3. Kept /\ Stay /\ (\A b \in Activity : catalog[b] = NoRow => catalog'[b] = NoRow)
    <3> HIDE DEF a
    <3>1. CASE Deletable(a)
      BY <1>0, <2>1, <2>2, <3>1, Markers DEF Deletable, Kept, Stay, Live, TypeOK
    <3>2. CASE ~Deletable(a)
      BY <2>2, <3>2, SameCatalog
    <3> QED BY <3>1, <3>2
  <2>4. call'[c] = Idle
    BY <1>0, <1>5 DEF RemoveDelete, End, TypeOK
  <2>5. \A b \in Call \ {c} : \A x \in Inserted(b) : catalog'[x] = NoRow
    BY <1>0, <2>3
  <2>6. ReferencesHold'
    BY <1>5, <2>3, ReferencesKept DEF RemoveDelete
  <2> QED BY <1>5, <2>3, <2>4, <2>5, <2>6, IdleHolds, HoldsOthers DEF RemoveDelete, End
<1> QED BY <1>1, <1>2, <1>3, <1>4, <1>5

LEMMA HoldsAssign ==
  ASSUME IInv,
         \/ \E c \in Call, r \in Receptor, e \in Emisor, a \in Activity :
              SetDefaultCheck(c, r, e, a)
         \/ \E c \in Call : SetDefaultWrite(c)
         \/ \E r \in Receptor, e \in Emisor : ClearDefault(r, e)
         \/ \E c \in Call, d \in Doc, a \in Activity : OverrideCheck(c, d, a)
         \/ \E c \in Call : OverrideWrite(c)
         \/ \E d \in Doc : ClearOverride(d)
  PROVE  ReferencesHold' /\ (\A c \in Call : CallHolds(c)') /\ Apart'
<1>0. /\ TypeOK /\ ReferencesHold
      /\ \A c \in Call : \A a \in Inserted(c) : a \in Activity /\ catalog[a] = NoRow
  BY InsertedIds DEF IInv, CallHolds
<1>1. ASSUME NEW c \in Call, NEW r \in Receptor, NEW e \in Emisor, NEW a \in Activity,
             SetDefaultCheck(c, r, e, a)
      PROVE  ReferencesHold' /\ (\A b \in Call : CallHolds(b)') /\ Apart'
  <2>1. Kept /\ Stay /\ ReferencesHold'
    BY <1>1, SameCatalog, ReferencesKept DEF SetDefaultCheck
  <2>2. call'[c] = [pc |-> "default", receptor |-> r, emisor |-> e, activity |-> a]
    BY <1>0, <1>1 DEF SetDefaultCheck, Begin, TypeOK
  <2>3. Rightful(a, r)'
    BY <1>1, Markers DEF SetDefaultCheck, Assignable, Rightful, RightfulIn, Live
  <2>4. CallHolds(c)' /\ Inserted(c)' = {}
    BY <2>2, <2>3 DEF CallHolds, Inserted, Seeds, SeedSteps
  <2> QED BY <1>0, <1>1, <2>1, <2>4, HoldsOthers DEF SetDefaultCheck, Begin
<1>2. ASSUME NEW c \in Call, SetDefaultWrite(c)
      PROVE  ReferencesHold' /\ (\A b \in Call : CallHolds(b)') /\ Apart'
  <2> DEFINE a == call[c].activity  r == call[c].receptor  e == call[c].emisor
  <2>1. call[c] \in Assigning /\ call[c].pc = "default" /\ CallHolds(c)
    BY <1>0, <1>2, Held DEF SetDefaultWrite, IInv
  <2>2. Rightful(a, r) /\ r \in Receptor /\ e \in Emisor
    BY <2>1 DEF CallHolds, Assigning
  <2>3. UNCHANGED <<catalog, overrides>> /\ call' = [call EXCEPT ![c] = Idle]
    BY <1>2 DEF SetDefaultWrite, End
  <2>4. a \in Live => defaults' = [defaults EXCEPT ![r][e] = a]
    BY <1>2 DEF SetDefaultWrite
  <2>5. a \notin Live => defaults' = defaults
    BY <1>2 DEF SetDefaultWrite
  <2> HIDE DEF a, r, e
  <2>6. DefaultsHold'
    <3>1. CASE a \notin Live
      BY <1>0, <2>3, <2>5, <3>1 DEF ReferencesHold, DefaultsHold, Live
    <3>2. CASE a \in Live
      <4>1. catalog[a].receptor = r
        BY <2>2, <3>2 DEF Rightful, RightfulIn, Live
      <4>2. \A s \in Receptor, f \in Emisor : defaults'[s][f] \in {defaults[s][f], a}
        BY <1>0, <2>2, <2>4, <3>2 DEF TypeOK
      <4>3. \A s \in Receptor, f \in Emisor : s # r => defaults'[s][f] = defaults[s][f]
        BY <1>0, <2>2, <2>4, <3>2 DEF TypeOK
      <4> QED BY <1>0, <2>3, <3>2, <4>1, <4>2, <4>3 DEF ReferencesHold, DefaultsHold, Live
    <3> QED BY <3>1, <3>2
  <2>7. ReferencesHold'
    BY <1>0, <2>3, <2>6 DEF ReferencesHold, OverridesHold, Live
  <2>8. call'[c] = Idle
    BY <1>0, <2>3 DEF TypeOK
  <2> QED BY <1>0, <2>3, <2>7, <2>8, SameCatalog, IdleHolds, HoldsOthers
<1>3. ASSUME NEW r \in Receptor, NEW e \in Emisor, ClearDefault(r, e)
      PROVE  ReferencesHold' /\ (\A c \in Call : CallHolds(c)') /\ Apart'
  <2>1. \A s \in Receptor, f \in Emisor : defaults'[s][f] \in {defaults[s][f], NoActivity}
    BY <1>0, <1>3 DEF ClearDefault, TypeOK
  <2>2. ReferencesHold'
    BY <1>0, <1>3, <2>1 DEF ClearDefault, ReferencesHold, DefaultsHold, OverridesHold, Live
  <2>3. \A c \in Call : CallHolds(c)' /\ Inserted(c)' = Inserted(c)
    BY <1>0, <1>3, SameCatalog, CallKept DEF ClearDefault
  <2> QED BY <2>2, <2>3 DEF Apart, IInv
<1>4. ASSUME NEW c \in Call, NEW d \in Doc, NEW a \in Activity, OverrideCheck(c, d, a)
      PROVE  ReferencesHold' /\ (\A b \in Call : CallHolds(b)') /\ Apart'
  <2>1. Kept /\ Stay /\ ReferencesHold'
    BY <1>4, SameCatalog, ReferencesKept DEF OverrideCheck
  <2>2. call'[c] = [pc |-> "override", doc |-> d, activity |-> a]
    BY <1>0, <1>4 DEF OverrideCheck, Begin, TypeOK
  <2>3. Rightful(a, ReceptorOf[d])'
    BY <1>4, Markers DEF OverrideCheck, Assignable, Rightful, RightfulIn, Live
  <2>4. CallHolds(c)' /\ Inserted(c)' = {}
    BY <2>2, <2>3 DEF CallHolds, Inserted, Seeds, SeedSteps
  <2> QED BY <1>0, <1>4, <2>1, <2>4, HoldsOthers DEF OverrideCheck, Begin
<1>5. ASSUME NEW c \in Call, OverrideWrite(c)
      PROVE  ReferencesHold' /\ (\A b \in Call : CallHolds(b)') /\ Apart'
  <2> DEFINE a == call[c].activity  d == call[c].doc
  <2>1. call[c] \in Overriding /\ call[c].pc = "override" /\ CallHolds(c)
    BY <1>0, <1>5, Held DEF OverrideWrite, IInv
  <2>2. Rightful(a, ReceptorOf[d]) /\ d \in Doc
    BY <2>1 DEF CallHolds, Overriding
  <2>3. UNCHANGED <<catalog, defaults>> /\ call' = [call EXCEPT ![c] = Idle]
    BY <1>5 DEF OverrideWrite, End
  <2>4. a \in Live => overrides' = [overrides EXCEPT ![d] = a]
    BY <1>5 DEF OverrideWrite
  <2>5. a \notin Live => overrides' = overrides
    BY <1>5 DEF OverrideWrite
  <2> HIDE DEF a, d
  <2>6. OverridesHold'
    <3>1. CASE a \notin Live
      BY <1>0, <2>3, <2>5, <3>1 DEF ReferencesHold, OverridesHold, Live
    <3>2. CASE a \in Live
      BY <1>0, <2>2, <2>3, <2>4, <3>2
         DEF ReferencesHold, OverridesHold, Live, Rightful, RightfulIn,
             TypeOK
    <3> QED BY <3>1, <3>2
  <2>7. ReferencesHold'
    BY <1>0, <2>3, <2>6 DEF ReferencesHold, DefaultsHold, Live
  <2>8. call'[c] = Idle
    BY <1>0, <2>3 DEF TypeOK
  <2> QED BY <1>0, <2>3, <2>7, <2>8, SameCatalog, IdleHolds, HoldsOthers
<1>6. ASSUME NEW d \in Doc, ClearOverride(d)
      PROVE  ReferencesHold' /\ (\A c \in Call : CallHolds(c)') /\ Apart'
  <2>1. ReferencesHold'
    BY <1>0, <1>6 DEF ClearOverride, ReferencesHold, DefaultsHold, OverridesHold, Live, TypeOK
  <2>2. \A c \in Call : CallHolds(c)' /\ Inserted(c)' = Inserted(c)
    BY <1>0, <1>6, SameCatalog, CallKept DEF ClearOverride
  <2> QED BY <2>1, <2>2 DEF Apart, IInv
<1> QED BY <1>1, <1>2, <1>3, <1>4, <1>5, <1>6

LEMMA HoldsSeed ==
  ASSUME IInv,
         \/ \E c \in Call, r \in Receptor, lot \in Lots : SeedRead(c, r, lot)
         \/ \E c \in Call, mine \in [Nombre -> Maybe] : SeedCreate(c, mine)
         \/ \E c \in Call : SeedReread(c)
         \/ \E c \in Call : SeedReadMapped(c)
         \/ \E c \in Call : SeedRollback(c)
  PROVE  ReferencesHold' /\ (\A c \in Call : CallHolds(c)') /\ Apart'
<1>0. /\ TypeOK /\ ReferencesHold
      /\ \A c \in Call : CallHolds(c)
      /\ \A c \in Call : \A a \in Inserted(c) : a \in Activity /\ catalog[a] = NoRow
  BY InsertedIds DEF IInv, CallHolds
<1>1. ASSUME NEW c \in Call, NEW r \in Receptor, NEW lot \in Lots, SeedRead(c, r, lot)
      PROVE  ReferencesHold' /\ (\A b \in Call : CallHolds(b)') /\ Apart'
  <2>1. Kept /\ Stay /\ ReferencesHold'
    BY <1>1, SameCatalog, ReferencesKept DEF SeedRead
  <2>2. PICK pc \in {"create", "mapped"} :
          call' = [call EXCEPT ![c] = [pc |-> pc, receptor |-> r, lot |-> lot,
                     idByName |-> ByName(r), mine |-> NoNames, mapped |-> {}]]
    BY <1>1 DEF SeedRead, Begin
  <2>3. \A n \in Nombre : ByName(r)[n] # NoActivity => Rightful(ByName(r)[n], r)
    BY Markers DEF ByName, Named, Rightful, RightfulIn, Live
  <2>4. call'[c] = [pc |-> pc, receptor |-> r, lot |-> lot,
                    idByName |-> ByName(r), mine |-> NoNames, mapped |-> {}]
    BY <1>0, <2>2 DEF TypeOK
  <2>5. \A n \in Nombre : ByName(r)[n] # NoActivity 
          => RightfulIn(catalog', ByName(r)[n], r)
    BY <1>1, <2>3 DEF SeedRead, Rightful
  <2>6. Inserted(c)' = {}
    BY <2>4 DEF Inserted, NoNames
  <2>7. CallHolds(c)'
    BY <2>4, <2>5, <2>6 DEF CallHolds, Rightful
  <2> QED BY <1>0, <1>1, <2>1, <2>2, <2>6, <2>7, HoldsOthers DEF SeedRead
<1>2. ASSUME NEW c \in Call, NEW mine \in [Nombre -> Maybe], SeedCreate(c, mine)
      PROVE  ReferencesHold' /\ (\A b \in Call : CallHolds(b)') /\ Apart'
  <2>1. Kept /\ Stay /\ ReferencesHold'
    BY <1>2, SameCatalog, ReferencesKept DEF SeedCreate
  <2>2. call[c] \in Seeding /\ Seeds(c) /\ CallHolds(c)
    BY <1>0, <1>2, Held DEF SeedCreate, Seeds, SeedSteps
  <2>3. /\ call'[c] = [call[c] EXCEPT !.pc = "reread", !.mine = mine]
        /\ \A b \in Call \ {c} : call'[b] = call[b]
    BY <1>0, <1>2, <2>2 DEF SeedCreate, TypeOK, Seeding
  <2>4. \A b \in Call \ {c} : CallHolds(b)' /\ Inserted(b)' = Inserted(b)
    BY <1>0, <1>2, <2>1, <2>3, CallKept DEF SeedCreate
  <2>5. /\ call'[c].pc = "reread" /\ call'[c].mine = mine
        /\ call'[c].idByName = call[c].idByName /\ call'[c].receptor = call[c].receptor
    BY <2>2, <2>3 DEF Seeding
  <2>6. Inserted(c)' = {mine[n] : n \in Nombre} \ {NoActivity}
    BY <2>5 DEF Inserted, Seeds, SeedSteps
  <2>7. Inserted(c)' \subseteq Fresh
    BY <1>2, <2>6 DEF SeedCreate
  <2>8. \A n \in Nombre : call[c].idByName[n] # NoActivity
                           => Rightful(call[c].idByName[n], call[c].receptor)
    BY <1>2, <2>2 DEF CallHolds, SeedCreate
  <2>9. \A n \in Nombre : call[c].idByName[n] # NoActivity
                           => RightfulIn(catalog', call[c].idByName[n], call[c].receptor)
    BY <1>2, <2>8 DEF SeedCreate, Rightful
  <2>10. \A a \in Inserted(c)' : catalog'[a] = NoRow
    BY <1>2, <2>7 DEF Fresh, SeedCreate
  <2>11. CallHolds(c)'
    BY <2>5, <2>9, <2>10 DEF CallHolds, Rightful
  <2>12. Apart'
    BY <2>4, <2>7 DEF Apart, IInv, Fresh
  <2> QED BY <2>1, <2>4, <2>11, <2>12
<1>3. ASSUME NEW c \in Call, SeedReread(c)
      PROVE  ReferencesHold' /\ (\A b \in Call : CallHolds(b)') /\ Apart'
  <2> DEFINE seen == Seen(c, call[c].receptor, call[c].idByName)
  <2>1. Kept /\ Stay /\ ReferencesHold'
    BY <1>3, SameCatalog, ReferencesKept DEF SeedReread
  <2>2. call[c] \in Seeding /\ Seeds(c) /\ CallHolds(c)
    BY <1>0, <1>3, Held DEF SeedReread, Seeds, SeedSteps
  <2>3. call' = [call EXCEPT ![c].pc = "mapped", ![c].idByName = seen]
    BY <1>3 DEF SeedReread
  <2>4. ASSUME NEW n \in Nombre, seen[n] # NoActivity
        PROVE  seen[n] \in Inserted(c) \/ Rightful(seen[n], call[c].receptor)
    <3> DEFINE found == Visible(c, call[c].receptor, n)
    <3>1. seen[n] = IF found = {} THEN call[c].idByName[n] ELSE CHOOSE a \in found : TRUE
      BY DEF Seen
    <3>2. CASE found = {}
      BY <2>2, <2>4, <3>1, <3>2 DEF CallHolds
    <3>3. CASE found # {}
      <4>1. seen[n] \in found
        BY <3>1, <3>3
      <4>2. CASE seen[n] \in Named(call[c].receptor, n)
        BY <4>2, Markers DEF Named, Live, Rightful, RightfulIn
      <4>3. CASE seen[n] = call[c].mine[n]
        BY <2>2, <2>4, <4>3 DEF Inserted
      <4> QED BY <4>1, <4>2, <4>3 DEF Visible
    <3> QED BY <3>2, <3>3
  <2> HIDE DEF seen
  <2>5. /\ call'[c] = [call[c] EXCEPT !.pc = "mapped", !.idByName = seen]
        /\ \A b \in Call \ {c} : call'[b] = call[b]
    BY <1>0, <2>2, <2>3 DEF TypeOK, Seeding
  <2>6. /\ call'[c].pc = "mapped" /\ call'[c].mine = call[c].mine
        /\ call'[c].idByName = seen /\ call'[c].receptor = call[c].receptor
    BY <2>2, <2>5 DEF Seeding
  <2>7. Inserted(c)' = Inserted(c)
    BY <2>2, <2>6 DEF Inserted, Seeds, SeedSteps
  <2>8. \A n \in Nombre : seen[n] # NoActivity
          => seen[n] \in Inserted(c) \/ RightfulIn(catalog', seen[n], call[c].receptor)
    BY <1>3, <2>4 DEF SeedReread, Rightful
  <2>9. \A a \in Inserted(c) : catalog'[a] = NoRow
    BY <1>0, <1>3 DEF SeedReread
  <2>10. CallHolds(c)'
    BY <2>6, <2>7, <2>8, <2>9 DEF CallHolds, Rightful
  <2>11. \A b \in Call \ {c} : CallHolds(b)' /\ Inserted(b)' = Inserted(b)
    BY <1>0, <1>3, <2>1, <2>5, CallKept DEF SeedReread
  <2> QED BY <2>1, <2>7, <2>10, <2>11 DEF Apart, IInv
<1>4. ASSUME NEW c \in Call, SeedReadMapped(c)
      PROVE  ReferencesHold' /\ (\A b \in Call : CallHolds(b)') /\ Apart'
  <2> DEFINE set == {e \in DOMAIN call[c].lot.mappings :
                       defaults[call[c].receptor][e] # NoActivity}
  <2>1. Kept /\ Stay /\ ReferencesHold'
    BY <1>4, SameCatalog, ReferencesKept DEF SeedReadMapped
  <2>2. call[c] \in Seeding /\ Seeds(c) /\ CallHolds(c)
    BY <1>0, <1>4, Held DEF SeedReadMapped, Seeds, SeedSteps
  <2>3. call' = [call EXCEPT ![c].pc = "write", ![c].mapped = set]
    BY <1>4 DEF SeedReadMapped
  <2> HIDE DEF set
  <2>4. /\ call'[c] = [call[c] EXCEPT !.pc = "write", !.mapped = set]
        /\ \A b \in Call \ {c} : call'[b] = call[b]
    BY <1>0, <2>2, <2>3 DEF TypeOK, Seeding
  <2>5. /\ call'[c].pc = "write" /\ call'[c].mine = call[c].mine
        /\ call'[c].idByName = call[c].idByName /\ call'[c].receptor = call[c].receptor
    BY <2>2, <2>4 DEF Seeding
  <2>6. Inserted(c)' = Inserted(c)
    BY <2>2, <2>5 DEF Inserted, Seeds, SeedSteps
  <2>7. \A n \in Nombre : call[c].idByName[n] # NoActivity
          => \/ call[c].idByName[n] \in Inserted(c)
             \/ RightfulIn(catalog', call[c].idByName[n], call[c].receptor)
    BY <1>4, <2>2 DEF SeedReadMapped, CallHolds, Rightful
  <2>8. \A a \in Inserted(c) : catalog'[a] = NoRow
    BY <1>0, <1>4 DEF SeedReadMapped
  <2>9. CallHolds(c)'
    BY <2>5, <2>6, <2>7, <2>8 DEF CallHolds, Rightful
  <2>10. \A b \in Call \ {c} : CallHolds(b)' /\ Inserted(b)' = Inserted(b)
    BY <1>0, <1>4, <2>1, <2>4, CallKept DEF SeedReadMapped
  <2> QED BY <2>1, <2>6, <2>9, <2>10 DEF Apart, IInv
<1>5. ASSUME NEW c \in Call, SeedRollback(c)
      PROVE  ReferencesHold' /\ (\A b \in Call : CallHolds(b)') /\ Apart'
  <2>1. Kept /\ Stay /\ ReferencesHold'
    BY <1>5, SameCatalog, ReferencesKept DEF SeedRollback
  <2>2. call'[c] = Idle
    BY <1>0, <1>5 DEF SeedRollback, End, TypeOK
  <2> QED BY <1>0, <1>5, <2>1, <2>2, IdleHolds, HoldsOthers DEF SeedRollback, End
<1> QED BY <1>1, <1>2, <1>3, <1>4, <1>5

(* The lot is written: its activities appear, its suppliers point at them   *)
(* or at activities that are still there.                                   *)
LEMMA HoldsCommit ==
  ASSUME IInv, NEW c \in Call, SeedCommit(c)
  PROVE  ReferencesHold' /\ (\A b \in Call : CallHolds(b)') /\ Apart'
<1> DEFINE r == call[c].receptor
           row(a) == [receptor |-> r, active |-> TRUE,
                      nombre |-> CHOOSE n \in Nombre : call[c].mine[n] = a]
<1>0. /\ TypeOK /\ ReferencesHold /\ Apart
      /\ \A b \in Call : CallHolds(b) /\ Inserted(b) \subseteq Activity
      /\ \A b \in Call : \A a \in Inserted(b) : a \in Activity /\ catalog[a] = NoRow
  BY InsertedIds DEF IInv, CallHolds
<1>1. call[c] \in Seeding /\ r \in Receptor /\ Seeds(c)
  BY <1>0, Held DEF SeedCommit, Seeds, SeedSteps, Seeding
<1>2. ASSUME NEW a \in Inserted(c)
      PROVE  row(a) \in Row /\ row(a).receptor = r
  <2>1. \E n \in Nombre : call[c].mine[n] = a
    BY DEF Inserted
  <2>2. (CHOOSE n \in Nombre : call[c].mine[n] = a) \in Nombre
    BY <2>1
  <2> QED BY <1>1, <2>2 DEF Row
<1>3. catalog' = [a \in Activity |-> IF a \in Inserted(c) THEN row(a) ELSE catalog[a]]
  BY DEF SeedCommit
<1>4. \A a \in Inserted(c) : a \in Live' /\ catalog'[a].receptor = r
  <2> HIDE DEF row
  <2> QED BY <1>0, <1>2, <1>3 DEF Live
<1>5. \A a \in Activity \ Inserted(c) : catalog'[a] = catalog[a]
  BY <1>3
<1> HIDE DEF row
<1>6. Kept
  BY <1>0, <1>5 DEF Kept
<1>7. \A b \in Call \ {c} : \A a \in Inserted(b) : catalog'[a] = NoRow
  BY <1>0, <1>5 DEF Apart
<1>8. ASSUME NEW a \in Live
      PROVE  a \in Live' /\ catalog'[a].receptor = catalog[a].receptor
  BY <1>0, <1>5, Markers DEF Live
<1>9. ASSUME NEW e \in ToMap(c)
      PROVE  Target(c, e) \in Live' /\ catalog'[Target(c, e)].receptor = r
  <2> DEFINE n == call[c].lot.mappings[e]
  <2>1. call[c].lot \in Lot
    BY <1>1 DEF Seeding
  <2>2. PICK K \in SUBSET Emisor : call[c].lot.mappings \in [K -> Nombre]
    BY <2>1 DEF Lot
  <2>3. e \in K /\ n \in Nombre
    BY <2>2 DEF ToMap
  <2>4. e \in DOMAIN call[c].lot.mappings
    BY DEF ToMap
  <2>5. Target(c, e) # NoActivity /\ Target(c, e) \in Live \cup Inserted(c)
    BY <2>4 DEF SeedCommit, SeedHolds
  <2>6. CASE Target(c, e) \in Inserted(c)
    BY <1>4, <2>6
  <2>7. CASE Target(c, e) \notin Inserted(c)
    <3>1. Rightful(Target(c, e), r)
      BY <1>0, <1>1, <2>3, <2>5, <2>7 DEF CallHolds, Target
    <3> QED BY <1>8, <2>5, <2>7, <3>1 DEF Rightful, RightfulIn, Live
  <2> QED BY <2>6, <2>7
<1>10. DefaultsHold'
  <2>1. defaults' = [defaults EXCEPT ![r] =
                       [e \in Emisor |-> IF e \in ToMap(c)
                                         THEN InsertedRow(c, e, defaults[r][e])
                                         ELSE defaults[r][e]]]
    BY DEF SeedCommit
  <2>2. ASSUME NEW e \in Emisor
        PROVE  \/ defaults'[r][e] = defaults[r][e]
               \/ e \in ToMap(c) /\ defaults'[r][e] = Target(c, e)
    BY <1>0, <1>1, <2>1 DEF InsertedRow, TypeOK
  <2>3. \A s \in Receptor : s # r => defaults'[s] = defaults[s]
    BY <1>0, <2>1 DEF TypeOK
  <2>4. ASSUME NEW s \in Receptor, NEW e \in Emisor, defaults'[s][e] = defaults[s][e],
               defaults'[s][e] # NoActivity
        PROVE  defaults'[s][e] \in Live' /\ catalog'[defaults'[s][e]].receptor = s
    BY <1>0, <1>8, <2>4 DEF ReferencesHold, DefaultsHold
  <2> QED BY <1>9, <2>2, <2>3, <2>4 DEF DefaultsHold
<1>11. OverridesHold'
  <2>1. overrides' = overrides
    BY DEF SeedCommit
  <2> QED BY <1>0, <1>8, <2>1 DEF ReferencesHold, OverridesHold
<1>12. call'[c] = Idle /\ call' = [call EXCEPT ![c] = Idle]
  BY <1>0 DEF SeedCommit, End, TypeOK
<1> QED BY <1>6, <1>7, <1>10, <1>11, <1>12, IdleHolds, HoldsOthers DEF ReferencesHold

LEMMA IInvStep ==
  ASSUME IInv, [Next]_vars
  PROVE  IInv'
<1>1. TypeOK'
  BY TypeStep DEF IInv
<1>2. CASE UNCHANGED vars
  <2>1. Kept /\ Stay
    BY <1>2, SameCatalog DEF vars
  <2>2. \A c \in Call : \A a \in Inserted(c) : catalog'[a] = NoRow
    BY <1>2 DEF vars, IInv, CallHolds
  <2> QED BY <1>1, <1>2, <2>1, <2>2, HoldsEdit DEF vars, IInv
<1>3. CASE Next
  BY <1>1, <1>3, NextCases, HoldsCatalogue, HoldsAssign, HoldsSeed, HoldsCommit DEF IInv
<1> QED BY <1>2, <1>3

(* No default and no override points at a deleted activity or at one of     *)
(* another contributor: the check of each write, the foreign keys and the   *)
(* fact that nothing moves an activity are enough, however the requests     *)
(* interleave.                                                              *)
THEOREM ReferencesAlwaysHold == Spec => []ReferencesHold
<1>1. Init => IInv
  BY TypeInit, HoldsInit DEF IInv
<1>2. IInv /\ [Next]_vars => IInv'
  BY IInvStep
<1>3. IInv => ReferencesHold
  BY DEF IInv
<1> QED BY <1>1, <1>2, <1>3, PTL DEF Spec
-----------------------------------------------------------------------------
(***************************************************************************)
(* The filters. They name the suppliers of an activity instead of the      *)
(* purchases, no more of them than ACTIVITY_FILTER_MAX_SUPPLIERS.          *)
(***************************************************************************)

LEMMA NothingCut ==
  ASSUME IsFiniteSet(Emisor), Cardinality(Emisor) <= MaxSuppliers, NEW S \in SUBSET Emisor
  PROVE  FirstSuppliers(S) = S
<1> SUFFICES ASSUME NEW e \in S PROVE Cardinality({f \in S : f < e}) < MaxSuppliers
  BY DEF FirstSuppliers
<1> DEFINE before == {f \in S : f < e}
<1>1. before \subseteq Emisor \ {e}
  <2>1. ASSUME NEW f \in S, f < e PROVE f \in Emisor /\ f # e
    <3>1. f \in Nat /\ e \in Nat
      BY Ordered
    <3> QED BY <2>1, <3>1
  <2> QED BY <2>1
<1>2. IsFiniteSet(Emisor \ {e}) /\ Cardinality(Emisor \ {e}) = Cardinality(Emisor) - 1
  <2>1. e \in Emisor
    OBVIOUS
  <2> QED BY <2>1, FS_RemoveElement
<1>3. Cardinality(before) <= Cardinality(Emisor \ {e})
  BY <1>1, <1>2, FS_Subset
<1>4. Cardinality(before) \in Nat /\ Cardinality(Emisor) \in Nat /\ MaxSuppliers \in Nat
  BY <1>1, <1>2, FS_Subset, FS_CardinalityType, Ordered
<1> HIDE DEF before
<1>5. Cardinality(before) < MaxSuppliers
  BY <1>2, <1>3, <1>4
<1> QED BY <1>5 DEF before

LEMMA MappedAre ==
  ASSUME IsFiniteSet(Emisor), Cardinality(Emisor) <= MaxSuppliers, NEW r, NEW A
  PROVE  MappedEmisores(r, A) = {e \in Emisor : defaults[r][e] \in A}
BY NothingCut DEF MappedEmisores

LEMMA FilterFollows ==
  ASSUME IsFiniteSet(Emisor), Cardinality(Emisor) <= MaxSuppliers, TypeOK, ReferencesHold
  PROVE  FilterAgrees
<1>1. ASSUME NEW a \in Live
      PROVE  Listed(a, catalog[a].receptor) = {d \in Doc : Resolved(d) = a}
  <2> DEFINE r == catalog[a].receptor
  <2>1. a \in Activity /\ a # NoActivity /\ r \in Receptor /\ r # AnyReceptor
    BY Markers DEF Live, Row
  <2>2. ASSUME NEW d \in Doc PROVE d \in Listed(a, r) <=> Resolved(d) = a
    <3>1. ReceptorOf[d] \in Receptor /\ EmisorOf[d] \in Emisor
      BY Purchases
    <3>2. EmisorOf[d] \in MappedEmisores(r, {a}) <=> defaults[r][EmisorOf[d]] = a
      BY <3>1, MappedAre
    <3>3. d \in Listed(a, r) <=> /\ ReceptorOf[d] = r
                                 /\ \/ overrides[d] = a
                                    \/ /\ overrides[d] = NoActivity
                                       /\ defaults[r][EmisorOf[d]] = a
      BY <2>1, <3>1, <3>2 DEF Listed, ByActivity, OfReceptor
    <3>4. Resolved(d) = a => ReceptorOf[d] = r
      BY <2>1, <3>1 DEF Resolved, ReferencesHold, DefaultsHold, OverridesHold
    <3> QED BY <2>1, <3>3, <3>4 DEF Resolved
  <2>3. Listed(a, r) \subseteq Doc
    BY DEF Listed, ByActivity
  <2> HIDE DEF r
  <2>4. Listed(a, r) = {d \in Doc : Resolved(d) = a}
    BY <2>2, <2>3
  <2> QED BY <2>4 DEF r
<1>2. ASSUME NEW r \in Receptor
      PROVE  ListedWithout(r) = {d \in OfReceptor(r) : Resolved(d) = NoActivity}
  <2>1. ASSUME NEW d \in OfReceptor(r) PROVE d \in ListedWithout(r) <=> Resolved(d) = NoActivity
    <3>1. d \in Doc /\ ReceptorOf[d] = r /\ EmisorOf[d] \in Emisor
      BY Markers, Purchases DEF OfReceptor
    <3>2. EmisorOf[d] \in MappedEmisores(r, Activity) <=> defaults[r][EmisorOf[d]] # NoActivity
      BY <3>1, MappedAre, Markers DEF TypeOK, Maybe
    <3> QED BY <3>1, <3>2 DEF ListedWithout, WithoutActivity, Resolved
  <2> QED BY <2>1 DEF ListedWithout
<1> QED BY <1>1, <1>2 DEF FilterAgrees

(* A filter by activity answers with exactly the purchases whose effective *)
(* activity is the one asked for, and a filter for the purchases without   *)
(* activity with exactly those, however the references were written, as    *)
(* long as a contributor has no more suppliers than a filter may name.     *)
THEOREM FiltersAgree ==
  ASSUME IsFiniteSet(Emisor), Cardinality(Emisor) <= MaxSuppliers
  PROVE  Spec => []FilterAgrees
<1>1. TypeOK /\ ReferencesHold => FilterAgrees
  BY FilterFollows
<1> QED BY <1>1, ActivitiesTypes, ReferencesAlwaysHold, PTL

-----------------------------------------------------------------------------
(***************************************************************************)
(* A seeding ends in its commit or in its rollback, and neither writes     *)
(* over a default that is there.                                           *)
(***************************************************************************)
Survive ==
  \A c \in Call, r \in Receptor, e \in Emisor :
    Seeds(c) /\ call'[c] = Idle /\ defaults[r][e] # NoActivity
      => defaults'[r][e] = defaults[r][e]

(* Only these steps put an end to a seeding.                               *)
LEMMA SeedEnds ==
  ASSUME TypeOK, Next, NEW c \in Call, Seeds(c), call'[c] = Idle
  PROVE  SeedCommit(c) \/ SeedRollback(c)
<1>1. call \in [Call -> Requests] /\ call[c] # Idle /\ call[c].pc \in SeedSteps
  BY DEF TypeOK, Requests, Seeds, Idle, SeedSteps
<1>2. ASSUME NEW b \in Call, NEW record, Begin(b, record) PROVE FALSE
  BY <1>1, <1>2 DEF Begin
<1>3. ASSUME NEW b \in Call, call[b].pc \notin SeedSteps, End(b) PROVE FALSE
  BY <1>1, <1>3 DEF End
<1>4. ASSUME call' = call PROVE FALSE
  BY <1>1, <1>4
<1>5. ASSUME NEW b \in Call, End(b) PROVE b = c
  BY <1>1, <1>5 DEF End
<1>6. ASSUME NEW b \in Call, call[b].pc \in SeedSteps,
             NEW record, record.pc \in SeedSteps, call' = [call EXCEPT ![b] = record]
      PROVE  FALSE
  BY <1>1, <1>6 DEF Idle, SeedSteps
<1>7. ASSUME NEW b \in Call, NEW mine, SeedCreate(b, mine) PROVE FALSE
  <2>1. b = c
    BY <1>1, <1>7 DEF SeedCreate
  <2>2. call[c] \in Seeding
    BY Held
  <2>3. call'[c].pc = "reread"
    BY <1>1, <1>7, <2>1, <2>2 DEF SeedCreate, Seeding
  <2> QED BY <2>3 DEF Idle
<1>8. ASSUME NEW b \in Call, SeedReread(b) PROVE FALSE
  <2>1. b = c
    BY <1>1, <1>8 DEF SeedReread
  <2>2. call[c] \in Seeding
    BY Held
  <2>3. call'[c].pc = "mapped"
    BY <1>1, <1>8, <2>1, <2>2 DEF SeedReread, Seeding
  <2> QED BY <2>3 DEF Idle
<1>9. ASSUME NEW b \in Call, SeedReadMapped(b) PROVE FALSE
  <2>1. b = c
    BY <1>1, <1>9 DEF SeedReadMapped
  <2>2. call[c] \in Seeding
    BY Held
  <2>3. call'[c].pc = "write"
    BY <1>1, <1>9, <2>1, <2>2 DEF SeedReadMapped, Seeding
  <2> QED BY <2>3 DEF Idle
<1>10. CASE \/ \E r \in Receptor, n \in Nombre, a \in Activity : Create(r, n, a)
            \/ \E a \in Activity, n \in Nombre, active \in BOOLEAN : Update(a, n, active)
            \/ \E a \in Activity : Deactivate(a)
            \/ \E r \in Receptor, e \in Emisor : ClearDefault(r, e)
            \/ \E d \in Doc : ClearOverride(d)
  BY <1>4, <1>10 DEF Create, Update, Deactivate, ClearDefault, ClearOverride
<1>11. CASE \/ \E b \in Call, a \in Activity : RemoveCount(b, a)
            \/ \E b \in Call, r \in Receptor, e \in Emisor, a \in Activity :
                 SetDefaultCheck(b, r, e, a)
            \/ \E b \in Call, d \in Doc, a \in Activity : OverrideCheck(b, d, a)
            \/ \E b \in Call, r \in Receptor, lot \in Lots : SeedRead(b, r, lot)
  BY <1>2, <1>11 DEF RemoveCount, SetDefaultCheck, OverrideCheck, SeedRead
<1>12. CASE \E b \in Call : RemoveDelete(b) \/ SetDefaultWrite(b) \/ OverrideWrite(b)
  BY <1>3, <1>12 DEF RemoveDelete, SetDefaultWrite, OverrideWrite, SeedSteps
<1>13. CASE \E b \in Call : SeedCommit(b) \/ SeedRollback(b)
  BY <1>5, <1>13 DEF SeedCommit, SeedRollback
<1> QED BY <1>7, <1>8, <1>9, <1>10, <1>11, <1>12, <1>13, NextCases

LEMMA SurviveStep ==
  ASSUME TypeOK, [Next]_vars
  PROVE  Survive
<1> SUFFICES ASSUME NEW c \in Call, NEW r \in Receptor, NEW e \in Emisor,
                    Seeds(c), call'[c] = Idle, defaults[r][e] # NoActivity
             PROVE  defaults'[r][e] = defaults[r][e]
  BY DEF Survive
<1>1. defaults \in [Receptor -> [Emisor -> Maybe]]
  BY DEF TypeOK
<1>2. CASE UNCHANGED vars
  BY <1>2 DEF vars
<1>3. CASE SeedRollback(c)
  BY <1>3 DEF SeedRollback
<1>4. CASE SeedCommit(c)
  <2>1. defaults' = [defaults EXCEPT ![call[c].receptor] =
                       [f \in Emisor |-> IF f \in ToMap(c)
                          THEN InsertedRow(c, f, defaults[call[c].receptor][f])
                          ELSE defaults[call[c].receptor][f]]]
    BY <1>4 DEF SeedCommit
  <2> QED BY <1>1, <2>1 DEF InsertedRow
<1> QED BY <1>2, <1>3, <1>4, SeedEnds

(* A default that is there when a lot is written keeps its activity, even  *)
(* when the accountant set it after the seeding looked, for any number of  *)
(* requests and seedings.                                                  *)
THEOREM CorrectionsAreKept == Spec => CorrectionsSurvive
<1>1. TypeOK /\ [Next]_vars => [Survive]_vars
  BY SurviveStep
<1> QED BY <1>1, ActivitiesTypes, PTL DEF Spec, CorrectionsSurvive, Survive
=============================================================================
