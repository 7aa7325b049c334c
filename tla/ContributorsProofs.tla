------------------------- MODULE ContributorsProofs -------------------------
(* Proofs about Contributors: type correctness, every purchase stays with   *)
(* its contributor, the key of an NRC is not lost, an annex that is not     *)
(* refused is whole, and a contributor that is whole stays so, whatever     *)
(* ingestions and merges are under way.                                     *)
EXTENDS Contributors, FiniteSetTheorems, WellFoundedInduction, TLAPS

(* Rows and the two kinds of their absence are different.                   *)
LEMMA Kinds == NoRow \notin Row /\ Gone \notin Row /\ NoRow # Gone
<1>1. \A r \in Row : "nit" \in DOMAIN r
  BY DEF Row
<1>2. "nit" \notin DOMAIN NoRow /\ "nit" \notin DOMAIN Gone
  BY DEF NoRow, Gone
<1>3. NoRow.gone = FALSE /\ Gone.gone = TRUE
  BY DEF NoRow, Gone
<1> QED BY <1>1, <1>2, <1>3

LEMMA Numbers == Party \subseteq Nat
<1>1. MaxParty \in Nat
  BY Mentions
<1> QED BY <1>1 DEF Party

LEMMA Least ==
  ASSUME NEW S, S \subseteq Nat, S # {}
  PROVE  \E x \in S : \A y \in S : x <= y
<1>1. \E x \in S : \A y \in S : <<y, x>> \notin OpToRel(<, Nat)
  BY NatLessThanWellFounded, WFMin
<1>2. PICK x \in S : \A y \in S : <<y, x>> \notin OpToRel(<, Nat)
  BY <1>1
<1>3. \A y \in S : ~(y < x)
  <2> TAKE y \in S
  <2>1. y \in Nat /\ x \in Nat
    BY <1>2
  <2>2. y < x => <<y, x>> \in OpToRel(<, Nat)
    BY <2>1 DEF OpToRel
  <2> QED BY <2>2, <1>2
<1>4. \A y \in S : x <= y
  <2> TAKE y \in S
  <2>1. y \in Nat /\ x \in Nat
    BY <1>2
  <2> QED BY <2>1, <1>3
<1> QED BY <1>2, <1>4

LEMMA OldestOf ==
  ASSUME NEW S, S \subseteq Party, S # {}
  PROVE  Oldest(S) \in S
<1>1. \E x \in S : \A y \in S : x <= y
  <2>1. S \subseteq Nat
    BY Numbers
  <2> QED BY <2>1, Least
<1> QED BY <1>1 DEF Oldest

(* Among the parties of a set there is one with most documents.             *)
LEMMA HeaviestOf ==
  ASSUME NEW S, S \subseteq Party, S # {}
  PROVE  Heaviest(S) \in S
<1> DEFINE N == Cardinality(Doc)
           Rest(x) == N - Documents(x)
           Rests == {Rest(x) : x \in S}
<1>1. \A x \in Party : Documents(x) \in 0 .. N
  <2> TAKE x \in Party
  <2>1. {d \in Doc : docs[d] = x} \subseteq Doc
    OBVIOUS
  <2> QED BY <2>1, Mentions, FS_Subset, FS_CardinalityType DEF Documents
<1>2. Rests \subseteq Nat /\ Rests # {}
  <2>1. N \in Nat
    BY Mentions, FS_CardinalityType
  <2> QED BY <1>1, <2>1
<1>3. PICK k \in Rests : \A l \in Rests : k <= l
  BY <1>2, Least
<1> DEFINE T == {x \in S : Rest(x) = k}
<1>4. PICK x \in T : \A y \in T : x <= y
  <2>1. T # {} /\ T \subseteq Nat
    BY <1>3, Numbers
  <2> QED BY <2>1, Least
<1>5. \A y \in S : Heavier(x, y)
  <2> TAKE y \in S
  <2>1. Documents(x) \in 0 .. N /\ Documents(y) \in 0 .. N /\ N \in Nat
    BY <1>1, <1>4, Mentions, FS_CardinalityType
  <2>2. Rest(x) <= Rest(y)
    BY <1>3, <1>4
  <2>3. Rest(y) = Rest(x) => x <= y
    BY <1>4
  <2> QED BY <2>1, <2>2, <2>3 DEF Heavier
<1>6. \E z \in S : \A y \in S : Heavier(z, y)
  BY <1>4, <1>5
<1> QED BY <1>6 DEF Heaviest

LEMMA FirstIsThere ==
  ASSUME NEW G, G \subseteq Party, NEW S, S \subseteq G, NEW value
  PROVE  FirstOf(S, value) = Null \/ \E x \in S : FirstOf(S, value) = value[x]
<1> DEFINE having == {x \in S : value[x] # Null}
<1>1. CASE having = {}
  BY <1>1 DEF FirstOf
<1>2. CASE having # {}
  <2>1. Heaviest(having) \in having
    BY <1>2, HeaviestOf
  <2> QED BY <1>2, <2>1 DEF FirstOf
<1> QED BY <1>1, <1>2
---------------------------------------------------------------------------
(* What the records hold.                                                  *)

LEMMA Identity ==
  ASSUME NEW d \in Doc
  PROVE  /\ IdOf(d) \in {"nit", "dui"} \X Contributor /\ IdOf(d)[2] = Of[d]
         /\ DuiOf(d) \in ({"dui"} \X Contributor) \cup {Null}
         /\ NrcOf(d) \in ({"nrc"} \X Contributor) \cup {Null}
         /\ DuiOf(d) # Null => DuiOf(d)[2] = Of[d]
         /\ NrcOf(d) # Null => NrcOf(d)[2] = Of[d]
         /\ KeyOf(d) \in Identifier /\ KeyOf(d)[2] = Of[d]
         /\ KeyOf(d) # Null
<1>1. Of[d] \in Contributor /\ IdKind[d] \in {"nit", "dui"} /\ HasNrc[d] \in BOOLEAN
  BY Mentions
<1>2. \A i \in Identifier : i # Null
  BY Mentions
<1> QED BY <1>1, <1>2 DEF IdOf, DuiOf, NrcOf, KeyOf, Nrc, Dui, Identifier

LEMMA Columns ==
  ASSUME NEW r \in Row
  PROVE  /\ r.nit \in {"nit", "dui"} \X Contributor /\ r.nit[2] \in Contributor
         /\ r.dui \in ({"dui"} \X Contributor) \cup {Null}
         /\ r.nrc \in ({"nrc"} \X Contributor) \cup {Null}
         /\ r.key \in Maybe /\ r.dui \in Maybe /\ r.nrc \in Maybe
         /\ r.nit # Null
<1>1. \A i \in Identifier : i # Null
  BY Mentions
<1> QED BY <1>1 DEF Row, Maybe, Identifier

LEMMA CreatedRow ==
  ASSUME NEW d \in Doc
  PROVE  /\ Created(d) \in Row /\ Created(d).nit[2] = Of[d]
         /\ Owned(Created(d), Of[d])
<1>1. Created(d) \in Row
  BY Identity DEF Created, Row, Maybe
<1>2. Owned(Created(d), Of[d])
  BY Identity DEF Created, Owned
<1> QED BY <1>1, <1>2, Identity DEF Created

LEMMA CompletedRow ==
  ASSUME NEW row \in Row, NEW read, NEW d \in Doc
  PROVE  /\ Completed(row, read, d) \in Row
         /\ Completed(row, read, d).nit = row.nit
         /\ Owned(row, Of[d]) => Owned(Completed(row, read, d), Of[d])
<1> DEFINE new == Completed(row, read, d)
<1>1. new = [nit |-> new.nit, dui |-> new.dui, nrc |-> new.nrc, key |-> new.key]
  BY DEF Completed
<1>2. /\ new.nit = row.nit
      /\ new.dui = row.dui \/ new.dui = DuiOf(d)
      /\ new.nrc = row.nrc \/ new.nrc = NrcOf(d)
      /\ new.key = row.key \/ new.key = KeyOf(d)
  BY DEF Completed
<1> HIDE DEF new
<1>3. /\ DuiOf(d) \in ({"dui"} \X Contributor) \cup {Null}
      /\ NrcOf(d) \in ({"nrc"} \X Contributor) \cup {Null}
      /\ KeyOf(d) \in Maybe
  BY Identity DEF Maybe
<1>4. /\ row.nit \in {"nit", "dui"} \X Contributor
      /\ row.dui \in ({"dui"} \X Contributor) \cup {Null}
      /\ row.nrc \in ({"nrc"} \X Contributor) \cup {Null}
      /\ row.key \in Maybe
  BY Columns
<1>5. new \in Row
  <2>1. /\ new.nit \in {"nit", "dui"} \X Contributor
        /\ new.dui \in ({"dui"} \X Contributor) \cup {Null}
        /\ new.nrc \in ({"nrc"} \X Contributor) \cup {Null}
        /\ new.key \in Maybe
    BY <1>2, <1>3, <1>4
  <2> QED BY <1>1, <2>1 DEF Row
<1>6. ASSUME Owned(row, Of[d]) PROVE Owned(new, Of[d])
  <2>1. /\ DuiOf(d) # Null => DuiOf(d)[2] = Of[d]
        /\ NrcOf(d) # Null => NrcOf(d)[2] = Of[d]
        /\ KeyOf(d)[2] = Of[d]
    BY Identity
  <2>2. /\ row.nit # Null => row.nit[2] = Of[d]
        /\ row.dui # Null => row.dui[2] = Of[d]
        /\ row.nrc # Null => row.nrc[2] = Of[d]
        /\ row.key # Null => row.key[2] = Of[d]
    BY <1>6 DEF Owned
  <2>3. /\ new.nit # Null => new.nit[2] = Of[d]
        /\ new.dui # Null => new.dui[2] = Of[d]
        /\ new.nrc # Null => new.nrc[2] = Of[d]
        /\ new.key # Null => new.key[2] = Of[d]
    BY <1>2, <2>1, <2>2
  <2> QED BY <2>3 DEF Owned
<1>7. new.nit = row.nit
  BY <1>2
<1> QED BY <1>5, <1>6, <1>7 DEF new

LEMMA HeldJob ==
  ASSUME TypeOK, NEW j \in Job, job[j].pc = "write"
  PROVE  /\ job[j] \in Reading /\ job[j].doc \in Doc /\ job[j].found \in Party \cup {0}
<1>1. job[j] \in Reading \cup {IdleJob}
  BY DEF TypeOK
<1>2. job[j] # IdleJob
  BY DEF IdleJob
<1> QED BY <1>1, <1>2 DEF Reading

LEMMA HeldMerge ==
  ASSUME TypeOK
  PROVE  /\ merge.plans \subseteq Plan
         /\ merge.pc = "apply" => merge.plan \in Plan /\ merge.moved \subseteq Doc
         /\ merge.pc \in {"idle", "plans", "apply"}
         /\ merge.pc = "apply" => merge = [pc |-> "apply", plans |-> merge.plans,
                                           plan |-> merge.plan, moved |-> merge.moved]
BY DEF TypeOK, Merging, NoMerge

LEMMA LiveRow ==
  ASSUME TypeOK, NEW x \in Live
  PROVE  x \in Party /\ parties[x] \in Row
BY DEF Live
---------------------------------------------------------------------------
(* The inductive invariant.                                                 *)

(* All identifiers of a party are of one contributor, its owner.            *)
RowsOwned == \A x \in Live : Owned(parties[x], parties[x].nit[2])

(* Party x exists or existed, and is p's as long as it is there.            *)
Known(x, p) == parties[x] # NoRow /\ (x \in Live => parties[x].nit[2] = p)

(* What an ingestion has found is a party of its contributor.               *)
JobHolds(j) == job[j].pc = "write" /\ job[j].found # 0
                 => Known(job[j].found, Of[job[j].doc])

(* A plan joins parties of one contributor and moves its identifiers.       *)
PlanOf(plan, p) == /\ Known(plan.canonical, p) /\ \A x \in plan.absorbed : Known(x, p)
                   /\ plan.canonical \notin plan.absorbed
                   /\ plan.dui \in {Null, Dui(p)} /\ plan.nrc \in {Null, Nrc(p)}
PlanHolds(plan) == \E p \in Contributor : PlanOf(plan, p)
MergeHolds == /\ \A plan \in merge.plans : PlanHolds(plan)
              /\ merge.pc = "apply" => /\ PlanHolds(merge.plan)
                                       /\ \A d \in merge.moved : docs[d] \in merge.plan.absorbed

OwnerInv == /\ TypeOK /\ RowsOwned /\ PurchasesKeepOwner
            /\ (\A j \in Job : JobHolds(j)) /\ MergeHolds

(* The condition on what older versions left: no party mixes contributors   *)
(* and every purchase hangs from a party of its own.                        *)
LegacySound ==
  \A l \in Legacies :
    /\ \A x \in Party : l.parties[x] \in Row => Owned(l.parties[x], l.parties[x].nit[2])
    /\ \A d \in Doc : l.docs[d] # 0 => /\ l.parties[l.docs[d]] \in Row
                                       /\ l.parties[l.docs[d]].nit[2] = Of[d]

LEMMA OwnerInit == LegacySound /\ Init => OwnerInv
<1> SUFFICES ASSUME LegacySound, Init PROVE OwnerInv
  OBVIOUS
<1>1. PICK l \in Legacies : parties = l.parties /\ docs = l.docs
  BY DEF Init
<1>2. /\ parties \in [Party -> Row \cup {NoRow}] /\ docs \in [Doc -> Party \cup {0}]
      /\ job = [j \in Job |-> IdleJob] /\ merge = NoMerge
      /\ unique = FALSE /\ attached = {}
  BY <1>1, Legacy DEF Init
<1>3. TypeOK
  BY <1>2 DEF TypeOK
<1>4. RowsOwned
  BY <1>1 DEF RowsOwned, Live, LegacySound
<1>5. PurchasesKeepOwner
  <2> SUFFICES ASSUME NEW d \in Doc, docs[d] # 0
               PROVE  docs[d] \in Live /\ Owned(parties[docs[d]], Of[d])
    BY DEF PurchasesKeepOwner
  <2>1. docs[d] \in Party /\ parties[docs[d]] \in Row /\ parties[docs[d]].nit[2] = Of[d]
    BY <1>1, <1>2 DEF LegacySound
  <2> QED BY <2>1, <1>4 DEF Live, RowsOwned
<1>6. \A j \in Job : JobHolds(j)
  BY <1>2 DEF JobHolds, IdleJob
<1>7. MergeHolds
  BY <1>2 DEF MergeHolds, NoMerge
<1> QED BY <1>3, <1>4, <1>5, <1>6, <1>7 DEF OwnerInv
---------------------------------------------------------------------------
(* Rows never come back and never change their owner.                       *)
Kept == \A x \in Party : parties[x] # NoRow
          => /\ parties'[x] # NoRow
             /\ parties'[x] \in Row => parties[x] \in Row /\ parties'[x].nit = parties[x].nit

LEMMA KnownKept ==
  ASSUME Kept, NEW x \in Party, NEW p, Known(x, p)
  PROVE  Known(x, p)'
BY DEF Kept, Known, Live

LEMMA JobsKept ==
  ASSUME TypeOK, Kept, NEW j \in Job, JobHolds(j), job'[j] = job[j]
  PROVE  JobHolds(j)'
<1> SUFFICES ASSUME job[j].pc = "write", job[j].found # 0
             PROVE  Known(job[j].found, Of[job[j].doc])'
  BY DEF JobHolds, Known, Live
<1>1. job[j].found \in Party
  BY HeldJob
<1>2. Known(job[j].found, Of[job[j].doc])
  BY DEF JobHolds
<1>3. \A p : Known(job[j].found, p) => Known(job[j].found, p)'
  BY <1>1 DEF Kept, Known, Live
<1> QED BY <1>2, <1>3 DEF Known, Live

LEMMA PlanKept ==
  ASSUME Kept, NEW plan \in Plan, PlanHolds(plan)
  PROVE  PlanHolds(plan)'
<1>1. PICK p \in Contributor : PlanOf(plan, p)
  BY DEF PlanHolds
<1>2. plan.canonical \in Party /\ plan.absorbed \subseteq Party
  BY DEF Plan
<1>3. \A x \in Party : Known(x, p) => Known(x, p)'
  BY DEF Kept, Known, Live
<1>4. PlanOf(plan, p)'
  BY <1>1, <1>2, <1>3 DEF PlanOf
<1> QED BY <1>4 DEF PlanHolds

(* The merge is not disturbed by who leaves its documents where they are.   *)
LEMMA MergeKept ==
  ASSUME TypeOK, Kept, MergeHolds, merge' = merge,
         merge.pc = "apply" => \A d \in merge.moved : docs'[d] = docs[d]
  PROVE  MergeHolds'
<1>1. ASSUME NEW plan \in merge.plans PROVE PlanHolds(plan)'
  <2>1. plan \in Plan /\ PlanHolds(plan)
    BY HeldMerge DEF MergeHolds
  <2> QED BY <2>1, PlanKept
<1>2. ASSUME merge.pc = "apply" PROVE PlanHolds(merge.plan)'
  <2>1. merge.plan \in Plan /\ PlanHolds(merge.plan)
    BY <1>2, HeldMerge DEF MergeHolds
  <2>2. \A plan \in Plan : PlanHolds(plan) => PlanHolds(plan)'
    BY PlanKept
  <2> QED BY <2>1, <2>2 DEF PlanHolds, PlanOf, Known, Live
<1>3. merge.pc = "apply" => \A d \in merge.moved : docs'[d] \in merge.plan.absorbed
  BY DEF MergeHolds
<1> QED BY <1>1, <1>2, <1>3 DEF MergeHolds, PlanHolds, PlanOf, Known, Live
---------------------------------------------------------------------------
(* The ingestion.                                                           *)

(* Steps that leave rows and purchases alone.                               *)
LEMMA RowsStay ==
  ASSUME OwnerInv, UNCHANGED <<parties, docs>>
  PROVE  Kept /\ RowsOwned' /\ PurchasesKeepOwner'
BY DEF OwnerInv, Kept, RowsOwned, PurchasesKeepOwner, Live

LEMMA CandidateOwned ==
  ASSUME OwnerInv, NEW d \in Doc, NEW x \in Candidates(d)
  PROVE  x \in Live /\ parties[x].nit[2] = Of[d]
<1>1. x \in Live
  BY DEF Candidates, ByKey, ByIdentifier
<1>2. parties[x] \in Row /\ Owned(parties[x], parties[x].nit[2])
  BY <1>1 DEF OwnerInv, RowsOwned, Live
<1>3. \/ parties[x].key = KeyOf(d) \/ parties[x].nit = IdOf(d)
      \/ DuiOf(d) # Null /\ parties[x].dui = DuiOf(d)
  BY DEF Candidates, ByKey, ByIdentifier
<1>4. CASE parties[x].key = KeyOf(d)
  BY <1>2, <1>4, Identity, <1>1 DEF Owned
<1>5. CASE parties[x].nit = IdOf(d)
  BY <1>5, Identity, <1>1
<1>6. CASE DuiOf(d) # Null /\ parties[x].dui = DuiOf(d)
  BY <1>2, <1>6, Identity, <1>1 DEF Owned
<1> QED BY <1>3, <1>4, <1>5, <1>6

LEMMA FindPartyStep ==
  ASSUME OwnerInv, NEW j \in Job, NEW d \in Doc, FindParty(j, d)
  PROVE  OwnerInv'
<1> DEFINE found == Candidates(d)
           new == job'[j]
<1>1. UNCHANGED <<parties, docs, unique, attached, merge>> /\ TypeOK
  BY DEF FindParty, OwnerInv
<1>2. /\ \A i \in Job : i # j => job'[i] = job[i]
      /\ new \in Reading /\ new.doc = d
      /\ new.found # 0 => new.found \in found
  <2>1. CASE found = {}
    <3>1. new = [pc |-> "write", doc |-> d, found |-> 0, dui |-> Null, nrc |-> Null, key |-> Null]
      BY <2>1, <1>1 DEF FindParty, TypeOK
    <3> QED BY <3>1, <1>1 DEF FindParty, TypeOK, Reading, Maybe
  <2>2. CASE found # {}
    <3> DEFINE x == Oldest(found)
    <3>1. x \in found
      <4>1. found \subseteq Party
        BY DEF Candidates, ByKey, ByIdentifier, Live
      <4> QED BY <4>1, <2>2, OldestOf
    <3>2. x \in Party /\ parties[x] \in Row
      BY <3>1, CandidateOwned DEF Live
    <3>3. new = [pc |-> "write", doc |-> d, found |-> x, dui |-> parties[x].dui,
                 nrc |-> parties[x].nrc, key |-> parties[x].key]
      BY <2>2, <1>1 DEF FindParty, TypeOK
    <3>4. parties[x].dui \in Maybe /\ parties[x].nrc \in Maybe /\ parties[x].key \in Maybe
      BY <3>2, Columns
    <3>5. new \in Reading /\ new.doc = d /\ new.found = x
      <4> HIDE DEF x, new
      <4> QED BY <3>2, <3>3, <3>4 DEF Reading
    <3> QED BY <3>1, <3>5, <1>1 DEF FindParty, TypeOK
  <2> QED BY <2>1, <2>2
<1>3. TypeOK'
  <2>1. job' \in [Job -> Reading \cup {IdleJob}]
    <3>1. job' = [job EXCEPT ![j] = new] /\ job \in [Job -> Reading \cup {IdleJob}]
      BY <1>1 DEF FindParty, TypeOK
    <3> HIDE DEF new
    <3> QED BY <1>2, <3>1
  <2> QED BY <1>1, <2>1 DEF TypeOK
<1>4. Kept /\ RowsOwned' /\ PurchasesKeepOwner'
  BY <1>1, RowsStay
<1>5. ASSUME NEW i \in Job PROVE JobHolds(i)'
  <2>1. CASE i # j
    BY <1>1, <1>2, <1>4, <2>1, JobsKept DEF OwnerInv
  <2>2. CASE i = j
    <3>1. new.found # 0 => new.found \in Live /\ parties[new.found].nit[2] = Of[d]
      BY <1>2, CandidateOwned
    <3> QED BY <1>1, <1>2, <2>2, <3>1, Kinds DEF JobHolds, Known, Live
  <2> QED BY <2>1, <2>2
<1>6. MergeHolds'
  BY <1>1, <1>4, MergeKept DEF OwnerInv
<1> QED BY <1>3, <1>4, <1>5, <1>6 DEF OwnerInv

(* The other jobs while one ends.                                           *)
LEMMA JobsEnd ==
  ASSUME OwnerInv, Kept, NEW j \in Job, job' = [job EXCEPT ![j] = IdleJob]
  PROVE  job' \in [Job -> Reading \cup {IdleJob}] /\ \A i \in Job : JobHolds(i)'
<1>1. job' \in [Job -> Reading \cup {IdleJob}] /\ TypeOK
  BY DEF OwnerInv, TypeOK
<1>2. ASSUME NEW i \in Job PROVE JobHolds(i)'
  <2>1. CASE i # j
    <3>1. job'[i] = job[i] /\ JobHolds(i)
      BY <2>1, <1>1 DEF OwnerInv, TypeOK
    <3> QED BY <1>1, <3>1, JobsKept
  <2>2. CASE i = j
    <3>1. job'[i] = IdleJob
      BY <2>2, <1>1 DEF TypeOK
    <3> QED BY <3>1 DEF JobHolds, IdleJob
  <2> QED BY <2>1, <2>2
<1> QED BY <1>1, <1>2

(* An ingestion writes a row of its own contributor and points its document *)
(* at it.                                                                   *)
LEMMA Written ==
  ASSUME OwnerInv, NEW j \in Job, job[j].pc = "write", ~Locked(job[j].doc),
         NEW x \in Party, NEW row \in Row, Owned(row, Of[job[j].doc]),
         row.nit[2] = Of[job[j].doc],
         parties[x] = NoRow \/ (x \in Live /\ row.nit = parties[x].nit),
         parties' = [parties EXCEPT ![x] = row],
         docs' = [docs EXCEPT ![job[j].doc] = x],
         job' = [job EXCEPT ![j] = IdleJob],
         UNCHANGED <<unique, attached, merge>>
  PROVE  OwnerInv'
<1> DEFINE d == job[j].doc
<1>1. TypeOK /\ d \in Doc
  BY HeldJob DEF OwnerInv
<1>2. /\ parties \in [Party -> Row \cup {NoRow, Gone}] /\ parties'[x] = row
      /\ \A y \in Party : y # x => parties'[y] = parties[y]
  BY <1>1 DEF TypeOK
<1>3. docs \in [Doc -> Party \cup {0}] /\ docs'[d] = x /\ \A e \in Doc : e # d => docs'[e] = docs[e]
  BY <1>1 DEF TypeOK
<1>4. Kept
  BY <1>2, Kinds DEF Kept, Live
<1>5. TypeOK'
  <2>1. parties' \in [Party -> Row \cup {NoRow, Gone}]
    BY <1>2
  <2>2. docs' \in [Doc -> Party \cup {0}]
    BY <1>3
  <2> QED BY <1>1, <1>4, <2>1, <2>2, JobsEnd DEF TypeOK
<1>6. RowsOwned'
  BY <1>2, Kinds DEF OwnerInv, RowsOwned, Live
<1>7. ASSUME NEW e \in Doc, docs'[e] # 0
      PROVE  docs'[e] \in Live' /\ Owned(parties'[docs'[e]], Of[e])
  <2>1. CASE e = d
    BY <2>1, <1>2, <1>3 DEF Live
  <2>2. CASE e # d
    <3>1. docs'[e] = docs[e] /\ docs[e] \in Live /\ Owned(parties[docs[e]], Of[e])
      BY <2>2, <1>3, <1>7 DEF OwnerInv, PurchasesKeepOwner
    <3>2. CASE docs[e] # x
      BY <3>1, <3>2, <1>2 DEF Live
    <3>3. CASE docs[e] = x
      <4>1. parties[x] \in Row /\ parties[x].nit = row.nit
        BY <3>1, <3>3, Kinds DEF Live
      <4>2. parties[x].nit[2] = Of[e]
        BY <4>1, <3>1, <3>3, Columns DEF Owned
      <4>3. Of[e] = Of[d]
        BY <4>1, <4>2
      <4> QED BY <3>1, <3>3, <4>3, <1>2 DEF Live
    <3> QED BY <3>2, <3>3
  <2> QED BY <2>1, <2>2
<1>8. PurchasesKeepOwner'
  BY <1>7 DEF PurchasesKeepOwner
<1>9. MergeHolds'
  <2>1. merge.pc = "apply" => d \notin merge.moved /\ merge.moved \subseteq Doc
    BY <1>1, HeldMerge DEF Locked
  <2> QED BY <1>1, <1>3, <1>4, <2>1, MergeKept DEF OwnerInv
<1> QED BY <1>4, <1>5, <1>6, <1>8, <1>9, JobsEnd DEF OwnerInv

LEMMA CreatePartyStep ==
  ASSUME OwnerInv, NEW j \in Job, NEW x \in Party, CreateParty(j, x)
  PROVE  OwnerInv'
<1> DEFINE d == job[j].doc
<1>1. job[j].pc = "write" /\ ~Locked(d) /\ parties[x] = NoRow
  BY DEF CreateParty, Fresh
<1>2. d \in Doc
  BY <1>1, HeldJob DEF OwnerInv
<1>3. Created(d) \in Row /\ Created(d).nit[2] = Of[d] /\ Owned(Created(d), Of[d])
  BY <1>2, CreatedRow
<1>4. /\ parties' = [parties EXCEPT ![x] = Created(d)]
      /\ docs' = [docs EXCEPT ![d] = x] /\ job' = [job EXCEPT ![j] = IdleJob]
      /\ UNCHANGED <<unique, attached, merge>>
  BY DEF CreateParty
<1> HIDE DEF d
<1> QED BY <1>1, <1>3, <1>4, Written DEF d

LEMMA UpdatePartyStep ==
  ASSUME OwnerInv, NEW j \in Job, UpdateParty(j)
  PROVE  OwnerInv'
<1> DEFINE d == job[j].doc
           x == job[j].found
           row == Completed(parties[x], job[j], d)
<1>1. job[j].pc = "write" /\ ~Locked(d) /\ x \in Live
  BY DEF UpdateParty
<1>2. d \in Doc /\ x \in Party /\ parties[x] \in Row
  BY <1>1, HeldJob DEF OwnerInv, Live
<1>3. parties[x].nit[2] = Of[d] /\ Owned(parties[x], Of[d])
  <2>1. x # 0 /\ JobHolds(j) /\ RowsOwned
    BY <1>2, Kinds DEF Party, OwnerInv
  <2> QED BY <2>1, <1>1 DEF JobHolds, Known, RowsOwned
<1>4. row \in Row /\ row.nit = parties[x].nit /\ Owned(row, Of[d])
  BY <1>2, <1>3, CompletedRow
<1>5. /\ parties' = [parties EXCEPT ![x] = row]
      /\ docs' = [docs EXCEPT ![d] = x] /\ job' = [job EXCEPT ![j] = IdleJob]
      /\ UNCHANGED <<unique, attached, merge>>
  BY DEF UpdateParty
<1> HIDE DEF row
<1> QED BY <1>1, <1>2, <1>3, <1>4, <1>5, Written

LEMMA IngestFailsStep ==
  ASSUME OwnerInv, NEW j \in Job, IngestFails(j)
  PROVE  OwnerInv'
<1>1. job' = [job EXCEPT ![j] = IdleJob] /\ UNCHANGED <<parties, docs, unique, attached, merge>>
  BY DEF IngestFails
<1>2. Kept /\ RowsOwned' /\ PurchasesKeepOwner'
  BY <1>1, RowsStay
<1>3. TypeOK' /\ \A i \in Job : JobHolds(i)'
  BY <1>1, <1>2, JobsEnd DEF OwnerInv, TypeOK
<1>4. MergeHolds'
  BY <1>1, <1>2, MergeKept DEF OwnerInv
<1> QED BY <1>2, <1>3, <1>4 DEF OwnerInv

(* Opening a catalogue, and the migration.                                  *)
LEMMA BesidesStep ==
  ASSUME OwnerInv, UNCHANGED <<parties, docs, job, merge>>,
         unique' \in BOOLEAN, attached' \subseteq Party
  PROVE  OwnerInv'
<1>1. Kept /\ RowsOwned' /\ PurchasesKeepOwner'
  BY RowsStay
<1>2. TypeOK'
  BY DEF OwnerInv, TypeOK
<1>3. \A i \in Job : JobHolds(i)'
  BY <1>1, JobsKept DEF OwnerInv
<1>4. MergeHolds'
  BY <1>1, MergeKept DEF OwnerInv
<1> QED BY <1>1, <1>2, <1>3, <1>4 DEF OwnerInv
---------------------------------------------------------------------------
(* The merge.                                                               *)

(* Steps of the merge that leave rows and purchases alone.                  *)
LEMMA MergeStep ==
  ASSUME OwnerInv, UNCHANGED <<parties, docs, unique, attached, job>>,
         merge' \in Merging \cup {NoMerge}, MergeHolds'
  PROVE  OwnerInv'
<1>1. Kept /\ RowsOwned' /\ PurchasesKeepOwner'
  BY RowsStay
<1>2. TypeOK'
  BY DEF OwnerInv, TypeOK
<1>3. \A i \in Job : JobHolds(i)'
  BY <1>1, JobsKept DEF OwnerInv
<1> QED BY <1>1, <1>2, <1>3 DEF OwnerInv

(* A group is of one contributor, and so is its plan.                       *)
LEMMA GroupPlan ==
  ASSUME OwnerInv, NEW G \in Groups, Cardinality(G) > 1
  PROVE  PlanGroup(G) \in Plan /\ PlanHolds(PlanGroup(G))
<1>1. PICK k \in Identifier : G = {x \in Live : parties[x].key = k}
  BY DEF Groups
<1> DEFINE p == k[2]
           c == Heaviest(G)
           plan == PlanGroup(G)
           duis == [x \in G |-> DuiOfParty(x)]
           nrcs == [x \in G |-> parties[x].nrc]
<1>2. p \in Contributor /\ k # Null
  BY Mentions DEF Identifier
<1>3. ASSUME NEW x \in G
      PROVE  /\ x \in Live /\ x \in Party /\ parties[x] \in Row
             /\ parties[x].nit[2] = p /\ Owned(parties[x], p)
  <2>1. x \in Live /\ x \in Party /\ parties[x] \in Row /\ parties[x].key = k
    BY <1>1 DEF Live
  <2>2. Owned(parties[x], parties[x].nit[2])
    BY <2>1 DEF OwnerInv, RowsOwned
  <2>3. k[2] = parties[x].nit[2]
    BY <2>1, <2>2, <1>2 DEF Owned
  <2> QED BY <2>1, <2>2, <2>3
<1>4. c \in G /\ G \subseteq Party
  <2>1. G \subseteq Party
    BY <1>3
  <2>2. G # {}
    BY FS_EmptySet
  <2> QED BY <2>1, <2>2, HeaviestOf
<1>5. ASSUME NEW x \in G
      PROVE  duis[x] \in {Null, Dui(p)} /\ nrcs[x] \in {Null, Nrc(p)}
  <2>1. /\ parties[x].nit \in {"nit", "dui"} \X Contributor /\ parties[x].nit[2] = p
        /\ parties[x].dui \in ({"dui"} \X Contributor) \cup {Null}
        /\ parties[x].nrc \in ({"nrc"} \X Contributor) \cup {Null}
        /\ parties[x].dui # Null => parties[x].dui[2] = p
        /\ parties[x].nrc # Null => parties[x].nrc[2] = p
    <3>1. parties[x] \in Row /\ parties[x].nit[2] = p /\ Owned(parties[x], p)
      BY <1>3
    <3> HIDE DEF p
    <3> QED BY <3>1, Columns DEF Owned
  <2>2. DuiOfParty(x) \in {Null, Dui(p)}
    <3> HIDE DEF p
    <3> QED BY <2>1 DEF DuiOfParty, Dui
  <2>3. parties[x].nrc \in {Null, Nrc(p)}
    <3> HIDE DEF p
    <3> QED BY <2>1 DEF Nrc
  <2> QED BY <2>2, <2>3
<1>6. /\ FirstOf(G \ {c}, duis) \in {Null, Dui(p)}
      /\ FirstOf(G \ {c}, nrcs) \in {Null, Nrc(p)}
  <2> HIDE DEF duis, nrcs, p, c
  <2>1. G \ {c} \subseteq G
    OBVIOUS
  <2>2. \A value : FirstOf(G \ {c}, value) = Null \/ \E x \in G \ {c} : FirstOf(G \ {c}, value) = value[x]
    BY <1>4, <2>1, FirstIsThere
  <2> QED BY <1>5, <2>2
<1>7. /\ plan.canonical = c /\ plan.absorbed = G \ {c}
      /\ plan.dui \in {Null, Dui(p)} /\ plan.nrc \in {Null, Nrc(p)}
      /\ plan = [canonical |-> c, absorbed |-> G \ {c}, dui |-> plan.dui, nrc |-> plan.nrc]
  BY <1>6 DEF PlanGroup
<1>8. plan \in Plan
  <2>1. plan.dui \in Maybe /\ plan.nrc \in Maybe
    BY <1>2, <1>7 DEF Maybe, Identifier, Dui, Nrc
  <2> HIDE DEF plan, c
  <2> QED BY <1>4, <1>7, <2>1 DEF Plan
<1>9. PlanOf(plan, p)
  <2>1. \A x \in G : Known(x, p)
    BY <1>3, Kinds DEF Known
  <2> HIDE DEF plan, c, p
  <2> QED BY <2>1, <1>4, <1>7 DEF PlanOf
<1> HIDE DEF p, plan
<1> QED BY <1>2, <1>8, <1>9 DEF PlanHolds, plan

LEMMA ListGroupsStep ==
  ASSUME OwnerInv, ListGroups
  PROVE  OwnerInv'
<1> DEFINE plans == {PlanGroup(G) : G \in {H \in Groups : Cardinality(H) > 1}}
<1>1. merge' = [pc |-> "plans", plans |-> plans] /\ UNCHANGED <<parties, docs, unique, attached, job>>
  BY DEF ListGroups
<1>2. \A plan \in plans : plan \in Plan /\ PlanHolds(plan)
  BY GroupPlan
<1> HIDE DEF plans
<1>3. merge' \in Merging
  BY <1>1, <1>2 DEF Merging
<1>4. \A plan : PlanHolds(plan) => PlanHolds(plan)'
  BY <1>1 DEF PlanHolds, PlanOf, Known, Live
<1>5. MergeHolds'
  BY <1>1, <1>2, <1>4 DEF MergeHolds, PlanHolds, PlanOf, Known, Live
<1> QED BY <1>1, <1>3, <1>5, MergeStep

LEMMA ReassignStep ==
  ASSUME OwnerInv, NEW plan \in merge.plans, Reassign(plan)
  PROVE  OwnerInv'
<1> DEFINE moved == {d \in Doc : docs[d] \in plan.absorbed}
           rest == merge.plans \ {plan}
<1>1. /\ merge' = [pc |-> "apply", plans |-> rest, plan |-> plan, moved |-> moved]
      /\ UNCHANGED <<parties, docs, unique, attached, job>>
  BY DEF Reassign
<1>2. /\ \A q \in merge.plans : q \in Plan /\ PlanHolds(q)
      /\ plan \in Plan /\ rest \subseteq Plan /\ moved \in SUBSET Doc
  BY HeldMerge DEF OwnerInv, MergeHolds
<1>3. merge' \in Merging
  <2> HIDE DEF moved, rest
  <2> QED BY <1>1, <1>2 DEF Merging
<1>4. \A q : PlanHolds(q) => PlanHolds(q)'
  BY <1>1 DEF PlanHolds, PlanOf, Known, Live
<1>5. /\ \A q \in merge'.plans : PlanHolds(q)'
      /\ PlanHolds(plan)' /\ merge'.plan = plan /\ merge'.moved = moved
  BY <1>1, <1>2, <1>4
<1>6. MergeHolds'
  BY <1>1, <1>5 DEF MergeHolds, PlanHolds, PlanOf, Known, Live
<1> QED BY <1>1, <1>3, <1>6, MergeStep

LEMMA EndMergeStep ==
  ASSUME OwnerInv, EndMerge
  PROVE  OwnerInv'
<1>1. merge' = NoMerge /\ UNCHANGED <<parties, docs, unique, attached, job>>
  BY DEF EndMerge
<1>2. MergeHolds'
  BY <1>1 DEF MergeHolds, NoMerge
<1> QED BY <1>1, <1>2, MergeStep

(* The plans that are left once one has been applied, or has failed.        *)
LEMMA PlansLeft ==
  ASSUME OwnerInv, Kept, merge.pc = "apply",
         merge' = [pc |-> "plans", plans |-> merge.plans]
  PROVE  merge' \in Merging /\ MergeHolds'
<1>1. ASSUME NEW q \in merge.plans PROVE q \in Plan /\ PlanHolds(q)'
  <2>1. q \in Plan /\ PlanHolds(q)
    BY HeldMerge DEF OwnerInv, MergeHolds
  <2> QED BY <2>1, PlanKept
<1>2. merge' \in Merging
  BY <1>1 DEF Merging
<1>3. \A q \in merge'.plans : PlanHolds(q)'
  BY <1>1
<1> QED BY <1>2, <1>3 DEF MergeHolds, PlanHolds, PlanOf, Known, Live

(* What the transaction of a group writes.                                  *)
LEMMA Absorbed ==
  ASSUME OwnerInv, ApplyGroup, merge.plan.canonical \in Live, Deletable(merge.plan)
  PROVE  OwnerInv'
<1> DEFINE plan == merge.plan
           c == plan.canonical
           new == parties'[c]
<1>1. /\ TypeOK /\ merge.pc = "apply" /\ plan \in Plan /\ PlanHolds(plan)
      /\ merge.moved \subseteq Doc /\ \A d \in merge.moved : docs[d] \in plan.absorbed
  BY HeldMerge DEF OwnerInv, MergeHolds, ApplyGroup
<1>2. PICK p \in Contributor : PlanOf(plan, p)
  BY <1>1 DEF PlanHolds
<1>3. /\ c \in Party /\ plan.absorbed \subseteq Party /\ c \notin plan.absorbed
      /\ parties[c] \in Row /\ parties[c].nit[2] = p /\ Owned(parties[c], p)
      /\ \A x \in plan.absorbed : Known(x, p)
  BY <1>1, <1>2 DEF PlanOf, Known, Plan, Live, OwnerInv, RowsOwned
<1>4. /\ docs' = [d \in Doc |-> IF d \in merge.moved THEN c ELSE docs[d]]
      /\ UNCHANGED <<unique, attached, job>>
      /\ merge' = [pc |-> "plans", plans |-> merge.plans]
  BY DEF ApplyGroup
<1>5. /\ parties' = [x \in Party |->
            CASE x \in plan.absorbed -> Gone
              [] x = c -> [parties[x] EXCEPT !.dui = IF plan.dui # Null THEN plan.dui ELSE @,
                                             !.nrc = IF plan.nrc # Null THEN plan.nrc ELSE @]
              [] OTHER -> parties[x]]
  BY DEF ApplyGroup
<1>6. /\ \A x \in plan.absorbed : parties'[x] = Gone
      /\ \A x \in Party : x # c /\ x \notin plan.absorbed => parties'[x] = parties[x]
      /\ new = [parties[c] EXCEPT !.dui = IF plan.dui # Null THEN plan.dui ELSE @,
                                  !.nrc = IF plan.nrc # Null THEN plan.nrc ELSE @]
  BY <1>3, <1>5
<1>7. new \in Row /\ new.nit = parties[c].nit /\ Owned(new, p)
  <2>1. parties[c] = [nit |-> parties[c].nit, dui |-> parties[c].dui,
                      nrc |-> parties[c].nrc, key |-> parties[c].key]
    BY <1>3 DEF Row
  <2>2. /\ new.nit = parties[c].nit /\ new.key = parties[c].key
        /\ new.dui = parties[c].dui \/ new.dui = plan.dui
        /\ new.nrc = parties[c].nrc \/ new.nrc = plan.nrc
        /\ new = [nit |-> new.nit, dui |-> new.dui, nrc |-> new.nrc, key |-> new.key]
    <3> HIDE DEF c
    <3> QED BY <1>6, <2>1
  <2>3. plan.dui \in {Null, <<"dui", p>>} /\ plan.nrc \in {Null, <<"nrc", p>>}
    BY <1>2 DEF PlanOf, Dui, Nrc
  <2> HIDE DEF new, c
  <2>4. new \in Row
    <3>1. /\ new.nit \in {"nit", "dui"} \X Contributor
          /\ new.dui \in ({"dui"} \X Contributor) \cup {Null}
          /\ new.nrc \in ({"nrc"} \X Contributor) \cup {Null}
          /\ new.key \in Maybe
      BY <1>3, <2>2, <2>3, Columns
    <3> QED BY <2>2, <3>1 DEF Row
  <2>5. Owned(new, p)
    BY <1>3, <2>2, <2>3 DEF Owned
  <2> QED BY <2>2, <2>4, <2>5
<1> HIDE DEF new
<1>8. parties' \in [Party -> Row \cup {NoRow, Gone}]
  <2>1. \A x \in Party : parties'[x] \in Row \cup {NoRow, Gone}
    BY <1>1, <1>6, <1>7 DEF TypeOK, new
  <2> DEFINE F(x) == CASE x \in plan.absorbed -> Gone
                      [] x = c -> [parties[x] EXCEPT !.dui = IF plan.dui # Null THEN plan.dui ELSE @,
                                                     !.nrc = IF plan.nrc # Null THEN plan.nrc ELSE @]
                      [] OTHER -> parties[x]
  <2>2. parties' = [x \in Party |-> F(x)]
    BY <1>5
  <2> HIDE DEF F
  <2>3. parties' = [x \in Party |-> parties'[x]]
    BY <2>2
  <2> QED BY <2>1, <2>3
<1>9. Kept
  <2> SUFFICES ASSUME NEW x \in Party, parties[x] # NoRow
               PROVE  /\ parties'[x] # NoRow
                      /\ parties'[x] \in Row => parties[x] \in Row /\ parties'[x].nit = parties[x].nit
    BY DEF Kept
  <2>1. CASE x \in plan.absorbed
    BY <2>1, <1>6, Kinds
  <2>2. CASE x = c
    BY <2>2, <1>3, <1>7, Kinds DEF new
  <2>3. CASE x # c /\ x \notin plan.absorbed
    BY <2>3, <1>6
  <2> QED BY <2>1, <2>2, <2>3
<1>10. RowsOwned'
  <2> SUFFICES ASSUME NEW x \in Party, parties'[x] \in Row
               PROVE  Owned(parties'[x], parties'[x].nit[2])
    BY DEF RowsOwned, Live
  <2>1. CASE x \in plan.absorbed
    BY <2>1, <1>6, Kinds
  <2>2. CASE x = c
    BY <2>2, <1>3, <1>7 DEF new
  <2>3. CASE x # c /\ x \notin plan.absorbed
    BY <2>3, <1>6 DEF OwnerInv, RowsOwned, Live
  <2> QED BY <2>1, <2>2, <2>3
<1>11. ASSUME NEW d \in Doc, docs'[d] # 0
       PROVE  docs'[d] \in Live' /\ Owned(parties'[docs'[d]], Of[d])
  <2>1. docs[d] # 0 => docs[d] \in Live /\ Owned(parties[docs[d]], Of[d])
    BY DEF OwnerInv, PurchasesKeepOwner
  <2>2. CASE d \in merge.moved
    <3>1. docs[d] \in plan.absorbed /\ docs[d] \in Party /\ docs'[d] = c /\ docs[d] # 0
      BY <2>2, <1>1, <1>3, <1>4 DEF Party
    <3>2. parties[docs[d]] \in Row /\ parties[docs[d]].nit[2] = p
      BY <3>1, <2>1, <1>3 DEF Known, Live
    <3>3. p = Of[d]
      BY <3>1, <3>2, <2>1, Columns DEF Owned
    <3> QED BY <3>1, <3>3, <1>3, <1>7 DEF Live, new
  <2>3. CASE d \notin merge.moved
    <3>1. docs'[d] = docs[d] /\ docs[d] \in Live /\ Owned(parties[docs[d]], Of[d])
      BY <2>1, <2>3, <1>4, <1>11
    <3>2. docs[d] \notin plan.absorbed
      BY <2>3 DEF Deletable
    <3>3. CASE docs[d] = c
      <4>1. p = Of[d]
        BY <3>1, <3>3, <1>3, Columns DEF Owned
      <4> QED BY <3>1, <3>3, <4>1, <1>3, <1>7 DEF Live, new
    <3>4. CASE docs[d] # c
      BY <3>1, <3>2, <3>4, <1>6 DEF Live
    <3> QED BY <3>3, <3>4
  <2> QED BY <2>2, <2>3
<1>12. PurchasesKeepOwner'
  BY <1>11 DEF PurchasesKeepOwner
<1>13. merge' \in Merging /\ MergeHolds'
  BY <1>1, <1>4, <1>9, PlansLeft
<1>14. TypeOK'
  <2>1. docs' \in [Doc -> Party \cup {0}]
    BY <1>1, <1>3, <1>4 DEF TypeOK
  <2> QED BY <1>1, <1>4, <1>8, <1>13, <2>1 DEF TypeOK
<1>15. \A i \in Job : JobHolds(i)'
  BY <1>1, <1>4, <1>9, JobsKept DEF OwnerInv
<1> QED BY <1>10, <1>12, <1>13, <1>14, <1>15 DEF OwnerInv

LEMMA ApplyGroupStep ==
  ASSUME OwnerInv, ApplyGroup
  PROVE  OwnerInv'
<1>1. CASE merge.plan.canonical \in Live /\ Deletable(merge.plan)
  BY <1>1, Absorbed
<1>2. CASE ~(merge.plan.canonical \in Live /\ Deletable(merge.plan))
  <2>1. /\ UNCHANGED <<parties, docs, unique, attached, job>> /\ merge.pc = "apply"
        /\ merge' = [pc |-> "plans", plans |-> merge.plans]
    BY <1>2 DEF ApplyGroup
  <2>2. Kept
    BY <2>1, RowsStay
  <2> QED BY <2>1, <2>2, PlansLeft, MergeStep
<1> QED BY <1>1, <1>2
---------------------------------------------------------------------------
LEMMA OwnerStep == OwnerInv /\ [Next]_vars => OwnerInv'
<1> SUFFICES ASSUME OwnerInv, [Next]_vars PROVE OwnerInv'
  OBVIOUS
<1>1. ASSUME NEW j \in Job, NEW d \in Doc, FindParty(j, d) PROVE OwnerInv'
  BY <1>1, FindPartyStep
<1>2. ASSUME NEW j \in Job, NEW x \in Party, CreateParty(j, x) PROVE OwnerInv'
  BY <1>2, CreatePartyStep
<1>3. ASSUME NEW j \in Job, UpdateParty(j) PROVE OwnerInv'
  BY <1>3, UpdatePartyStep
<1>4. ASSUME NEW j \in Job, IngestFails(j) PROVE OwnerInv'
  BY <1>4, IngestFailsStep
<1>5. ASSUME NEW x \in Party, Attach(x) PROVE OwnerInv'
  BY <1>5, BesidesStep DEF Attach, OwnerInv, TypeOK
<1>6. CASE ListGroups
  BY <1>6, ListGroupsStep
<1>7. ASSUME NEW plan \in merge.plans, Reassign(plan) PROVE OwnerInv'
  BY <1>7, ReassignStep
<1>8. CASE ApplyGroup
  BY <1>8, ApplyGroupStep
<1>9. CASE EndMerge
  BY <1>9, EndMergeStep
<1>10. CASE Migrate
  BY <1>10, BesidesStep DEF Migrate, OwnerInv, TypeOK
<1>11. CASE UNCHANGED vars
  BY <1>11, BesidesStep DEF vars, OwnerInv, TypeOK
<1> QED BY <1>1, <1>2, <1>3, <1>4, <1>5, <1>6, <1>7, <1>8, <1>9, <1>10, <1>11 DEF Next

LEMMA OwnerInvariant ==
  ASSUME LegacySound
  PROVE  Spec => []OwnerInv
BY OwnerInit, OwnerStep, PTL DEF Spec

(* The columns of every row hold identifiers of their kind, and what        *)
(* ingestions and merges remember names parties and documents.              *)
THEOREM ContributorsTypes == ASSUME LegacySound PROVE Spec => []TypeOK
<1>1. OwnerInv => TypeOK
  BY DEF OwnerInv
<1> QED BY <1>1, OwnerInvariant, PTL

(* No purchase is lost with a party the merge absorbs, and none comes into  *)
(* the book of another contributor.                                         *)
THEOREM PurchasesStay == ASSUME LegacySound PROVE Spec => []PurchasesKeepOwner
<1>1. OwnerInv => PurchasesKeepOwner
  BY DEF OwnerInv
<1> QED BY <1>1, OwnerInvariant, PTL
---------------------------------------------------------------------------
(* The key.  Rows of before the column had one lack it, and two ingestions  *)
(* that read such a row at once may write the lower key last.               *)
AllKeyed == \A l \in Legacies, x \in Party : l.parties[x] \in Row => l.parties[x].key # Null

(* No row lacks its key, and no ingestion has read one without.             *)
KeyInv == /\ OwnerInv
          /\ \A x \in Live : parties[x].key # Null
          /\ \A j \in Job : job[j].pc = "write" /\ job[j].found # 0 => job[j].key # Null

(* The rows that live on keep their key, or get the one of their NRC.       *)
KeyChange == \A x \in Live : parties'[x] \in Row
               => \/ parties'[x].key = parties[x].key
                  \/ parties'[x].key = Nrc(parties[x].nit[2])

(* Steps of the ingestion: the row of an update.                            *)
LEMMA CompletedKey ==
  ASSUME KeyInv, NEW j \in Job, UpdateParty(j)
  PROVE  KeyChange /\ \A x \in Live' : parties'[x].key # Null
<1> DEFINE d == job[j].doc
           x == job[j].found
           row == Completed(parties[x], job[j], d)
<1>1. /\ job[j].pc = "write" /\ x \in Live /\ parties' = [parties EXCEPT ![x] = row]
      /\ OwnerInv /\ TypeOK
  BY DEF UpdateParty, KeyInv, OwnerInv
<1>2. d \in Doc /\ x \in Party /\ parties[x] \in Row /\ x # 0
  BY <1>1, HeldJob DEF Live, Party
<1>3. job[j].key # Null /\ parties[x].key # Null /\ parties[x].nit[2] = Of[d]
  BY <1>1, <1>2 DEF KeyInv, OwnerInv, JobHolds, Known
<1>4. row.key = parties[x].key \/ row.key = Nrc(Of[d])
  <2>1. CASE HasNrc[d]
    BY <2>1 DEF Completed, KeyOf
  <2>2. CASE ~HasNrc[d]
    BY <2>2, <1>3 DEF Completed, UpdatedKey
  <2> QED BY <2>1, <2>2
<1>5. Nrc(Of[d]) # Null
  BY <1>2, Mentions DEF Nrc, Identifier
<1> HIDE DEF row
<1>6. parties'[x] = row /\ \A y \in Party : y # x => parties'[y] = parties[y]
  BY <1>1, <1>2 DEF TypeOK
<1>7. KeyChange
  BY <1>3, <1>4, <1>6 DEF KeyChange, Live
<1>8. \A y \in Live' : parties'[y].key # Null
  BY <1>1, <1>3, <1>4, <1>5, <1>6 DEF KeyInv, Live
<1> QED BY <1>7, <1>8

(* What a merged group does to a row that is left: only the canonical party *)
(* changes, and gets no more than identifiers.                              *)
LEMMA AppliedRow ==
  ASSUME OwnerInv, ApplyGroup, NEW x \in Party
  PROVE  /\ parties[x] # NoRow => parties'[x] # NoRow
         /\ parties'[x] \in Row
              => /\ parties[x] \in Row
                 /\ parties'[x].nit = parties[x].nit /\ parties'[x].key = parties[x].key
                 /\ \/ parties'[x].dui = parties[x].dui
                    \/ /\ x = merge.plan.canonical
                       /\ merge.plan.dui # Null /\ parties'[x].dui = merge.plan.dui
<1> DEFINE plan == merge.plan
           c == plan.canonical
<1>1. CASE UNCHANGED parties
  BY <1>1
<1>2. CASE ~UNCHANGED parties
  <2>1. parties' = [y \in Party |->
            CASE y \in plan.absorbed -> Gone
              [] y = c -> [parties[y] EXCEPT !.dui = IF plan.dui # Null THEN plan.dui ELSE @,
                                             !.nrc = IF plan.nrc # Null THEN plan.nrc ELSE @]
              [] OTHER -> parties[y]]
    BY <1>2 DEF ApplyGroup
  <2>2. c \notin plan.absorbed
    BY <1>2 DEF OwnerInv, MergeHolds, PlanHolds, PlanOf, ApplyGroup
  <2>3. CASE x \in plan.absorbed
    <3>1. parties'[x] = Gone
      BY <2>1, <2>2, <2>3
    <3> QED BY <3>1, Kinds
  <2>4. CASE x \notin plan.absorbed /\ x = c
    <3>1. parties[x] \in Row
      BY <1>2, <2>4 DEF ApplyGroup, Live
    <3>2. parties'[x] = [parties[x] EXCEPT !.dui = IF plan.dui # Null THEN plan.dui ELSE @,
                                           !.nrc = IF plan.nrc # Null THEN plan.nrc ELSE @]
      BY <2>1, <2>4
    <3>3. parties[x] = [nit |-> parties[x].nit, dui |-> parties[x].dui,
                        nrc |-> parties[x].nrc, key |-> parties[x].key]
      BY <3>1 DEF Row
    <3>4. parties'[x] # NoRow
      <4>1. "nit" \in DOMAIN parties'[x] /\ "nit" \notin DOMAIN NoRow
        BY <3>2, <3>3 DEF NoRow
      <4> QED BY <4>1
    <3> QED BY <2>4, <3>1, <3>2, <3>3, <3>4
  <2>5. CASE x \notin plan.absorbed /\ x # c
    BY <2>1, <2>5
  <2> QED BY <2>3, <2>4, <2>5
<1> QED BY <1>1, <1>2

LEMMA AppliedKey ==
  ASSUME KeyInv, ApplyGroup
  PROVE  KeyChange /\ \A x \in Live' : parties'[x].key # Null
BY AppliedRow DEF KeyChange, KeyInv, Live

LEMMA KeyStep ==
  ASSUME KeyInv, [Next]_vars
  PROVE  KeyChange /\ KeyInv'
<1> DEFINE Keyed == \A x \in Live' : parties'[x].key # Null
           Read(i) == job'[i].pc = "write" /\ job'[i].found # 0 => job'[i].key # Null
<1>1. TypeOK /\ OwnerInv /\ OwnerInv'
  BY OwnerStep DEF KeyInv, OwnerInv
<1>3. ASSUME NEW j \in Job, NEW x \in Party, CreateParty(j, x)
      PROVE  KeyChange /\ Keyed
  <2>1. /\ parties' = [parties EXCEPT ![x] = Created(job[j].doc)]
        /\ job[j].pc = "write" /\ parties[x] = NoRow
    BY <1>3 DEF CreateParty, Fresh
  <2>2. job[j].doc \in Doc
    BY <1>1, <2>1, HeldJob
  <2>3. Created(job[j].doc).key # Null
    BY <2>2, Identity DEF Created
  <2> QED BY <1>1, <2>1, <2>3, Kinds DEF KeyChange, KeyInv, Live, TypeOK
<1>4. KeyChange /\ Keyed
  <2>1. CASE \E j \in Job : UpdateParty(j)
    BY <2>1, CompletedKey
  <2>2. CASE ApplyGroup
    BY <2>2, AppliedKey
  <2>3. CASE UNCHANGED parties
    BY <2>3 DEF KeyChange, KeyInv, Live
  <2> QED BY <1>3, <2>1, <2>2, <2>3
       DEF Next, vars, FindParty, IngestFails, Attach, ListGroups, Reassign, EndMerge, Migrate
<1>5. \A i \in Job : job'[i] = job[i] => Read(i)
  BY DEF KeyInv
<1>6. \A i \in Job : job'[i] = IdleJob => Read(i)
  BY DEF IdleJob
<1>7. ASSUME NEW j \in Job, NEW d \in Doc, FindParty(j, d)
      PROVE  \A i \in Job : Read(i)
  <2> DEFINE found == Candidates(d)
  <2>1. CASE found = {}
    <3>1. job' = [job EXCEPT ![j] = [pc |-> "write", doc |-> d, found |-> 0,
                                     dui |-> Null, nrc |-> Null, key |-> Null]]
      BY <1>7, <2>1 DEF FindParty
    <3>2. job'[j].found = 0 /\ \A i \in Job : i # j => job'[i] = job[i]
      BY <3>1, <1>1 DEF TypeOK
    <3> QED BY <3>2, <1>5
  <2>2. CASE found # {}
    <3> DEFINE x == Oldest(found)
    <3>1. x \in Live
      <4>1. found \subseteq Party /\ found \subseteq Live
        BY DEF Candidates, ByKey, ByIdentifier, Live
      <4> QED BY <4>1, <2>2, OldestOf
    <3>2. job' = [job EXCEPT ![j] = [pc |-> "write", doc |-> d, found |-> x, dui |-> parties[x].dui,
                                     nrc |-> parties[x].nrc, key |-> parties[x].key]]
      BY <1>7, <2>2 DEF FindParty
    <3> HIDE DEF x
    <3>3. job'[j].key = parties[x].key /\ \A i \in Job : i # j => job'[i] = job[i]
      BY <3>2, <1>1 DEF TypeOK
    <3>4. parties[x].key # Null
      BY <3>1 DEF KeyInv
    <3> QED BY <3>3, <3>4, <1>5
  <2> QED BY <2>1, <2>2
<1>8. ASSUME NEW j \in Job, job' = [job EXCEPT ![j] = IdleJob]
      PROVE  \A i \in Job : Read(i)
  <2>1. job'[j] = IdleJob /\ \A i \in Job : i # j => job'[i] = job[i]
    BY <1>1, <1>8 DEF TypeOK
  <2> QED BY <2>1, <1>5, <1>6
<1>9. \A i \in Job : Read(i)
  <2> HIDE DEF Read
  <2>1. CASE \E j \in Job, d \in Doc : FindParty(j, d)
    BY <2>1, <1>7
  <2>2. CASE \E j \in Job : job' = [job EXCEPT ![j] = IdleJob]
    BY <2>2, <1>8
  <2>3. CASE UNCHANGED job
    BY <2>3, <1>5
  <2> QED BY <2>1, <2>2, <2>3
       DEF Next, vars, CreateParty, UpdateParty, IngestFails, Attach, ListGroups, Reassign,
           ApplyGroup, EndMerge, Migrate
<1> QED BY <1>1, <1>4, <1>9 DEF KeyInv

(* A party never loses the key of its NRC to a document without one.        *)
THEOREM KeysOfNrcStay == ASSUME LegacySound, AllKeyed PROVE Spec => KeyKeepsNrc
<1>1. Init => KeyInv
  <2> SUFFICES ASSUME Init PROVE KeyInv
    OBVIOUS
  <2>1. \A x \in Live : parties[x].key # Null
    BY DEF Init, AllKeyed, Live
  <2>2. \A j \in Job : job[j].pc # "write"
    BY DEF Init, IdleJob
  <2> QED BY <2>1, <2>2, OwnerInit DEF KeyInv
<1>2. KeyInv /\ [Next]_vars => KeyInv'
  BY KeyStep
<1>3. KeyInv /\ [Next]_vars
      => [\A x \in Live : parties'[x] \in Row
            => \A p \in Contributor : parties[x].key = Nrc(p) => parties'[x].key = Nrc(p)]_vars
  <2> SUFFICES ASSUME KeyInv, [Next]_vars, NEW x \in Live, parties'[x] \in Row,
                      NEW p \in Contributor, parties[x].key = Nrc(p)
               PROVE  parties'[x].key = Nrc(p)
    OBVIOUS
  <2>1. parties'[x].key = parties[x].key \/ parties'[x].key = Nrc(parties[x].nit[2])
    BY KeyStep DEF KeyChange
  <2>2. Owned(parties[x], parties[x].nit[2])
    BY DEF KeyInv, OwnerInv, RowsOwned
  <2>3. Nrc(p) # Null /\ Nrc(p)[2] = p
    BY Mentions DEF Nrc, Identifier
  <2>4. parties[x].nit[2] = p
    BY <2>2, <2>3 DEF Owned
  <2> QED BY <2>1, <2>4
<1> QED BY <1>1, <1>2, <1>3, PTL DEF Spec, KeyKeepsNrc
---------------------------------------------------------------------------
(* The annex.  The condition on what older versions left, once every purchase *)
(* has been ingested again under the keys: a row has the key of its NRC or of *)
(* the identifier it was created with, no two rows have the same one, and the *)
(* purchases with NRC hang from rows that have its key.                       *)
OwnKey(row) == row.key \in {row.nit, Nrc(row.nit[2])}
LegacyKeyed ==
  \A l \in Legacies :
    /\ \A x \in Party : l.parties[x] \in Row => OwnKey(l.parties[x])
    /\ \A x, y \in Party : l.parties[x] \in Row /\ l.parties[y] \in Row
                             /\ l.parties[x].nit = l.parties[y].nit => x = y
    /\ \A d \in Doc : HasNrc[d] /\ l.docs[d] # 0 => l.parties[l.docs[d]].key = Nrc(Of[d])

RowsKeyed == \A x \in Live : OwnKey(parties[x])
NitsDiffer == \A x, y \in Live : parties[x].nit = parties[y].nit => x = y

(* The purchases that came with an NRC are found under it.                  *)
NrcFiled == \A d \in Doc : HasNrc[d] /\ docs[d] # 0 => parties[docs[d]].key = Nrc(Of[d])

(* The key of an NRC that an ingestion has read is there still.             *)
ReadStands(j) ==
  job[j].pc = "write" /\ job[j].found \in Live /\ job[j].key = Nrc(Of[job[j].doc])
    => parties[job[j].found].key = Nrc(Of[job[j].doc])

(* What is joined shares an NRC, not an identifier.                         *)
Joins(plan) == \A x \in plan.absorbed \cup {plan.canonical} :
                 x \in Live => parties[x].key = Nrc(parties[x].nit[2])
PlansJoin == /\ \A plan \in merge.plans : Joins(plan)
             /\ merge.pc = "apply" => Joins(merge.plan)

FiledInv == /\ KeyInv /\ RowsKeyed /\ NitsDiffer /\ NrcFiled
            /\ (\A j \in Job : ReadStands(j)) /\ PlansJoin

LEMMA NrcIsKey ==
  ASSUME NEW p \in Contributor
  PROVE  Nrc(p) \in Identifier /\ Nrc(p) # Null /\ Nrc(p)[2] = p
BY Mentions DEF Nrc, Identifier

(* Rows come from an ingestion that creates them, and stay what they are.   *)
LEMMA RowSource ==
  ASSUME OwnerInv, [Next]_vars
  PROVE  Kept /\ \A x \in Live' : x \in Live \/ \E j \in Job : CreateParty(j, x)
<1>1. CASE UNCHANGED parties
  BY <1>1 DEF Kept, Live
<1>2. ASSUME NEW j \in Job, NEW x \in Party, CreateParty(j, x)
      PROVE  Kept /\ \A y \in Live' : y \in Live \/ \E i \in Job : CreateParty(i, y)
  <2>1. parties[x] = NoRow /\ \A y \in Party : y # x => parties'[y] = parties[y]
    BY <1>2 DEF CreateParty, Fresh, OwnerInv, TypeOK
  <2> QED BY <1>2, <2>1 DEF Kept, Live
<1>3. ASSUME NEW j \in Job, UpdateParty(j)
      PROVE  Kept /\ Live' = Live
  <2> DEFINE x == job[j].found
             row == Completed(parties[x], job[j], job[j].doc)
  <2>1. /\ x \in Live /\ job[j].pc = "write" /\ parties' = [parties EXCEPT ![x] = row]
        /\ TypeOK
    BY <1>3 DEF UpdateParty, OwnerInv
  <2>2. x \in Party /\ parties[x] \in Row /\ job[j].doc \in Doc
    BY <2>1, HeldJob DEF Live
  <2>3. row \in Row /\ row.nit = parties[x].nit
    BY <2>2, CompletedRow
  <2> HIDE DEF row
  <2>4. parties'[x] = row /\ \A y \in Party : y # x => parties'[y] = parties[y]
    BY <2>1, <2>2 DEF TypeOK
  <2> QED BY <2>2, <2>3, <2>4, Kinds DEF Kept, Live
<1>4. CASE ApplyGroup
  BY <1>4, AppliedRow DEF Kept, Live
<1> QED BY <1>1, <1>2, <1>3, <1>4
     DEF Next, vars, FindParty, IngestFails, Attach, ListGroups, Reassign, EndMerge, Migrate

LEMMA RowsKeyedStep ==
  ASSUME FiledInv, [Next]_vars
  PROVE  RowsKeyed' /\ NitsDiffer'
<1>1. OwnerInv /\ KeyInv /\ RowsKeyed /\ NitsDiffer /\ TypeOK
  BY DEF FiledInv, KeyInv, OwnerInv
<1>2. Kept /\ KeyChange
  BY <1>1, RowSource, KeyStep
<1>3. ASSUME NEW x \in Party, parties'[x] \in Row
      PROVE  \/ x \in Live /\ parties'[x].nit = parties[x].nit
             \/ \E j \in Job : CreateParty(j, x)
  <2>1. x \in Live \/ \E j \in Job : CreateParty(j, x)
    BY <1>1, <1>3, RowSource DEF Live
  <2>2. x \in Live => parties[x] # NoRow
    BY Kinds DEF Live
  <2> QED BY <1>2, <1>3, <2>1, <2>2 DEF Kept
<1>4. ASSUME NEW x \in Party, NEW j \in Job, CreateParty(j, x)
      PROVE  /\ OwnKey(parties'[x])
             /\ \A y \in Live : y # x => parties[y].nit # parties'[x].nit
             /\ \A y \in Party : y # x /\ parties'[y] \in Row => y \in Live
  <2> DEFINE d == job[j].doc
  <2>1. /\ job[j].pc = "write" /\ parties' = [parties EXCEPT ![x] = Created(d)]
        /\ ~Collides(x, Created(d))
    BY <1>4 DEF CreateParty
  <2>2. d \in Doc /\ parties'[x] = Created(d) /\ \A y \in Party : y # x => parties'[y] = parties[y]
    BY <1>1, <2>1, HeldJob DEF TypeOK
  <2>3. OwnKey(Created(d))
    BY <2>2, Identity DEF OwnKey, Created, KeyOf
  <2> QED BY <2>1, <2>2, <2>3 DEF Collides, Live
<1>5. ASSUME NEW x \in Party, parties'[x] \in Row
      PROVE  OwnKey(parties'[x])
  <2>1. CASE x \in Live /\ parties'[x].nit = parties[x].nit
    BY <1>1, <1>2, <1>5, <2>1 DEF KeyChange, RowsKeyed, OwnKey
  <2> QED BY <1>3, <1>4, <1>5, <2>1
<1>6. ASSUME NEW x \in Party, NEW y \in Party, parties'[x] \in Row, parties'[y] \in Row,
             parties'[x].nit = parties'[y].nit, x # y
      PROVE  FALSE
  <2>1. CASE /\ x \in Live /\ parties'[x].nit = parties[x].nit
             /\ y \in Live /\ parties'[y].nit = parties[y].nit
    BY <1>1, <1>6, <2>1 DEF NitsDiffer
  <2>2. ASSUME NEW z \in Party, NEW w \in Party, NEW j \in Job, CreateParty(j, z), z # w,
               parties'[w] \in Row, parties'[z].nit = parties'[w].nit
        PROVE  FALSE
    <3>1. w \in Live /\ parties[w].nit # parties'[z].nit
      BY <1>4, <2>2
    <3>2. parties'[w].nit = parties[w].nit
      BY <1>2, <2>2, <3>1, Kinds DEF Kept, Live
    <3> QED BY <2>2, <3>1, <3>2
  <2> QED BY <1>3, <1>6, <2>1, <2>2
<1> QED BY <1>5, <1>6 DEF RowsKeyed, NitsDiffer, Live

(* A purchase with NRC that keeps its party keeps the key over it.          *)
LEMMA FiledStays ==
  ASSUME FiledInv, [Next]_vars, NEW d \in Doc, HasNrc[d], docs[d] # 0, docs'[d] = docs[d]
  PROVE  parties'[docs'[d]].key = Nrc(Of[d])
<1> DEFINE x == docs[d]
<1>1. OwnerInv /\ OwnerInv' /\ KeyInv /\ NrcFiled
  BY OwnerStep DEF FiledInv, KeyInv
<1>2. x \in Live /\ x \in Live' /\ Owned(parties[x], Of[d])
  BY <1>1 DEF OwnerInv, PurchasesKeepOwner
<1>3. parties[x].nit[2] = Of[d] /\ parties[x].key = Nrc(Of[d])
  BY <1>1, <1>2, Columns DEF Owned, Live, NrcFiled
<1>4. KeyChange
  BY <1>1, KeyStep
<1> QED BY <1>2, <1>3, <1>4 DEF KeyChange, Live

LEMMA NrcFiledStep ==
  ASSUME FiledInv, [Next]_vars
  PROVE  NrcFiled'
<1> SUFFICES ASSUME NEW d \in Doc, HasNrc[d], docs'[d] # 0, docs'[d] # docs[d]
             PROVE  parties'[docs'[d]].key = Nrc(Of[d])
  <2>1. NrcFiled' <=> \A d \in Doc : HasNrc[d] /\ docs'[d] # 0 => parties'[docs'[d]].key = Nrc(Of[d])
    BY DEF NrcFiled
  <2> QED BY <2>1, FiledStays
<1>1. TypeOK /\ OwnerInv /\ KeyInv
  BY DEF FiledInv, KeyInv, OwnerInv
<1>2. KeyOf(d) = Nrc(Of[d])
  BY DEF KeyOf
<1>3. ASSUME NEW j \in Job, NEW x \in Party, CreateParty(j, x)
      PROVE  parties'[docs'[d]].key = Nrc(Of[d])
  <2>1. /\ parties' = [parties EXCEPT ![x] = Created(job[j].doc)]
        /\ docs' = [docs EXCEPT ![job[j].doc] = x]
    BY <1>3 DEF CreateParty
  <2>2. job[j].doc = d /\ docs'[d] = x /\ parties'[x] = Created(d)
    BY <1>1, <2>1 DEF TypeOK
  <2> QED BY <2>2, <1>2 DEF Created
<1>4. ASSUME NEW j \in Job, UpdateParty(j)
      PROVE  parties'[docs'[d]].key = Nrc(Of[d])
  <2> DEFINE x == job[j].found
  <2>1. /\ parties' = [parties EXCEPT ![x] = Completed(parties[x], job[j], job[j].doc)]
        /\ docs' = [docs EXCEPT ![job[j].doc] = x]
        /\ x \in Live /\ job[j].pc = "write"
    BY <1>4 DEF UpdateParty
  <2>2. job[j].doc = d /\ docs'[d] = x /\ parties'[x] = Completed(parties[x], job[j], d)
    BY <1>1, <2>1 DEF TypeOK, Live
  <2>3. job[j].key = Nrc(Of[d]) => parties[x].key = Nrc(Of[d])
    BY <2>1, <2>2 DEF FiledInv, ReadStands
  <2> QED BY <2>2, <2>3, <1>2 DEF Completed, UpdatedKey
<1>5. CASE ApplyGroup
  <2> DEFINE plan == merge.plan
             c == plan.canonical
  <2>1. /\ docs' = [e \in Doc |-> IF e \in merge.moved THEN c ELSE docs[e]]
        /\ c \in Live /\ merge.pc = "apply"
    BY <1>5 DEF ApplyGroup
  <2>2. d \in merge.moved /\ docs'[d] = c /\ docs[d] \in plan.absorbed
    BY <1>1, <2>1 DEF OwnerInv, MergeHolds
  <2>3. plan \in Plan /\ PlanHolds(plan) /\ Joins(plan)
    BY <1>1, <2>1, HeldMerge DEF OwnerInv, MergeHolds, FiledInv, PlansJoin
  <2>4. PICK p \in Contributor : PlanOf(plan, p)
    BY <2>3 DEF PlanHolds
  <2>5. parties[c].key = Nrc(p)
    BY <2>1, <2>3, <2>4 DEF Joins, PlanOf, Known
  <2>6. docs[d] \in Live /\ Owned(parties[docs[d]], Of[d])
    <3>1. docs[d] # 0
      BY <2>2, <2>3 DEF Plan, Party
    <3> QED BY <3>1, <1>1 DEF OwnerInv, PurchasesKeepOwner
  <2>7. Of[d] = p
    BY <2>2, <2>4, <2>6, Columns DEF Owned, Live, PlanOf, Known
  <2>8. c \in Party /\ parties'[c] \in Row
    <3>1. OwnerInv' /\ docs'[d] \in Live'
      BY <1>1, OwnerStep DEF OwnerInv, PurchasesKeepOwner
    <3> QED BY <2>2, <3>1 DEF Live
  <2>9. parties'[c].key = parties[c].key
    BY <1>1, <1>5, <2>8, AppliedRow
  <2> QED BY <2>2, <2>5, <2>7, <2>9
<1> QED BY <1>3, <1>4, <1>5
     DEF Next, vars, FindParty, IngestFails, Attach, ListGroups, Reassign, EndMerge, Migrate

LEMMA ReadStandsStep ==
  ASSUME FiledInv, [Next]_vars, NEW i \in Job
  PROVE  ReadStands(i)'
<1>1. TypeOK /\ OwnerInv /\ KeyInv /\ ReadStands(i) /\ JobHolds(i)
  BY DEF FiledInv, KeyInv, OwnerInv
<1>2. Kept /\ KeyChange
  BY <1>1, RowSource, KeyStep
<1>3. CASE job'[i] = job[i]
  <2> SUFFICES ASSUME job[i].pc = "write", job[i].found \in Live',
                      job[i].key = Nrc(Of[job[i].doc])
               PROVE  parties'[job[i].found].key = Nrc(Of[job[i].doc])
    BY <1>3 DEF ReadStands
  <2> DEFINE x == job[i].found
  <2>1. x \in Party /\ x # 0 /\ parties'[x] \in Row
    BY DEF Live, Party
  <2>2. parties[x] # NoRow /\ (x \in Live => parties[x].nit[2] = Of[job[i].doc])
    BY <1>1, <2>1 DEF JobHolds, Known
  <2>3. x \in Live
    BY <1>2, <2>1, <2>2 DEF Kept, Live
  <2>4. parties[x].key = Nrc(Of[job[i].doc])
    BY <1>1, <2>3 DEF ReadStands
  <2> QED BY <1>2, <2>1, <2>2, <2>3, <2>4 DEF KeyChange
<1>4. CASE job'[i] = IdleJob
  BY <1>4 DEF ReadStands, IdleJob
<1>5. ASSUME NEW j \in Job, NEW d \in Doc, FindParty(j, d)
      PROVE  ReadStands(i)'
  <2>1. CASE i # j
    BY <1>1, <1>3, <1>5, <2>1 DEF FindParty, TypeOK
  <2>2. CASE i = j /\ Candidates(d) = {}
    <3>1. job'[i].found = 0
      BY <1>1, <1>5, <2>2 DEF FindParty, TypeOK
    <3> QED BY <3>1 DEF ReadStands, Live, Party
  <2>3. CASE i = j /\ Candidates(d) # {}
    <3> DEFINE x == Oldest(Candidates(d))
    <3>1. job' = [job EXCEPT ![j] = [pc |-> "write", doc |-> d, found |-> x, dui |-> parties[x].dui,
                                     nrc |-> parties[x].nrc, key |-> parties[x].key]]
      BY <1>5, <2>3 DEF FindParty
    <3> HIDE DEF x
    <3>2. job'[i].found = x /\ job'[i].key = parties[x].key
      BY <1>1, <2>3, <3>1 DEF TypeOK
    <3>3. parties' = parties
      BY <1>5 DEF FindParty
    <3> QED BY <3>2, <3>3 DEF ReadStands
  <2> QED BY <2>1, <2>2, <2>3
<1>6. ASSUME NEW j \in Job, job' = [job EXCEPT ![j] = IdleJob]
      PROVE  job'[i] = job[i] \/ job'[i] = IdleJob
  BY <1>1, <1>6 DEF TypeOK
<1>7. CASE UNCHANGED job
  BY <1>3, <1>7
<1> QED BY <1>3, <1>4, <1>5, <1>6, <1>7
     DEF Next, vars, CreateParty, UpdateParty, IngestFails, Attach, ListGroups, Reassign,
         ApplyGroup, EndMerge, Migrate

(* Two rows with one key that is not of an NRC would have one identifier.   *)
LEMMA GroupJoins ==
  ASSUME FiledInv, NEW G \in Groups, Cardinality(G) > 1
  PROVE  Joins(PlanGroup(G))
<1>1. PICK k \in Identifier : G = {x \in Live : parties[x].key = k}
  BY DEF Groups
<1>2. RowsKeyed /\ NitsDiffer
  BY DEF FiledInv
<1>3. ASSUME NEW x \in G, parties[x].key # Nrc(parties[x].nit[2])
      PROVE  FALSE
  <2>1. x \in Live /\ parties[x].nit = k
    BY <1>1, <1>2, <1>3 DEF RowsKeyed, OwnKey
  <2>2. ASSUME NEW y \in G PROVE parties[y].nit = k
    <3>1. y \in Live /\ parties[y].key = k /\ parties[y].key \in {parties[y].nit, Nrc(parties[y].nit[2])}
      BY <1>1, <1>2 DEF RowsKeyed, OwnKey
    <3>2. k # Nrc(parties[y].nit[2])
      <4>1. k \in {"nit", "dui"} \X Contributor
        BY <2>1, Columns DEF Live
      <4> QED BY <4>1 DEF Nrc
    <3> QED BY <3>1, <3>2
  <2>3. G = {x}
    BY <1>1, <1>2, <2>1, <2>2 DEF NitsDiffer
  <2> QED BY <2>3, FS_Singleton
<1>4. PlanGroup(G) \in Plan /\ PlanHolds(PlanGroup(G))
  BY GroupPlan DEF FiledInv, KeyInv
<1>5. Heaviest(G) \in G
  <2>1. G \subseteq Party
    BY <1>1 DEF Live
  <2>2. G # {}
    BY FS_EmptySet
  <2> QED BY <2>1, <2>2, HeaviestOf
<1>6. PlanGroup(G).absorbed \cup {PlanGroup(G).canonical} \subseteq G
  BY <1>5 DEF PlanGroup
<1> QED BY <1>3, <1>6 DEF Joins

LEMMA JoinsStays ==
  ASSUME FiledInv, [Next]_vars, NEW plan \in Plan, PlanHolds(plan), Joins(plan)
  PROVE  Joins(plan)'
<1>1. Kept /\ KeyChange
  BY RowSource, KeyStep DEF FiledInv, KeyInv
<1> SUFFICES ASSUME NEW x \in plan.absorbed \cup {plan.canonical}, x \in Live'
             PROVE  parties'[x].key = Nrc(parties'[x].nit[2])
  BY DEF Joins
<1>2. parties[x] # NoRow
  BY DEF PlanHolds, PlanOf, Known
<1>3. x \in Live /\ parties'[x].nit = parties[x].nit /\ parties'[x] \in Row
  BY <1>1, <1>2 DEF Kept, Live
<1> QED BY <1>1, <1>3 DEF Joins, KeyChange

LEMMA PlansJoinStep ==
  ASSUME FiledInv, [Next]_vars
  PROVE  PlansJoin'
<1>1. TypeOK /\ MergeHolds /\ PlansJoin
  BY DEF FiledInv, KeyInv, OwnerInv
<1>2. ASSUME NEW plan, \/ plan \in merge.plans
                       \/ merge.pc = "apply" /\ plan = merge.plan
      PROVE  /\ Joins(plan)'
             /\ \A x \in plan.absorbed \cup {plan.canonical} :
                  x \in Live' => parties'[x].key = Nrc(parties'[x].nit[2])
  <2>1. plan \in Plan /\ PlanHolds(plan) /\ Joins(plan)
    BY <1>1, <1>2, HeldMerge DEF MergeHolds, PlansJoin
  <2> QED BY <2>1, JoinsStays DEF Joins
<1>3. CASE merge' = NoMerge
  BY <1>3 DEF PlansJoin, NoMerge
<1>4. CASE ListGroups
  <2>1. /\ merge' = [pc |-> "plans",
                     plans |-> {PlanGroup(G) : G \in {H \in Groups : Cardinality(H) > 1}}]
        /\ parties' = parties
    BY <1>4 DEF ListGroups
  <2>2. \A plan \in merge'.plans : Joins(plan)
    BY <2>1, GroupJoins
  <2> QED BY <2>1, <2>2 DEF PlansJoin, Joins, Live
<1>5. CASE /\ merge'.plans \subseteq merge.plans
           /\ merge'.pc = "apply" => \/ merge'.plan \in merge.plans
                                     \/ merge.pc = "apply" /\ merge'.plan = merge.plan
  BY <1>2, <1>5 DEF PlansJoin, Joins
<1>6. ASSUME NEW plan \in merge.plans, Reassign(plan)
      PROVE  merge'.plans \subseteq merge.plans /\ merge'.plan \in merge.plans
  BY <1>6 DEF Reassign
<1>7. CASE ApplyGroup
  BY <1>5, <1>7 DEF ApplyGroup
<1> QED BY <1>3, <1>4, <1>5, <1>6, <1>7
     DEF Next, vars, FindParty, CreateParty, UpdateParty, IngestFails, Attach, EndMerge, Migrate

LEMMA FiledInit ==
  ASSUME LegacySound, LegacyKeyed, Init
  PROVE  FiledInv
<1>1. OwnerInv
  BY OwnerInit
<1>2. PICK l \in Legacies : parties = l.parties /\ docs = l.docs
  BY DEF Init
<1>3. \A j \in Job : job[j].pc # "write"
  BY DEF Init, IdleJob
<1>4. RowsKeyed /\ NitsDiffer /\ NrcFiled
  BY <1>2 DEF RowsKeyed, NitsDiffer, NrcFiled, LegacyKeyed, Live
<1>5. \A x \in Live : parties[x].key # Null
  <2> TAKE x \in Live
  <2>1. parties[x] \in Row /\ OwnKey(parties[x])
    BY <1>4 DEF RowsKeyed, Live
  <2> QED BY <2>1, Columns, NrcIsKey DEF OwnKey
<1>6. PlansJoin
  BY DEF Init, PlansJoin, NoMerge
<1> QED BY <1>1, <1>3, <1>4, <1>5, <1>6 DEF FiledInv, KeyInv, ReadStands

(* An annex that is not refused holds every purchase of the contributor     *)
(* that came with its NRC: while a sibling has one of them, it is refused,  *)
(* and no purchase with an NRC hangs from a party without the key of it.    *)
THEOREM ExportsAreWhole == ASSUME LegacySound, LegacyKeyed PROVE Spec => []ExportIsWhole
<1>1. Init => FiledInv
  BY FiledInit
<1>2. FiledInv /\ [Next]_vars => FiledInv'
  <2> SUFFICES ASSUME FiledInv, [Next]_vars PROVE FiledInv'
    OBVIOUS
  <2>1. KeyInv'
    BY KeyStep DEF FiledInv
  <2> QED BY <2>1, RowsKeyedStep, NrcFiledStep, ReadStandsStep, PlansJoinStep DEF FiledInv
<1>3. FiledInv => ExportIsWhole
  <2> SUFFICES ASSUME FiledInv, NEW x \in Live, NEW d \in Doc, HasNrc[d], docs[d] # 0,
                      parties[x].key = Nrc(Of[d]), ~ExportRefused(x)
               PROVE  docs[d] = x
    BY DEF ExportIsWhole
  <2>1. docs[d] \in Live /\ parties[docs[d]].key = Nrc(Of[d])
    BY DEF FiledInv, KeyInv, OwnerInv, PurchasesKeepOwner, NrcFiled
  <2>2. parties[x].key # Null
    BY DEF FiledInv, KeyInv
  <2> QED BY <2>1, <2>2 DEF ExportRefused, Siblings
<1> QED BY <1>1, <1>2, <1>3, PTL DEF Spec
---------------------------------------------------------------------------
(* The split.  A contributor is whole in its party x.                       *)
WholeIn(p, x) == /\ x \in Live /\ parties[x].nit = Nit(p) /\ parties[x].dui = Dui(p)
                 /\ \A y \in Live : parties[y].nit[2] = p => y = x

LEMMA WholeInOne ==
  ASSUME NEW p \in Contributor
  PROVE  /\ Whole(p) <=> \E x \in Party : WholeIn(p, x)
         /\ Whole(p)' <=> \E x \in Party : WholeIn(p, x)'
<1>1. ASSUME NEW rows, NEW x \in Party, rows[x] \in Row
      PROVE  {Nit(p), Dui(p)} \subseteq {rows[x].nit, rows[x].dui}
               <=> rows[x].nit = Nit(p) /\ rows[x].dui = Dui(p)
  <2>1. rows[x].dui # Nit(p)
    <3>1. rows[x].dui \in ({"dui"} \X Contributor) \cup {Null} /\ Nit(p) \in Identifier
      BY <1>1, Columns DEF Nit, Identifier
    <3> QED BY <3>1, Mentions DEF Nit
  <2>2. Nit(p) # Dui(p)
    BY DEF Nit, Dui
  <2> QED BY <2>1, <2>2
<1>2. Nit(p)[2] = p
  BY DEF Nit
<1> QED BY <1>1, <1>2 DEF Whole, WholeIn, PartiesOf, Live

(* While it is whole no document of it goes without a party.                *)
LEMMA FoundWhenWhole ==
  ASSUME NEW d \in Doc, NEW x \in Party, WholeIn(Of[d], x)
  PROVE  Candidates(d) # {}
<1>1. x \in ByIdentifier(d)
  <2>1. IdKind[d] \in {"nit", "dui"} /\ Of[d] \in Contributor
    BY Mentions
  <2>2. Dui(Of[d]) # Null
    BY <2>1, Mentions DEF Dui, Identifier
  <2> QED BY <2>1, <2>2 DEF WholeIn, ByIdentifier, IdOf, DuiOf, Nit, Dui
<1> QED BY <1>1 DEF Candidates

(* Its party stays, with both identifiers.                                  *)
LEMMA WholeRowStays ==
  ASSUME OwnerInv, [Next]_vars, NEW p \in Contributor, NEW x \in Party, WholeIn(p, x)
  PROVE  x \in Live' /\ parties'[x].nit = Nit(p) /\ parties'[x].dui = Dui(p)
<1>1. /\ TypeOK /\ x \in Live /\ parties[x] \in Row
      /\ parties[x].nit = Nit(p) /\ parties[x].dui = Dui(p) /\ parties[x].nit[2] = p
  BY DEF OwnerInv, WholeIn, Live, Nit
<1>2. CASE parties'[x] = parties[x]
  BY <1>1, <1>2 DEF Live
<1>3. ASSUME NEW j \in Job, NEW y \in Party, CreateParty(j, y)
      PROVE  parties'[x] = parties[x]
  BY <1>1, <1>3, Kinds DEF CreateParty, Fresh, TypeOK
<1>4. ASSUME NEW j \in Job, UpdateParty(j), parties'[x] # parties[x]
      PROVE  x \in Live' /\ parties'[x].nit = Nit(p) /\ parties'[x].dui = Dui(p)
  <2> DEFINE d == job[j].doc
             row == Completed(parties[x], job[j], d)
  <2>1. /\ parties' = [parties EXCEPT ![job[j].found] =
                         Completed(parties[job[j].found], job[j], job[j].doc)]
        /\ job[j].pc = "write" /\ job[j].found \in Live
    BY <1>4 DEF UpdateParty
  <2>2. job[j].found = x /\ parties'[x] = row
    BY <1>1, <1>4, <2>1 DEF TypeOK, Live
  <2>3. d \in Doc /\ x # 0 /\ JobHolds(j)
    BY <1>1, <2>1, HeldJob DEF OwnerInv, Party
  <2>4. Of[d] = p
    BY <1>1, <2>1, <2>2, <2>3 DEF JobHolds, Known
  <2>5. row \in Row /\ row.nit = Nit(p)
    BY <1>1, <2>3, CompletedRow
  <2>6. row.dui = Dui(p)
    BY <1>1, <2>4 DEF Completed, DuiOf
  <2> QED BY <2>2, <2>5, <2>6 DEF Live
<1>5. CASE ApplyGroup
  <2>1. CASE merge.plan.canonical \in Live /\ Deletable(merge.plan)
    <3> DEFINE plan == merge.plan
               c == plan.canonical
    <3>1. plan \in Plan /\ PlanHolds(plan)
      BY <1>1, <1>5, HeldMerge DEF ApplyGroup, OwnerInv, MergeHolds
    <3>2. PICK o \in Contributor : PlanOf(plan, o)
      BY <3>1 DEF PlanHolds
    <3>3. x \notin plan.absorbed
      BY <1>1, <2>1, <3>2 DEF PlanOf, Known, WholeIn
    <3>4. parties'[x] # Gone /\ parties'[x] # NoRow /\ parties'[x] \in Row \cup {NoRow, Gone}
      <4>1. OwnerInv'
        BY OwnerStep
      <4>2. parties'[x] = Gone => x \in plan.absorbed
        <5>1. parties' = [y \in Party |->
                  CASE y \in plan.absorbed -> Gone
                    [] y = c -> [parties[y] EXCEPT !.dui = IF plan.dui # Null THEN plan.dui ELSE @,
                                                   !.nrc = IF plan.nrc # Null THEN plan.nrc ELSE @]
                    [] OTHER -> parties[y]]
          BY <1>5, <2>1 DEF ApplyGroup
        <5>2. CASE x = c /\ x \notin plan.absorbed
          <6>1. parties'[x] = [parties[x] EXCEPT !.dui = IF plan.dui # Null THEN plan.dui ELSE @,
                                                 !.nrc = IF plan.nrc # Null THEN plan.nrc ELSE @]
            BY <5>1, <5>2
          <6>2. "nit" \in DOMAIN parties'[x]
            BY <1>1, <6>1 DEF Row
          <6> QED BY <6>2 DEF Gone
        <5>3. CASE x # c /\ x \notin plan.absorbed
          BY <1>1, <5>1, <5>3, Kinds
        <5> QED BY <5>2, <5>3
      <4>3. parties'[x] # NoRow
        BY <1>1, <1>5, AppliedRow, Kinds
      <4> QED BY <3>3, <4>1, <4>2, <4>3 DEF OwnerInv, TypeOK
    <3>5. plan.dui # Null /\ x = c => plan.dui = Dui(p)
      BY <1>1, <2>1, <3>2 DEF PlanOf, Known
    <3> QED BY <1>1, <1>5, <3>4, <3>5, AppliedRow DEF Live
  <2>2. CASE ~(merge.plan.canonical \in Live /\ Deletable(merge.plan))
    BY <1>2, <1>5, <2>2 DEF ApplyGroup
  <2> QED BY <2>1, <2>2
<1>6. CASE UNCHANGED parties
  BY <1>2, <1>6
<1> QED BY <1>2, <1>3, <1>4, <1>5, <1>6
     DEF Next, vars, FindParty, IngestFails, Attach, ListGroups, Reassign, EndMerge, Migrate

LEMMA WholeStep ==
  ASSUME OwnerInv, [Next]_vars, NEW p \in Contributor, Whole(p), ~AboutToCreate(p)
  PROVE  Whole(p)' /\ ~AboutToCreate(p)'
<1>1. PICK x \in Party : WholeIn(p, x)
  BY WholeInOne
<1>2. TypeOK
  BY DEF OwnerInv
<1>3. x \in Live' /\ parties'[x].nit = Nit(p) /\ parties'[x].dui = Dui(p)
  BY <1>1, WholeRowStays
<1>4. ASSUME NEW y \in Live', parties'[y].nit[2] = p
      PROVE  y = x
  <2>1. y \in Party /\ parties'[y] \in Row
    BY DEF Live
  <2>2. CASE y \in Live
    <3>1. parties'[y].nit = parties[y].nit
      BY <2>1, <2>2, RowSource, Kinds DEF Kept, Live
    <3> QED BY <1>1, <1>4, <2>2, <3>1 DEF WholeIn
  <2>3. ASSUME NEW j \in Job, CreateParty(j, y) PROVE FALSE
    <3>1. /\ job[j].pc = "write" /\ job[j].found = 0
          /\ parties' = [parties EXCEPT ![y] = Created(job[j].doc)]
      BY <2>3 DEF CreateParty
    <3>2. job[j].doc \in Doc /\ parties'[y] = Created(job[j].doc)
      BY <1>2, <2>1, <3>1, HeldJob DEF TypeOK
    <3>3. Of[job[j].doc] = p
      BY <1>4, <3>2, CreatedRow
    <3> QED BY <3>1, <3>3 DEF AboutToCreate
  <2> QED BY <2>2, <2>3, RowSource
<1>5. Whole(p)'
  BY <1>3, <1>4, WholeInOne DEF WholeIn
<1>6. ASSUME NEW j \in Job, job'[j].pc = "write", job'[j].found = 0, Of[job'[j].doc] = p
      PROVE  FALSE
  <2>1. job'[j] # job[j] /\ job'[j] # IdleJob
    BY <1>6 DEF AboutToCreate, IdleJob
  <2>2. ASSUME NEW i \in Job, NEW d \in Doc, FindParty(i, d) PROVE FALSE
    <3>1. i = j
      BY <1>2, <2>1, <2>2 DEF FindParty, TypeOK
    <3>2. CASE Candidates(d) = {}
      <4>1. job'[j].doc = d
        BY <1>2, <2>2, <3>1, <3>2 DEF FindParty, TypeOK
      <4> QED BY <1>1, <1>6, <3>2, <4>1, FoundWhenWhole
    <3>3. CASE Candidates(d) # {}
      <4> DEFINE f == Oldest(Candidates(d))
      <4>1. f \in Party
        <5>1. Candidates(d) \subseteq Party
          BY DEF Candidates, ByKey, ByIdentifier, Live
        <5> QED BY <3>3, <5>1, OldestOf
      <4> HIDE DEF f
      <4>2. job' = [job EXCEPT ![j] = [pc |-> "write", doc |-> d, found |-> f, dui |-> parties[f].dui,
                                       nrc |-> parties[f].nrc, key |-> parties[f].key]]
        BY <2>2, <3>1, <3>3 DEF FindParty, f
      <4>3. job'[j].found = f
        BY <1>2, <4>2 DEF TypeOK
      <4> QED BY <1>6, <4>1, <4>3 DEF Party
    <3> QED BY <3>2, <3>3
  <2>3. ASSUME NEW i \in Job, job' = [job EXCEPT ![i] = IdleJob] PROVE FALSE
    BY <1>2, <2>1, <2>3 DEF TypeOK
  <2>4. CASE UNCHANGED job
    BY <2>1, <2>4
  <2> QED BY <2>2, <2>3, <2>4
       DEF Next, vars, CreateParty, UpdateParty, IngestFails, Attach, ListGroups, Reassign,
           ApplyGroup, EndMerge, Migrate
<1>7. ~AboutToCreate(p)'
  BY <1>6 DEF AboutToCreate
<1> QED BY <1>5, <1>7

(* A contributor whose only party carries both of its identifiers is not    *)
(* split again by any document, ingestion or merge, unless an ingestion had *)
(* already found no party for it.                                           *)
THEOREM WholeStays == ASSUME LegacySound PROVE Spec => StaysWhole
<1>1. OwnerInv /\ [Next]_vars
      => [\A p \in Contributor : Whole(p) /\ ~AboutToCreate(p) => Whole(p)' /\ ~AboutToCreate(p)']_vars
  BY WholeStep
<1> QED BY <1>1, OwnerInvariant, PTL DEF Spec, StaysWhole
=============================================================================
