---------------------------- MODULE Contributors ----------------------------
(* Who a purchase belongs to.  The ingestion of a document looks for the    *)
(* party that is its contributor and creates or completes it (upsertParty,  *)
(* findParty and canonicalKeyUpdate of dte-ingest.service.ts); an operator  *)
(* joins the parties that older versions had split (merge-dte-parties.ts)   *)
(* and puts the unique key in place; the annex of a contributor is refused  *)
(* while purchases of its siblings are left out.                            *)
(*                                                                          *)
(* A document mentions a contributor by one identifier, the 14 digit NIT or *)
(* the 9 digit DUI, with or without its NRC.  A transaction of the          *)
(* ingestion is a read and a write: what it has read may be old when it     *)
(* writes.  Of the two parties of a document the model follows one.         *)
EXTENDS Naturals, FiniteSets

CONSTANTS Contributor,   \* the persons behind the documents
          Doc,           \* documents; each mentions a contributor
          Of, IdKind, HasNrc,
          MaxParty,      \* rows of dte_parties ever created (bound)
          Job,           \* ingestions under way at the same time
          Null,          \* an empty column
          Legacies       \* the rows and purchases older versions may have left

Party == 1 .. MaxParty
Nit(p) == <<"nit", p>>
Dui(p) == <<"dui", p>>
Nrc(p) == <<"nrc", p>>
Identifier == {"nit", "dui", "nrc"} \X Contributor
Maybe == Identifier \cup {Null}

Row == [nit : {"nit", "dui"} \X Contributor,
        dui : {"dui"} \X Contributor \cup {Null},
        nrc : {"nrc"} \X Contributor \cup {Null},
        key : Maybe]
NoRow == [gone |-> FALSE]
Gone == [gone |-> TRUE]

ASSUME Mentions == /\ Of \in [Doc -> Contributor]
                   /\ IdKind \in [Doc -> {"nit", "dui"}]
                   /\ HasNrc \in [Doc -> BOOLEAN]
                   /\ Null \notin Identifier /\ MaxParty \in Nat
                   /\ IsFiniteSet(Doc)
ASSUME Legacy == Legacies \subseteq [parties : [Party -> Row \cup {NoRow}],
                                      docs : [Doc -> Party \cup {0}]]

VARIABLES parties,   \* dte_parties; the order of the ids is that of createdAt
          docs,      \* the party of each purchase, 0 before it is ingested
          unique,    \* the migration of the unique canonical key has run
          attached,  \* parties that a catalogue of activities hangs from
          job,       \* what each ingestion has read
          merge      \* the run of the merge script

vars == <<parties, docs, unique, attached, job, merge>>

Live == {x \in Party : parties[x] \in Row}
Fresh == {x \in Party : parties[x] = NoRow /\ \A y \in 1 .. (x - 1) : parties[y] # NoRow}
IdleJob == [pc |-> "idle"]
NoMerge == [pc |-> "idle", plans |-> {}]

Reading == [pc : {"write"}, doc : Doc, found : Party \cup {0},
            dui : Maybe, nrc : Maybe, key : Maybe]
Plan == [canonical : Party, absorbed : SUBSET Party, dui : Maybe, nrc : Maybe]
Merging == [pc : {"plans"}, plans : SUBSET Plan]
           \cup [pc : {"apply"}, plans : SUBSET Plan, plan : Plan, moved : SUBSET Doc]

Init == /\ \E legacy \in Legacies : parties = legacy.parties /\ docs = legacy.docs
        /\ unique = FALSE
        /\ attached = {}
        /\ job = [j \in Job |-> IdleJob]
        /\ merge = NoMerge
---------------------------------------------------------------------------
(* The identity a document gives.                                          *)

IdOf(d) == <<IdKind[d], Of[d]>>
NrcOf(d) == IF HasNrc[d] THEN Nrc(Of[d]) ELSE Null
DuiOf(d) == IF IdKind[d] = "dui" THEN Dui(Of[d]) ELSE Null
(* resolveCanonicalKeyWithSource: the NRC, or the identifier.              *)
KeyOf(d) == IF HasNrc[d] THEN Nrc(Of[d]) ELSE IdOf(d)

ByNit(d) == {x \in Live : parties[x].nit = IdOf(d)}
(* findParty: by key, then by any identifier; the oldest of several.       *)
ByIdentifier(d) == {x \in Live : \/ parties[x].nit = IdOf(d)
                                 \/ DuiOf(d) # Null /\ parties[x].dui = DuiOf(d)}
ByKey(d) == {x \in Live : parties[x].key = KeyOf(d)}
Candidates(d) == IF ByKey(d) # {} THEN ByKey(d) ELSE ByIdentifier(d)
Oldest(S) == CHOOSE x \in S : \A y \in S : x <= y

(* canonicalKeyUpdate: only a key that comes from an NRC replaces one.     *)
LatestKey(key, d) == KeyOf(d)
UpdatedKey(key, d) == IF key = Null \/ HasNrc[d] THEN KeyOf(d) ELSE key

Created(d) == [nit |-> IdOf(d), dui |-> DuiOf(d), nrc |-> NrcOf(d), key |-> KeyOf(d)]
(* The columns an update does not name stay as they are in the row, those  *)
(* it names are computed from the row as it was read.                      *)
Completed(row, read, d) ==
  [nit |-> row.nit,
   dui |-> IF read.dui = Null /\ DuiOf(d) # Null THEN DuiOf(d) ELSE row.dui,
   nrc |-> IF read.nrc = Null /\ HasNrc[d] THEN NrcOf(d) ELSE row.nrc,
   key |-> IF UpdatedKey(read.key, d) # read.key THEN KeyOf(d) ELSE row.key]

(* What the unique indexes let in: P2002 otherwise.                        *)
Collides(x, row) == \E y \in Live \ {x} : \/ parties[y].nit = row.nit
                                          \/ unique /\ row.key # Null /\ parties[y].key = row.key
---------------------------------------------------------------------------
(* Ingestion, of a new document or once more of one that is in the book.   *)

FindParty(j, d) ==
  /\ job[j] = IdleJob
  /\ LET found == Candidates(d)
     IN job' = [job EXCEPT ![j] =
          IF found = {}
          THEN [pc |-> "write", doc |-> d, found |-> 0, dui |-> Null, nrc |-> Null, key |-> Null]
          ELSE LET x == Oldest(found)
               IN [pc |-> "write", doc |-> d, found |-> x, dui |-> parties[x].dui,
                   nrc |-> parties[x].nrc, key |-> parties[x].key]]
  /\ UNCHANGED <<parties, docs, unique, attached, merge>>

(* A document the merge has moved and not committed yet is waited for.     *)
Locked(d) == merge.pc = "apply" /\ d \in merge.moved

CreateParty(j, x) ==
  LET d == job[j].doc
  IN /\ job[j].pc = "write" /\ job[j].found = 0 /\ ~Locked(d)
     /\ x \in Fresh /\ ~Collides(x, Created(d))
     /\ parties' = [parties EXCEPT ![x] = Created(d)]
     /\ docs' = [docs EXCEPT ![d] = x]
     /\ job' = [job EXCEPT ![j] = IdleJob]
     /\ UNCHANGED <<unique, attached, merge>>

UpdateParty(j) ==
  LET d == job[j].doc
      x == job[j].found
      row == Completed(parties[x], job[j], d)
  IN /\ job[j].pc = "write" /\ x \in Live /\ ~Locked(d)
     /\ ~Collides(x, row)
     /\ parties' = [parties EXCEPT ![x] = row]
     /\ docs' = [docs EXCEPT ![d] = x]
     /\ job' = [job EXCEPT ![j] = IdleJob]
     /\ UNCHANGED <<unique, attached, merge>>

(* A unique index or a row that is not there any more fails the attempt,   *)
(* and the queue tries the document again from the start.                  *)
IngestFails(j) ==
  LET d == job[j].doc
      x == job[j].found
  IN /\ job[j].pc = "write" /\ ~Locked(d)
     /\ IF x = 0 THEN Collides(0, Created(d))
        ELSE x \in Live => Collides(x, Completed(parties[x], job[j], d))
     /\ job' = [job EXCEPT ![j] = IdleJob]
     /\ UNCHANGED <<parties, docs, unique, attached, merge>>

(* The accountant opens a catalogue of activities for a party.             *)
Attach(x) ==
  /\ x \in Live \ attached
  /\ attached' = attached \cup {x}
  /\ UNCHANGED <<parties, docs, unique, job, merge>>
---------------------------------------------------------------------------
(* The merge script.                                                       *)

Documents(x) == Cardinality({d \in Doc : docs[d] = x})
Heavier(x, y) == \/ Documents(x) > Documents(y)
                 \/ Documents(x) = Documents(y) /\ x <= y
Heaviest(S) == CHOOSE x \in S : \A y \in S : Heavier(x, y)
DuiOfParty(x) == IF parties[x].dui # Null THEN parties[x].dui
                 ELSE IF parties[x].nit[1] = "dui" THEN parties[x].nit ELSE Null
FirstOf(S, value) == LET having == {x \in S : value[x] # Null}
                     IN IF having = {} THEN Null ELSE value[Heaviest(having)]

Groups == {{x \in Live : parties[x].key = k} : k \in Identifier}
PlanGroup(G) ==
  LET canonical == Heaviest(G)
  IN [canonical |-> canonical, absorbed |-> G \ {canonical},
      dui |-> IF parties[canonical].dui = Null THEN FirstOf(G \ {canonical}, [x \in G |-> DuiOfParty(x)]) ELSE Null,
      nrc |-> IF parties[canonical].nrc = Null THEN FirstOf(G \ {canonical}, [x \in G |-> parties[x].nrc]) ELSE Null]

(* Every group is listed and planned before the first is applied.          *)
ListGroups ==
  /\ merge = NoMerge
  /\ merge' = [pc |-> "plans", plans |-> {PlanGroup(G) : G \in {H \in Groups : Cardinality(H) > 1}}]
  /\ UNCHANGED <<parties, docs, unique, attached, job>>

Reassign(plan) ==
  /\ merge.pc = "plans" /\ plan \in merge.plans
  /\ merge' = [pc |-> "apply", plans |-> merge.plans \ {plan}, plan |-> plan,
               moved |-> {d \in Doc : docs[d] \in plan.absorbed}]
  /\ UNCHANGED <<parties, docs, unique, attached, job>>

(* Foreign keys: a document that came to an absorbed party after the       *)
(* reassignment, or a catalogue that hangs from it, keeps the row.         *)
Unhindered(plan) == TRUE
Deletable(plan) == /\ plan.absorbed \cap attached = {}
                   /\ \A d \in Doc : docs[d] \in plan.absorbed => d \in merge.moved

ApplyGroup ==
  /\ merge.pc = "apply"
  /\ LET plan == merge.plan
     IN IF plan.canonical \in Live /\ Deletable(plan)
        THEN /\ docs' = [d \in Doc |-> IF d \in merge.moved THEN plan.canonical ELSE docs[d]]
             /\ parties' = [x \in Party |->
                  CASE x \in plan.absorbed -> Gone
                    [] x = plan.canonical ->
                         [parties[x] EXCEPT !.dui = IF plan.dui # Null THEN plan.dui ELSE @,
                                            !.nrc = IF plan.nrc # Null THEN plan.nrc ELSE @]
                    [] OTHER -> parties[x]]
        ELSE UNCHANGED <<docs, parties>>
  /\ merge' = [pc |-> "plans", plans |-> merge.plans]
  /\ UNCHANGED <<unique, attached, job>>

(* The script ends, or is stopped between two groups.                      *)
EndMerge ==
  /\ merge.pc = "plans"
  /\ merge' = NoMerge
  /\ UNCHANGED <<parties, docs, unique, attached, job>>

(* The migration fails while two parties share a key.                      *)
Migrate ==
  /\ ~unique
  /\ \A G \in Groups : Cardinality(G) <= 1
  /\ unique' = TRUE
  /\ UNCHANGED <<parties, docs, attached, job, merge>>

Next == \/ \E j \in Job, d \in Doc : FindParty(j, d)
        \/ \E j \in Job, x \in Party : CreateParty(j, x)
        \/ \E j \in Job : UpdateParty(j)
        \/ \E j \in Job : IngestFails(j)
        \/ \E x \in Party : Attach(x)
        \/ ListGroups
        \/ \E plan \in merge.plans : Reassign(plan)
        \/ ApplyGroup \/ EndMerge \/ Migrate

Spec == Init /\ [][Next]_vars
---------------------------------------------------------------------------
(* The annex of a contributor.                                             *)

Siblings(x) == {y \in Live \ {x} : parties[y].key = parties[x].key}
(* assertNoSplitIdentity: refused while a sibling has purchases.           *)
ExportRefused(x) == /\ parties[x].key # Null
                    /\ \E d \in Doc : docs[d] \in Siblings(x)
---------------------------------------------------------------------------
(* Properties.                                                             *)

TypeOK == /\ parties \in [Party -> Row \cup {NoRow, Gone}]
          /\ docs \in [Doc -> Party \cup {0}]
          /\ unique \in BOOLEAN
          /\ attached \subseteq Party
          /\ job \in [Job -> Reading \cup {IdleJob}]
          /\ merge \in Merging \cup {NoMerge}

Owned(row, p) == \A i \in {row.nit, row.dui, row.nrc, row.key} \ {Null} : i[2] = p

(* Every purchase points at a party that is there and whose identifiers    *)
(* are all of the contributor the purchase mentions: whatever is merged    *)
(* while it is ingested, no purchase is lost with an absorbed party and    *)
(* none lands in the book of somebody else.                                *)
PurchasesKeepOwner ==
  \A d \in Doc : docs[d] # 0 => docs[d] \in Live /\ Owned(parties[docs[d]], Of[d])

(* A party that has the key of its NRC never loses it, whatever document   *)
(* without NRC comes later (dte-ingest.service.ts:489-498), once no row of  *)
(* before the column lacks its key.                                        *)
KeyKeepsNrc ==
  [][\A x \in Live : parties'[x] \in Row
       => \A p \in Contributor : parties[x].key = Nrc(p) => parties'[x].key = Nrc(p)]_vars

(* An annex that is not refused holds every purchase of the contributor    *)
(* that came with its NRC, before, during and after the merge.             *)
ExportIsWhole ==
  \A x \in Live, d \in Doc :
    HasNrc[d] /\ docs[d] # 0 /\ parties[x].key = Nrc(Of[d]) /\ ~ExportRefused(x) => docs[d] = x

(* A contributor whose only party carries both of its identifiers is never *)
(* split again, unless a document was already about to create its party.   *)
PartiesOf(p) == {x \in Live : parties[x].nit[2] = p}
AboutToCreate(p) == \E j \in Job : job[j].pc = "write" /\ job[j].found = 0 /\ Of[job[j].doc] = p
Whole(p) == \E x \in PartiesOf(p) : /\ PartiesOf(p) = {x}
                                    /\ {Nit(p), Dui(p)} \subseteq {parties[x].nit, parties[x].dui}
StaysWhole ==
  [][\A p \in Contributor : Whole(p) /\ ~AboutToCreate(p) => Whole(p)' /\ ~AboutToCreate(p)']_vars

(* dte-ingest.service.ts:518-535 says that the search by identifier keeps   *)
(* a contributor from being split again by a document without NRC: once    *)
(* its only party has got documents with each identifier, it stays alone.  *)
Seen(p, kind) == \E d \in Doc : /\ docs[d] \in PartiesOf(p)
                                /\ Of[d] = p /\ IdKind[d] = kind /\ HasNrc[d]
SplitNeverReturns ==
  [][\A p \in Contributor :
       /\ Cardinality(PartiesOf(p)) = 1 /\ Seen(p, "nit") /\ Seen(p, "dui")
       /\ ~AboutToCreate(p)
       => Cardinality(PartiesOf(p)') = 1 /\ ~AboutToCreate(p)']_vars
=============================================================================
