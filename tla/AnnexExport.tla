---------------------------- MODULE AnnexExport ----------------------------
(* The annex of purchases of a contributor (export-purchase-book.service.ts, *)
(* anexo/): the guards of the export, each a query of its own, the rows read  *)
(* batch by batch behind a cursor, and what changes the book meanwhile: the   *)
(* ingestion of a document, the classification of a purchase, the defaults    *)
(* of a receptor and the merge of two parties.  The book is that of the time *)
(* before the merge of the history: several parties may have one key.        *)
EXTENDS DteReading, FiniteSetsExt

CONSTANTS MaxDoc,      \* purchases; their ids are not in the order of arrival
          File, Content, \* JSON documents and what they say
          Key,         \* canonical keys of the contributors
          KeyOf,       \* party -> its key; parties are in the order of createdAt
          Digits,      \* identifier -> how many digits it has
          Column,      \* the columns Q-T
          Code,        \* codes of the catalogues
          Null,
          Epoch,       \* ANEXO_CLASSIFICATION_EPOCH, as a day
          Period,      \* the ranges of days asked for
          BatchSize, MaxRows,
          Books,       \* the books the instance starts from
          MaxEdits     \* bound on the changes people make

Doc == 1 .. MaxDoc
Party == DOMAIN KeyOf
Block == [Column -> Code \cup {Null}]
NoBlock == [c \in Column |-> Null]
(* A partial PATCH: the columns it names, with a code or with null.          *)
Patch == UNION {[named -> Code \cup {Null}] : named \in (SUBSET Column) \ {{}}}
Patched(block, patch) == [c \in Column |-> IF c \in DOMAIN patch THEN patch[c] ELSE block[c]]
Gone == [gone |-> TRUE]
NoPurchase == [gone |-> FALSE]
NoMerge == [gone |-> FALSE]

(* What a document of the mail reads as, and those the book takes.           *)
Parsed == [file \in File |-> ParseDte(Content[file])]
Readable == {file \in File : Parsed[file].kind = "parsed"}

ASSUME Sizes == /\ MaxDoc \in Nat /\ MaxEdits \in Nat
                /\ BatchSize \in Nat \ {0} /\ MaxRows \in Nat
                /\ KeyOf \in Seq(Key)
ASSUME Starts == /\ Books \subseteq [mail : [Doc -> File], receptors : [Doc -> Party \cup {0}],
                                     defaults : [Party -> Block]]
                 /\ \A book \in Books : \A d \in Doc :
                      book.receptors[d] # 0 => book.mail[d] \in Readable
(* No code is empty, none is Null, and a block is not Gone.                  *)
ASSUME Blanks == "" \notin Code /\ Null \notin Code /\ Gone \notin Block
(* The numbers of a document are thousandths, its lists are sequences, and   *)
(* an identifier written as a number has its digits.                         *)
ASSUME Amounts ==
  \A file \in Readable :
    LET resumen == ReadOwn(Content[file], "resumen")
        taxes == Elements(ReadOwn(resumen, "tributos"))
        nit == ReadOwn(ReadOwn(Content[file], "emisor"), "nit")
    IN /\ \A key \in DOMAIN resumen.v : resumen.v[key].is = "number" => resumen.v[key].v \in Int
       /\ DOMAIN taxes = 1 .. Len(taxes) /\ Len(taxes) \in Nat
       /\ \A i \in DOMAIN taxes : LET valor == ReadOwn(taxes[i], "valor")
                                 IN valor.is = "number" => valor.v \in Int
       /\ nit.is = "number" => nit.v \in DOMAIN Printed

VARIABLES mail,      \* the JSON of each attachment
          docs,      \* purchase_documents
          defaults,  \* the defaults Q-T of each party, or Gone
          merge,     \* a group the merge script has planned
          export,    \* the export under way
          stirred,   \* what has changed since it was asked for
          edits      \* changes people have made
annexVars == <<mail, docs, defaults, merge, export, stirred, edits>>

InBook == {d \in Doc : docs[d] # NoPurchase}
Live == {x \in Party : defaults[x] # Gone}
Filters == {"all", "classified", "unclassified"}
Idle == [pc |-> "idle"]

(* What persist writes; a number of item that comes twice is refused by the  *)
(* unique index of the items.                                                *)
Outcome(d) == Parsed[mail[d]]
Storable(d) == /\ Outcome(d).kind = "parsed"
               /\ LET items == Outcome(d).dte.numItems
                  IN \A i, k \in DOMAIN items : items[i] = items[k] => i = k
Purchase(d, x) == [receptor |-> x, columns |-> Outcome(d).dte, anexo |-> NoBlock]

AnnexInit == /\ \E book \in Books :
                  /\ mail = book.mail
                  /\ defaults = book.defaults
                  /\ docs = [d \in Doc |-> IF book.receptors[d] = 0 THEN NoPurchase
                                           ELSE [receptor |-> book.receptors[d],
                                                 columns |-> Parsed[book.mail[d]].dte, anexo |-> NoBlock]]
             /\ merge = NoMerge
             /\ export = Idle
             /\ stirred = {}
             /\ edits = 0
---------------------------------------------------------------------------
(* What the book is filtered by (buildPurchaseDocumentWhere).                *)

InPeriod(d, period) == docs[d].columns.fecEmi \in period
PreEpoch(d) == docs[d].columns.fecEmi < Epoch
Unresolved(d) == \E c \in Column : /\ docs[d].anexo[c] = Null
                                   /\ defaults[docs[d].receptor][c] = Null
Unclassified(d) == ~PreEpoch(d) /\ Unresolved(d)
ClassificationFilter(d, filter) ==
  CASE filter = "all" -> TRUE
    [] filter = "unclassified" -> Unclassified(d)
    [] filter = "classified" -> PreEpoch(d) \/ ~Unresolved(d)
Where(d) == InPeriod(d, export.period) /\ ClassificationFilter(d, export.filter)
PurchasesOf(parties) == {d \in InBook : docs[d].receptor \in parties /\ Where(d)}
---------------------------------------------------------------------------
(* A row (buildAnexoRow).  Amounts of the book are thousandths, those of the *)
(* annex cents.                                                              *)

Truncated(x) == IF x >= 0 THEN x \div 10 ELSE -((-x) \div 10)
Rounded(x) == IF x >= 0 THEN (x + 5) \div 10 ELSE -((5 - x) \div 10)
ToAnexoAmount(cents) == Max({0, cents})

ResolveColumn(override, fallback, preEpoch) ==
  CASE preEpoch -> "0"
    [] ~preEpoch /\ override # Null -> override
    [] ~preEpoch /\ override = Null /\ fallback # Null -> fallback
    [] OTHER -> ""

(* A DUI goes to column P, anything else to column E.                        *)
SplitSupplierId(raw) == [E |-> IF Digits[raw] = 9 THEN "" ELSE raw,
                         P |-> IF Digits[raw] = 9 THEN raw ELSE "",
                         anomalous |-> Digits[raw] \notin {9, 14}]

BuildAnexoRow(d) ==
  LET columns == docs[d].columns
      supplier == SplitSupplierId(columns.emisorNit)
      g == Rounded(columns.totalExenta + columns.totalNoSuj)
      j == Rounded(columns.totalGravada)
      n == Rounded(columns.ivaCreditoFiscal)
      o == g + j
      cells == [c \in Column |-> ResolveColumn(docs[d].anexo[c], defaults[docs[d].receptor][c],
                                               PreEpoch(d))]
  IN [doc |-> d, E |-> supplier.E, P |-> supplier.P, G |-> ToAnexoAmount(g), J |-> ToAnexoAmount(j),
      N |-> ToAnexoAmount(n), O |-> ToAnexoAmount(o), cells |-> cells,
      flags |-> [supplier |-> supplier.anomalous,
                 negative |-> g < 0 \/ j < 0 \/ n < 0,
                 mismatch |-> o + n - Rounded(columns.montoTotalOperacion) \notin -1 .. 1,
                 incomplete |-> \E c \in Column : cells[c] = ""]]
---------------------------------------------------------------------------
(* The export (collectRows), one action per query.                           *)

Quiet == UNCHANGED <<mail, docs, defaults, merge, stirred, edits>>
Refuse == export' = [export EXCEPT !.pc = "refused"]

(* The service keeps nothing from one export to the next: one is followed.   *)
Request(x, period, filter, allow) ==
  /\ export = Idle
  /\ export' = [pc |-> "count", receptor |-> x, period |-> period, filter |-> filter,
                allow |-> allow, total |-> 0, siblings |-> {}, rows |-> <<>>, cursor |-> 0]
  /\ Quiet

CountAll ==
  /\ export.pc = "count"
  /\ export' = [export EXCEPT !.pc = "pending", !.total = Cardinality(PurchasesOf({export.receptor}))]
  /\ Quiet

(* The second count, and the guards on both.                                 *)
CountUnclassified ==
  /\ export.pc = "pending"
  /\ LET unclassified == {d \in PurchasesOf({export.receptor}) : Unclassified(d)}
     IN IF \/ export.total = 0
           \/ export.total > MaxRows
           \/ unclassified # {} /\ ~export.allow
        THEN Refuse
        ELSE export' = [export EXCEPT !.pc = "key"]
  /\ Quiet

(* assertNoSplitIdentity.  A party that is not there any more has no key and *)
(* nothing is compared.                                                      *)
ReadKey ==
  /\ export.pc = "key"
  /\ export' = [export EXCEPT !.pc = IF export.receptor \in Live THEN "siblings" ELSE "rows"]
  /\ Quiet

Siblings(x) == {y \in Live \ {x} : KeyOf[y] = KeyOf[x]}
ReadSiblings ==
  /\ export.pc = "siblings"
  /\ LET siblings == Siblings(export.receptor)
     IN export' = [export EXCEPT !.pc = IF siblings = {} THEN "rows" ELSE "excluded",
                                 !.siblings = siblings]
  /\ Quiet

Excluded == PurchasesOf(export.siblings)
CountExcluded ==
  /\ export.pc = "excluded"
  /\ IF Excluded # {} THEN Refuse ELSE export' = [export EXCEPT !.pc = "rows"]
  /\ Quiet

(* A batch: what the filter has from the cursor on, without its first.       *)
Before(d, e) == \/ docs[d].columns.fecEmi < docs[e].columns.fecEmi
                \/ docs[d].columns.fecEmi = docs[e].columns.fecEmi /\ d < e
Place(d, S) == Cardinality({e \in S : ~Before(d, e)})
Ordered(S) == [i \in 1 .. Cardinality(S) |-> CHOOSE d \in S : Place(d, S) = i]
WithoutSkip(S) ==
  IF export.cursor = 0 THEN Ordered(S) ELSE Ordered({d \in S : ~Before(d, export.cursor)})
FromCursor(S) ==
  IF export.cursor = 0 THEN Ordered(S)
  ELSE LET from == Ordered({d \in S : ~Before(d, export.cursor)})
       IN IF from = <<>> THEN <<>> ELSE Tail(from)

NextBatch ==
  /\ export.pc = "rows"
  /\ LET found == FromCursor(PurchasesOf({export.receptor}))
         batch == SubSeq(found, 1, Min({BatchSize, Len(found)}))
         rows == export.rows \o [i \in DOMAIN batch |-> BuildAnexoRow(batch[i])]
         over == Len(batch) < BatchSize \/ Len(rows) >= export.total
     IN export' = [export EXCEPT !.pc = IF over THEN "done" ELSE "rows", !.rows = rows,
                                 !.cursor = IF batch = <<>> THEN @ ELSE Last(batch)]
  /\ Quiet
---------------------------------------------------------------------------
(* What happens to the book meanwhile.                                       *)

Stir(what) == stirred' = IF export = Idle THEN {} ELSE stirred \cup what

(* A document of the mail comes to the oldest party of its contributor.      *)
Ingest(d) ==
  /\ docs[d] = NoPurchase /\ Storable(d)
  /\ LET parties == {x \in Live : KeyOf[x] = Outcome(d).dte.receptorNrc}
     IN parties # {} /\ docs' = [docs EXCEPT ![d] = Purchase(d, Min(parties))]
  /\ Stir({"purchases"})
  /\ UNCHANGED <<mail, defaults, merge, export, edits>>

(* Both PATCHes write the columns they name and no other.                    *)
UpdateClassification(d, patch) ==
  /\ d \in InBook /\ edits < MaxEdits
  /\ docs' = [docs EXCEPT ![d].anexo = Patched(@, patch)]
  /\ edits' = edits + 1
  /\ Stir({"criteria"})
  /\ UNCHANGED <<mail, defaults, merge, export>>

UpdateDefaults(x, patch) ==
  /\ x \in Live /\ edits < MaxEdits
  /\ defaults' = [defaults EXCEPT ![x] = Patched(@, patch)]
  /\ edits' = edits + 1
  /\ Stir({"criteria"})
  /\ UNCHANGED <<mail, docs, merge, export>>

(* planGroup: the heaviest party stays, with its own block of defaults or,   *)
(* when it has none, with the whole block of the heaviest that has one.      *)
Weight(x) == Cardinality({d \in InBook : docs[d].receptor = x})
Heavier(x, y) == Weight(x) > Weight(y) \/ (Weight(x) = Weight(y) /\ x <= y)
Heaviest(S) == CHOOSE x \in S : \A y \in S : Heavier(x, y)
PlanGroup(group) ==
  LET canonical == Heaviest(group)
      blocks == {x \in group : defaults[x] # NoBlock}
  IN [canonical |-> canonical, absorbed |-> group \ {canonical},
      update |-> IF blocks = {} \/ defaults[canonical] # NoBlock THEN <<>>
                 ELSE defaults[Heaviest(blocks)]]

PlanMerge(key) ==
  /\ merge = NoMerge
  /\ LET group == {x \in Live : KeyOf[x] = key}
     IN Cardinality(group) > 1 /\ merge' = PlanGroup(group)
  /\ UNCHANGED <<mail, docs, defaults, export, stirred, edits>>

(* applyPlan, in one transaction.                                            *)
ApplyMerge ==
  /\ merge # NoMerge
  /\ docs' = [d \in Doc |-> IF d \in InBook /\ docs[d].receptor \in merge.absorbed
                            THEN [docs[d] EXCEPT !.receptor = merge.canonical] ELSE docs[d]]
  /\ defaults' = [x \in Party |-> CASE x \in merge.absorbed -> Gone
                                    [] x = merge.canonical -> Patched(defaults[x], merge.update)
                                    [] OTHER -> defaults[x]]
  /\ merge' = NoMerge
  /\ Stir({"purchases", "criteria"})
  /\ UNCHANGED <<mail, export, edits>>

AnnexNext == \/ \E x \in Party, period \in Period, filter \in Filters, allow \in BOOLEAN :
                  Request(x, period, filter, allow)
             \/ CountAll \/ CountUnclassified \/ ReadKey \/ ReadSiblings \/ CountExcluded \/ NextBatch
             \/ \E d \in Doc : Ingest(d)
             \/ \E d \in Doc, patch \in Patch : UpdateClassification(d, patch)
             \/ \E x \in Party, patch \in Patch : UpdateDefaults(x, patch)
             \/ \E key \in Key : PlanMerge(key)
             \/ ApplyMerge

AnnexSpec == AnnexInit /\ [][AnnexNext]_annexVars
---------------------------------------------------------------------------
(* Properties.                                                               *)

(* What the document itself says, by definitions of their own.               *)
Stated(row, field) == Decimal(ReadOwn(ReadOwn(Content[mail[row.doc]], "resumen"), field))
StatedCredit(row) ==
  LET taxes == Elements(ReadOwn(ReadOwn(Content[mail[row.doc]], "resumen"), "tributos"))
  IN MapThenSumSet(LAMBDA i : Decimal(ReadOwn(taxes[i], "valor")),
                   {i \in DOMAIN taxes : Text(ReadOwn(taxes[i], "codigo")) = "20"})
NearestCent(cents, x) == 10 * cents - x \in -4 .. 5

(* Every row without a flag prints the amounts its document states, to the   *)
(* nearest cent and never truncated, the credit of a tax that comes twice    *)
(* included; its total is the sum of the columns as printed, and agrees with *)
(* the total of the operation up to the rounding (build-anexo-row.ts:130).   *)
FileIsTrue ==
  export.pc \in {"rows", "done"} =>
    \A i \in DOMAIN export.rows :
      LET row == export.rows[i]
      IN /\ ~row.flags.negative =>
              /\ NearestCent(row.G, Stated(row, "totalExenta") + Stated(row, "totalNoSuj"))
              /\ NearestCent(row.J, Stated(row, "totalGravada"))
              /\ NearestCent(row.N, StatedCredit(row))
              /\ row.O = row.G + row.J
              /\ ~row.flags.mismatch =>
                   10 * (row.O + row.N) - Stated(row, "montoTotalOperacion") \in -15 .. 15
         /\ ~row.flags.supplier => (row.E = "") # (row.P = "")

(* An export during which nothing was written is refused for a reason, or    *)
(* its file is whole: it has, in the order of the annex, every purchase of   *)
(* the contributor in the period that the filter wants, under whatever party *)
(* of the contributor, and a blank cell only when that was asked for.  What  *)
(* the filter wants is said here by the cells of the row, which the queries  *)
(* of the export never look at.  Whatever was written meanwhile, no purchase *)
(* comes twice, out of order, or from another contributor.                   *)
Wanted(d) == /\ KeyOf[docs[d].receptor] = KeyOf[export.receptor]
             /\ InPeriod(d, export.period)
             /\ LET blank == BuildAnexoRow(d).flags.incomplete
                IN CASE export.filter = "all" -> TRUE
                     [] export.filter = "classified" -> ~blank
                     [] export.filter = "unclassified" -> blank
WantedDocs == {d \in InBook : Wanted(d)}
Blank(d) == BuildAnexoRow(d).flags.incomplete
FileDocs == [i \in DOMAIN export.rows |-> export.rows[i].doc]
Undisturbed == stirred = {}
SameBook == Undisturbed \/ (stirred = {"criteria"} /\ export.filter = "all")

FileIsWhole ==
  /\ export.pc = "done" /\ SameBook => FileDocs = Ordered(WantedDocs)
  /\ export.pc = "done" /\ Undisturbed /\ ~export.allow => \A d \in WantedDocs : ~Blank(d)
  /\ export.pc = "refused" /\ Undisturbed =>
       \/ Cardinality(WantedDocs) \notin 1 .. MaxRows
       \/ \E d \in WantedDocs : docs[d].receptor # export.receptor
       \/ ~export.allow /\ \E d \in WantedDocs : Blank(d)
  /\ export.pc \in {"rows", "done"} =>
       \A i \in DOMAIN FileDocs :
         /\ KeyOf[docs[FileDocs[i]].receptor] = KeyOf[export.receptor]
         /\ \A k \in 1 .. (i - 1) : Before(FileDocs[k], FileDocs[i])

(* assertNoSplitIdentity is there so that no declaration is incomplete       *)
(* without anybody knowing (export-purchase-book.service.ts:126-134): a file *)
(* of a whole period has at least as many rows as were counted.              *)
FileHasItsTotal == export.pc = "done" /\ export.filter = "all" => Len(export.rows) >= export.total

(* The total of a row is the sum of its columns as printed, for every row    *)
(* (build-anexo-row.ts:138-139).                                             *)
TotalCloses == export.pc \in {"rows", "done"} =>
                 \A i \in DOMAIN export.rows : LET row == export.rows[i]
                                               IN row.O = row.G + row.J

(* assertNoSplitIdentity says that it looks for the purchases of siblings    *)
(* that the filter would have included under the chosen receptor             *)
(* (export-purchase-book.service.ts:150-152), that is with its defaults.     *)
BlankUnder(d, x) == \E c \in Column : docs[d].anexo[c] = Null /\ defaults[x][c] = Null
SiblingsAreSeen ==
  export.pc = "done" /\ Undisturbed =>
    \A d \in InBook :
      /\ docs[d].receptor \in Siblings(export.receptor) /\ InPeriod(d, export.period)
      => ~ CASE export.filter = "all" -> TRUE
             [] export.filter = "classified" -> PreEpoch(d) \/ ~BlankUnder(d, export.receptor)
             [] export.filter = "unclassified" -> ~PreEpoch(d) /\ BlankUnder(d, export.receptor)

(* planGroup says that the block of the canonical party wins whenever it has *)
(* one (merge-dte-parties.ts:311-316).                                       *)
OwnBlockWins ==
  [][merge # NoMerge /\ merge' = NoMerge /\ defaults[merge.canonical] # NoBlock
     => defaults'[merge.canonical] = defaults[merge.canonical]]_annexVars
=============================================================================
