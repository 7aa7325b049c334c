---------------------------- MODULE ExportProofs ----------------------------
(***************************************************************************)
(* Proofs about the two exports.  Of ExportPull: type correctness, verified *)
(* files stay verified, and the cursor never passes a row the client lacks, *)
(* as long as one sync run writes the account's rows, no commit falls      *)
(* between the two statements of a page and nobody uses --month.  Of       *)
(* AnnexExport: what the book is, that an annex nothing disturbed has every *)
(* purchase it should in order, and that its amounts are those stated.     *)
(***************************************************************************)
EXTENDS ExportPull, AnnexExport, FiniteSetTheorems, TLAPS

USE DEF Row

(* The steps of Next, one name each.                                       *)
LEMMA NextCases ==
  ASSUME Next
  PROVE  \/ \E w \in Writer : Commit(w)
         \/ \E w \in Writer, r \in Row : Stamp(w, r)
         \/ \E r \in Row : LoseFile(r)
         \/ \E r \in Row : DownloadFails(r)
         \/ \E all \in Alls, month \in Months : StartSync(all, month)
         \/ ListPage \/ CountPage \/ Check
         \/ \E r \in Row : Download(r)
         \/ DownloadZip \/ Finish \/ ZipFails \/ Die
BY DEF Next, ClientStep

-----------------------------------------------------------------------------
(* Type correctness.                                                       *)

LEMMA TypeInit == Init => TypeOK
BY ExportAssumption DEF Init, TypeOK, NoClient, Client

LEMMA TypeCommit ==
  ASSUME TypeOK, NEW w \in Writer, Commit(w)
  PROVE  TypeOK'
<1>1. tx[w] \in stamped /\ committed' = committed \cup {tx[w]}
  BY DEF TypeOK, Commit
<1>2. tx' \in [Writer -> stamped' \cup {0}] /\ stamped' = stamped
  BY DEF TypeOK, Commit
<1>3. races' \in Nat
  BY DEF TypeOK, Commit
<1>4. UNCHANGED <<gone, copy, cursor, client, left>>
  BY DEF Commit
<1> QED BY <1>1, <1>2, <1>3, <1>4 DEF TypeOK

LEMMA TypeServer ==
  ASSUME TypeOK, NEW r \in Row,
         LoseFile(r) \/ \E w \in Writer : Stamp(w, r)
  PROVE  TypeOK'
<1>1. ASSUME NEW w \in Writer, Stamp(w, r)
      PROVE  TypeOK'
  BY <1>1 DEF TypeOK, Stamp
<1>2. CASE LoseFile(r)
  BY <1>2 DEF TypeOK, LoseFile, Disrupt
<1> QED BY <1>1, <1>2

LEMMA TypeListing ==
  ASSUME TypeOK,
         \/ \E all \in Alls, month \in Months : StartSync(all, month)
         \/ ListPage \/ CountPage \/ Check
  PROVE  TypeOK'
<1> USE DEF ClientKeeps, server
<1>1. ASSUME NEW all \in Alls, NEW month \in Months, StartSync(all, month)
      PROVE  TypeOK'
  <2>1. client' \in Client
    BY <1>1, ExportAssumption DEF TypeOK, StartSync, Client
  <2> QED BY <1>1, <2>1 DEF TypeOK, StartSync
<1>2. CASE ListPage
  <2> DEFINE rows == {r \in Scope : \A c \in client.last : r > c}
             page == FirstOf(rows, Limit)
  <2>1. page \subseteq committed /\ committed \subseteq Row
    BY DEF FirstOf, Scope, TypeOK
  <2>2. client' = [client EXCEPT !.step = "count",
                     !.entries = @ \cup (page \ gone),
                     !.last = {r \in page : \A s \in page : s <= r},
                     !.more = rows # page]
    BY <1>2 DEF ListPage
  <2> HIDE DEF page, rows
  <2>3. /\ client' \in Client
        /\ client'.entries = client.entries \cup (page \ gone)
        /\ client'.last = {r \in page : \A s \in page : s <= r}
        /\ client'.todo = client.todo /\ client'.max = client.max
    BY <2>1, <2>2 DEF TypeOK, Client
  <2> QED BY <1>2, <2>1, <2>3 DEF TypeOK, ListPage
<1>3. CASE CountPage
  <2>1. PICK m \in 0..MaxRow :
          /\ Newest(m)
          /\ client' = [client EXCEPT !.max = m,
                          !.step = IF client.more THEN "list" ELSE "check"]
    BY <1>3 DEF CountPage
  <2>2. m \in committed \cup {0}
    BY <2>1 DEF Newest, Scope, TypeOK
  <2> QED BY <1>3, <2>1, <2>2 DEF TypeOK, CountPage, Client
<1>4. CASE Check
  <2>1. Pending \subseteq client.entries
    BY DEF Pending
  <2> QED BY <1>4, <2>1 DEF TypeOK, Check, Client
<1> QED BY <1>1, <1>2, <1>3, <1>4

LEMMA TypeFetching ==
  ASSUME TypeOK,
         \/ \E r \in Row : DownloadFails(r) \/ Download(r)
         \/ DownloadZip \/ Finish \/ ZipFails \/ Die
  PROVE  TypeOK'
<1> USE DEF server
<1>1. ASSUME NEW r \in Row, DownloadFails(r)
      PROVE  TypeOK'
  <2>1. copy' \in [Row -> {"absent", "bad", "good"}]
    BY <1>1 DEF TypeOK, DownloadFails
  <2>5. left' = left \/ Disrupt
    BY <1>1 DEF DownloadFails
  <2>2. left' \in Nat
    BY <2>5 DEF TypeOK, Disrupt
  <2>3. client' = [client EXCEPT !.todo = @ \ {r}, !.failed = TRUE]
    BY <1>1 DEF DownloadFails
  <2>4. UNCHANGED <<stamped, tx, committed, gone, cursor, races>>
    BY <1>1 DEF DownloadFails
  <2> QED BY <2>1, <2>2, <2>3, <2>4 DEF TypeOK, Client
<1>2. ASSUME NEW r \in Row, Download(r)
      PROVE  TypeOK'
  BY <1>2 DEF TypeOK, Download, Client
<1>3. CASE DownloadZip
  BY <1>3 DEF TypeOK, DownloadZip, Client
<1>4. CASE Finish
  BY <1>4, ExportAssumption DEF TypeOK, Finish, Client, NoClient
<1>5. CASE ZipFails
  <2>1. left' \in Nat
    BY <1>5 DEF TypeOK, ZipFails, Disrupt
  <2>2. client' = [client EXCEPT !.todo = {}, !.failed = TRUE]
    BY <1>5 DEF ZipFails
  <2>3. UNCHANGED <<stamped, tx, committed, gone, cursor, races>>
    BY <1>5 DEF ZipFails
  <2>4. copy' \in [Row -> {"absent", "bad", "good"}]
    BY <1>5 DEF ZipFails, TypeOK
  <2> QED BY <2>1, <2>2, <2>3, <2>4 DEF TypeOK, Client
<1>6. CASE Die
  BY <1>6, ExportAssumption DEF TypeOK, Die, Disrupt, Client, NoClient
<1> QED BY <1>1, <1>2, <1>3, <1>4, <1>5, <1>6

LEMMA TypeNext == TypeOK /\ [Next]_vars => TypeOK'
<1> SUFFICES ASSUME TypeOK, [Next]_vars PROVE TypeOK'
  OBVIOUS
<1>1. CASE Next
  <2>1. ASSUME NEW w \in Writer, Commit(w) PROVE TypeOK'
    BY <2>1, TypeCommit
  <2>2. ASSUME NEW w \in Writer, NEW r \in Row, Stamp(w, r) PROVE TypeOK'
    BY <2>2, TypeServer
  <2>3. ASSUME NEW r \in Row, LoseFile(r) PROVE TypeOK'
    BY <2>3, TypeServer
  <2> QED BY <1>1, <2>1, <2>2, <2>3, NextCases, TypeListing, TypeFetching
<1>2. CASE UNCHANGED vars
  BY <1>2 DEF vars, TypeOK
<1> QED BY <1>1, <1>2

(* Every reachable state is well typed: in particular the cursor and       *)
(* maxCreatedAt are always those of a row every reader sees.               *)
THEOREM ExportTypes == Spec => []TypeOK
BY TypeInit, TypeNext, PTL DEF Spec

-----------------------------------------------------------------------------
(* Verified files.                                                         *)

(* What is still to be downloaded is not there with its hash.              *)
TodoIsNotGood == \A r \in client.todo : copy[r] # "good"

LEMMA TodoNext == TypeOK /\ TodoIsNotGood /\ [Next]_vars => TodoIsNotGood'
<1> SUFFICES ASSUME TypeOK, TodoIsNotGood, [Next]_vars PROVE TodoIsNotGood'
  OBVIOUS
<1> USE DEF TodoIsNotGood, ClientKeeps, server
<1>1. ASSUME NEW w \in Writer, Commit(w) PROVE TodoIsNotGood'
  BY <1>1 DEF Commit
<1>2. ASSUME NEW w \in Writer, NEW r \in Row, Stamp(w, r) PROVE TodoIsNotGood'
  BY <1>2 DEF Stamp
<1>3. ASSUME NEW r \in Row, LoseFile(r) PROVE TodoIsNotGood'
  BY <1>3 DEF LoseFile
<1>4. ASSUME NEW r \in Row, DownloadFails(r) PROVE TodoIsNotGood'
  <2>1. client'.todo = client.todo \ {r}
    BY <1>4 DEF DownloadFails, TypeOK, Client
  <2>2. \A s \in Row : s # r => copy'[s] = copy[s]
    BY <1>4 DEF DownloadFails, TypeOK
  <2>3. client.todo \subseteq Row
    BY DEF TypeOK, Client
  <2> QED BY <2>1, <2>2, <2>3
<1>5. ASSUME NEW all \in Alls, NEW month \in Months, StartSync(all, month)
      PROVE  TodoIsNotGood'
  BY <1>5 DEF StartSync
<1>6. CASE ListPage
  <2>1. client'.todo = client.todo
    BY <1>6 DEF ListPage, TypeOK, Client
  <2> QED BY <1>6, <2>1 DEF ListPage
<1>7. CASE CountPage
  <2>1. client'.todo = client.todo
    BY <1>7 DEF CountPage, TypeOK, Client
  <2> QED BY <1>7, <2>1 DEF CountPage
<1>8. CASE Check
  <2>1. client'.todo = Pending
    BY <1>8 DEF Check, TypeOK, Client
  <2> QED BY <1>8, <2>1 DEF Check, Pending
<1>9. ASSUME NEW r \in Row, Download(r) PROVE TodoIsNotGood'
  <2>1. client'.todo = client.todo \ {r}
    BY <1>9 DEF Download, TypeOK, Client
  <2>2. \A s \in Row : s # r => copy'[s] = copy[s]
    BY <1>9 DEF Download, TypeOK
  <2>3. client.todo \subseteq Row
    BY DEF TypeOK, Client
  <2> QED BY <2>1, <2>2, <2>3
<1>10. CASE DownloadZip \/ ZipFails
  <2>1. client'.todo = {}
    BY <1>10 DEF DownloadZip, ZipFails, TypeOK, Client
  <2> QED BY <2>1
<1>11. CASE Finish \/ Die
  BY <1>11 DEF Finish, Die, NoClient
<1>12. CASE UNCHANGED vars
  BY <1>12 DEF vars
<1> QED BY <1>1, <1>2, <1>3, <1>4, <1>5, <1>6, <1>7, <1>8, <1>9, <1>10, <1>11, <1>12,
           NextCases

LEMMA TodoInvariant == Spec => []TodoIsNotGood
<1>1. Init => TodoIsNotGood
  BY DEF Init, NoClient, TodoIsNotGood
<1> QED BY <1>1, ExportTypes, TodoNext, PTL DEF Spec

LEMMA CopyStep ==
  ASSUME TypeOK, TodoIsNotGood, [Next]_vars
  PROVE  \A r \in Row : copy[r] = "good" => copy'[r] = "good"
<1> USE DEF TodoIsNotGood, ClientKeeps, server
<1>1. ASSUME NEW r \in Row, DownloadFails(r)
      PROVE  \A s \in Row : copy[s] = "good" => copy'[s] = "good"
  BY <1>1 DEF DownloadFails, TypeOK
<1>2. ASSUME NEW r \in Row, Download(r)
      PROVE  \A s \in Row : copy[s] = "good" => copy'[s] = "good"
  BY <1>2 DEF Download, TypeOK
<1>3. CASE DownloadZip
  BY <1>3 DEF DownloadZip, TypeOK
<1>6. CASE ZipFails
  BY <1>6 DEF ZipFails, TypeOK
<1>4. CASE copy' = copy
  BY <1>4
<1>5. copy' = copy \/ DownloadZip \/ ZipFails \/ \E r \in Row : DownloadFails(r) \/ Download(r)
  BY NextCases DEF Commit, Stamp, LoseFile, StartSync, ListPage, CountPage, Check,
     Finish, Die, vars
<1> QED BY <1>1, <1>2, <1>3, <1>4, <1>5, <1>6

(* No later download, of another run or of the same, overwrites a file     *)
(* that was verified.                                                      *)
THEOREM VerifiedStays == Spec => GoodStaysGood
<1>1. TypeOK /\ TodoIsNotGood /\ [Next]_vars
      => [\A r \in Row : copy[r] = "good" => copy'[r] = "good"]_copy
  BY CopyStep
<1> QED BY <1>1, ExportTypes, TodoInvariant, PTL DEF Spec, GoodStaysGood

-----------------------------------------------------------------------------
(* The cursor. Under one writer the rows become visible in the order of    *)
(* their createdAt.                                                        *)

CommitsInOrder ==
  /\ races = 0
  /\ \A r \in Row \ stamped, s \in stamped : s < r
  /\ \A w \in Writer : tx[w] # 0 => \A s \in committed : s < tx[w]
  /\ \A w \in Writer : stamped \subseteq committed \cup {tx[w]}

(* A row is listed once the server returned it: it is an entry, or it was  *)
(* marked as missing on disk.                                              *)
Listed(r) == r \in client.entries \cup gone

Copied(r) == copy[r] = "good" \/ r \in gone

(* What the steps of a run have established: the pages so far cover what   *)
(* is up to the last row; after the last page everything up to max is      *)
(* covered; and without a failure what is not in todo any more is there.   *)
RunCovers ==
  /\ client.month = NoMonth
  /\ client.since \in {0, cursor} \/ client.step = "idle"
  /\ client.step \in {"list", "count"} =>
       \A r \in Scope : (\E c \in client.last : r <= c) => Listed(r)
  /\ client.step = "count" /\ ~client.more => \A r \in Scope : Listed(r)
  /\ client.step \in {"list", "count"} /\ Scope = {} => client.max = 0
  /\ client.step \in {"check", "files", "zip"} =>
       \A r \in Scope : r <= client.max => Listed(r)
  /\ client.failed =>
       client.step = "files" \/ (client.step = "zip" /\ client.todo = {})
  /\ client.step \in {"files", "zip"} /\ ~client.failed =>
       \A r \in client.entries \ client.todo : copy[r] = "good"

CursorInv == TypeOK /\ CommitsInOrder /\ RunCovers /\ PulledUpToCursor

(* The conditions of the theorem: no --month, no commit between the two    *)
(* statements of a page, one run of the account at a time.                 *)
SteadyAccount ==
  /\ Months = {NoMonth}
  /\ Races = 0
  /\ \A v, w \in Writer : v = w

LEMMA CursorInit == SteadyAccount /\ Init => CursorInv
<1> SUFFICES ASSUME SteadyAccount, Init PROVE CursorInv
  OBVIOUS
<1>1. CommitsInOrder
  BY DEF Init, SteadyAccount, CommitsInOrder
<1>2. RunCovers /\ PulledUpToCursor
  BY DEF Init, NoClient, RunCovers, PulledUpToCursor
<1> QED BY <1>1, <1>2, TypeInit DEF CursorInv

LEMMA InOrderNext ==
  ASSUME SteadyAccount, TypeOK, CommitsInOrder, Next
  PROVE  CommitsInOrder'
<1>1. ASSUME NEW w \in Writer, Commit(w) PROVE CommitsInOrder'
  <2>1. races' = 0 /\ stamped' = stamped
    BY <1>1 DEF CommitsInOrder, Commit
  <2>2. committed' = committed \cup {tx[w]} /\ tx' = [tx EXCEPT ![w] = 0]
    BY <1>1 DEF Commit
  <2>3. \A v \in Writer : v = w
    BY DEF SteadyAccount
  <2>4. tx'[w] = 0
    BY <2>2 DEF TypeOK
  <2> QED BY <2>1, <2>2, <2>3, <2>4 DEF CommitsInOrder, TypeOK
<1>2. ASSUME NEW w \in Writer, NEW r \in Row, Stamp(w, r) PROVE CommitsInOrder'
  <2>1. races' = 0 /\ stamped' = stamped \cup {r} /\ committed' = committed
    BY <1>2 DEF CommitsInOrder, Stamp
  <2>2. tx'[w] = r /\ \A v \in Writer : v = w
    BY <1>2 DEF TypeOK, Stamp, SteadyAccount
  <2>3. stamped \subseteq committed \cup {0} /\ r \notin stamped
    BY <1>2 DEF CommitsInOrder, Stamp
  <2>4. stamped = committed
    <3>1. 0 \notin stamped /\ committed \subseteq stamped
      BY ExportAssumption DEF TypeOK
    <3> QED BY <2>3, <3>1
  <2>5. \A s \in stamped : s < r
    BY <1>2 DEF CommitsInOrder, Stamp
  <2>6. \A s \in Row \ stamped : r <= s
    BY <1>2 DEF Stamp
  <2>7. \A t \in Row \ stamped', s \in stamped' : s < t
    BY <2>1, <2>5, <2>6, ExportAssumption DEF CommitsInOrder
  <2> QED BY <2>1, <2>2, <2>4, <2>5, <2>7 DEF CommitsInOrder
<1>3. CASE UNCHANGED <<stamped, tx, committed, races>>
  BY <1>3 DEF CommitsInOrder
<1>4. \/ UNCHANGED <<stamped, tx, committed, races>>
      \/ \E w \in Writer : Commit(w) \/ \E r \in Row : Stamp(w, r)
  BY NextCases DEF LoseFile, DownloadFails, StartSync, ListPage, CountPage, Check,
     Download, DownloadZip, Finish, ZipFails, Die, ClientKeeps, server
<1> QED BY <1>1, <1>2, <1>3, <1>4

-----------------------------------------------------------------------------
(* The server's steps: what commits now is later than everything the run   *)
(* listed.                                                                 *)

LEMMA CommitCovers ==
  ASSUME SteadyAccount, CursorInv, NEW w \in Writer, Commit(w)
  PROVE  RunCovers' /\ PulledUpToCursor'
<1> DEFINE n == tx[w]
<1> USE DEF CursorInv
<1>1. /\ committed' = committed \cup {n}
      /\ UNCHANGED <<gone, copy, cursor, client>>
      /\ client.step # "count"
  BY DEF Commit, CommitsInOrder
<1>2. n \in Row /\ \A s \in committed \cup {0} : s < n
  <2>1. n \in stamped /\ stamped \subseteq Row
    BY DEF Commit, TypeOK
  <2>2. \A s \in committed : s < n
    BY DEF Commit, CommitsInOrder
  <2>3. n \in Row
    BY <2>1
  <2>4. 0 < n
    BY <2>3, ExportAssumption
  <2> QED BY <2>2, <2>3, <2>4
<1>3. committed \subseteq Row
  BY DEF TypeOK
<1> HIDE DEF n
<1>4. Scope' \subseteq Scope \cup {n} /\ Scope \subseteq Scope'
  BY <1>1 DEF Scope, InScope
<1>5. \A r : Listed(r)' = Listed(r)
  BY <1>1 DEF Listed
<1>6. client.last \subseteq committed /\ client.max \in committed \cup {0}
  BY DEF TypeOK
<1>9. \A m \in committed \cup {0} : ~(n <= m)
  BY <1>2, <1>3, ExportAssumption
<1>7. RunCovers'
  BY <1>1, <1>4, <1>5, <1>6, <1>9 DEF RunCovers
<1>8. PulledUpToCursor'
  <2>1. cursor \in committed \cup {0}
    BY DEF TypeOK
  <2> QED BY <1>1, <1>9, <2>1 DEF PulledUpToCursor
<1> QED BY <1>7, <1>8

LEMMA StampCovers ==
  ASSUME CursorInv, NEW w \in Writer, NEW r \in Row, Stamp(w, r)
  PROVE  RunCovers' /\ PulledUpToCursor'
<1>1. UNCHANGED <<committed, gone, copy, cursor, client>>
  BY DEF Stamp
<1>2. Scope' = Scope /\ \A s : Listed(s)' = Listed(s)
  BY <1>1 DEF Scope, InScope, Listed
<1> QED BY <1>1, <1>2 DEF CursorInv, RunCovers, PulledUpToCursor

LEMMA LoseFileCovers ==
  ASSUME CursorInv, NEW r \in Row, LoseFile(r)
  PROVE  RunCovers' /\ PulledUpToCursor'
<1>1. UNCHANGED <<committed, copy, cursor, client>> /\ gone \subseteq gone'
  BY DEF LoseFile
<1>2. Scope' = Scope /\ \A s : Listed(s) => Listed(s)'
  BY <1>1 DEF Scope, InScope, Listed
<1> QED BY <1>1, <1>2 DEF CursorInv, RunCovers, PulledUpToCursor

-----------------------------------------------------------------------------
(* The client's steps.                                                     *)

LEMMA StartCovers ==
  ASSUME SteadyAccount, CursorInv, NEW all \in Alls, NEW month \in Months,
         StartSync(all, month)
  PROVE  RunCovers' /\ PulledUpToCursor'
<1>1. UNCHANGED <<committed, gone, copy, cursor>>
  BY DEF StartSync, ClientKeeps, server
<1>2. /\ client'.step = "list" /\ client'.month = NoMonth
      /\ client'.since \in {0, cursor} /\ client'.last = {} /\ client'.max = 0
      /\ client'.failed = FALSE
  BY DEF StartSync, SteadyAccount
<1> QED BY <1>1, <1>2 DEF CursorInv, RunCovers, PulledUpToCursor

(* A page is a prefix of the rows after the last one.                      *)
LEMMA PrefixClosed ==
  ASSUME NEW S, S \subseteq Row, NEW r \in S, NEW c \in FirstOf(S, Limit), r <= c
  PROVE  r \in FirstOf(S, Limit)
<1> DEFINE below(x) == {s \in S : s < x}
<1>1. IsFiniteSet(Row)
  BY FS_Interval, ExportAssumption
<1>2. IsFiniteSet(below(c)) /\ below(r) \subseteq below(c)
  <2>3. Row \subseteq Int
    BY ExportAssumption
  <2>4. c \in S
    BY DEF FirstOf
  <2>1. below(c) \subseteq Row /\ S \subseteq Int /\ c \in S
    BY <2>3, <2>4
  <2>2. \A s \in S : s < r => s < c
    BY <2>1
  <2> QED BY <1>1, <2>1, <2>2, FS_Subset
<1>3. /\ Cardinality(below(r)) <= Cardinality(below(c))
      /\ Cardinality(below(r)) \in Nat /\ Cardinality(below(c)) \in Nat
  BY <1>2, FS_Subset, FS_CardinalityType
<1>4. Cardinality(below(c)) < Limit
  BY DEF FirstOf
<1> QED BY <1>3, <1>4, ExportAssumption DEF FirstOf

LEMMA ListCovers ==
  ASSUME CursorInv, ListPage
  PROVE  RunCovers' /\ PulledUpToCursor'
<1> DEFINE rows == {r \in Scope : \A c \in client.last : r > c}
           page == FirstOf(rows, Limit)
<1> USE DEF CursorInv
<1>1. /\ client.step = "list"
      /\ client' = [client EXCEPT !.step = "count",
                      !.entries = @ \cup (page \ gone),
                      !.last = {r \in page : \A s \in page : s <= r},
                      !.more = rows # page]
      /\ UNCHANGED <<committed, gone, copy, cursor>>
  BY DEF ListPage, ClientKeeps, server
<1>2. rows \subseteq Row /\ page \subseteq rows /\ Scope \subseteq Row
  BY DEF Scope, TypeOK, FirstOf
<1>3. \A r \in rows, c \in page : r <= c => r \in page
  BY <1>2, PrefixClosed
<1>4. \A r \in Scope \ rows : Listed(r)
  <2>1. SUFFICES ASSUME NEW r \in Scope \ rows PROVE Listed(r)
    OBVIOUS
  <2>2. PICK c \in client.last : ~(r > c)
    OBVIOUS
  <2>3. r <= c
    <3>1. r \in Int
      BY <1>2, ExportAssumption
    <3>2. c \in Int
      <4>1. c \in Row
        BY <2>2 DEF TypeOK, Client
      <4> QED BY <4>1
    <3> QED BY <2>2, <3>1, <3>2
  <2> QED BY <1>1, <2>2, <2>3 DEF RunCovers
<1> HIDE DEF page, rows
<1>5. /\ client'.step = "count" /\ client'.month = client.month
      /\ client'.since = client.since /\ client'.max = client.max
      /\ client'.entries = client.entries \cup (page \ gone)
      /\ client'.last = {r \in page : \A s \in page : s <= r}
      /\ client'.more = (rows # page)
  BY <1>1 DEF TypeOK, Client
<1>6. Scope' = Scope
  BY <1>1, <1>5 DEF Scope, InScope
<1>7. \A r : Listed(r) => Listed(r)'
  BY <1>1, <1>5 DEF Listed
<1>8. \A r \in page : Listed(r)'
  BY <1>1, <1>5 DEF Listed
<1>9. \A r \in Scope' : (\E c \in client'.last : r <= c) => Listed(r)'
  BY <1>3, <1>4, <1>5, <1>6, <1>7, <1>8
<1>10. ~client'.more => \A r \in Scope' : Listed(r)'
  BY <1>4, <1>5, <1>6, <1>7, <1>8
<1>11. RunCovers'
  BY <1>1, <1>5, <1>6, <1>9, <1>10 DEF RunCovers
<1> QED BY <1>1, <1>11 DEF PulledUpToCursor

LEMMA CountCovers ==
  ASSUME CursorInv, CountPage
  PROVE  RunCovers' /\ PulledUpToCursor'
<1> USE DEF CursorInv
<1>1. PICK m \in 0..MaxRow :
        /\ Newest(m)
        /\ client' = [client EXCEPT !.max = m,
                        !.step = IF client.more THEN "list" ELSE "check"]
  BY DEF CountPage
<1>2. client.step = "count" /\ UNCHANGED <<committed, gone, copy, cursor>>
  BY DEF CountPage, ClientKeeps, server
<1>3. /\ client'.step = IF client.more THEN "list" ELSE "check"
      /\ client'.max = m /\ client'.failed = client.failed
      /\ client'.month = client.month /\ client'.since = client.since
      /\ client'.entries = client.entries /\ client'.last = client.last
  BY <1>1 DEF TypeOK, Client
<1>4. Scope' = Scope /\ \A r : Listed(r)' = Listed(r)
  BY <1>2, <1>3 DEF Scope, InScope, Listed
<1>5. Scope = {} => m = client.max
  BY <1>1 DEF Newest
<1>6. RunCovers'
  BY <1>2, <1>3, <1>4, <1>5 DEF RunCovers
<1> QED BY <1>2, <1>6 DEF PulledUpToCursor

LEMMA CheckCovers ==
  ASSUME CursorInv, Check
  PROVE  RunCovers' /\ PulledUpToCursor'
<1> USE DEF CursorInv
<1>1. client.step = "check" /\ UNCHANGED <<committed, gone, copy, cursor>>
  BY DEF Check, ClientKeeps, server
<1>2. /\ client'.step \in {"zip", "files"} /\ client'.todo = Pending
      /\ client'.failed = client.failed
      /\ client'.month = client.month /\ client'.since = client.since
      /\ client'.entries = client.entries /\ client'.max = client.max
  BY DEF Check, TypeOK, Client
<1>3. Scope' = Scope /\ \A r : Listed(r)' = Listed(r)
  BY <1>1, <1>2 DEF Scope, InScope, Listed
<1>4. \A r \in client'.entries \ client'.todo : copy'[r] = "good"
  BY <1>1, <1>2 DEF Pending
<1>5. RunCovers'
  BY <1>1, <1>2, <1>3, <1>4 DEF RunCovers
<1> QED BY <1>1, <1>5 DEF PulledUpToCursor

(* One or more files: what leaves todo is there, or the run has failed.    *)
LEMMA FetchCovers ==
  ASSUME CursorInv, TodoIsNotGood, Next,
         \/ \E r \in Row : Download(r) \/ DownloadFails(r)
         \/ DownloadZip \/ ZipFails
  PROVE  RunCovers' /\ PulledUpToCursor'
<1> USE DEF CursorInv
<1>1. client.step \in {"files", "zip"} /\ UNCHANGED <<committed, gone, cursor>>
  BY DEF Download, DownloadFails, DownloadZip, ZipFails, server
<1>2. /\ client'.step = client.step /\ client'.month = client.month
      /\ client'.since = client.since /\ client'.entries = client.entries
      /\ client'.max = client.max
  BY DEF Download, DownloadFails, DownloadZip, ZipFails, TypeOK, Client
<1>3. Scope' = Scope /\ \A r : Listed(r)' = Listed(r)
  BY <1>1, <1>2 DEF Scope, InScope, Listed
<1>4. \A r \in Row : copy[r] = "good" => copy'[r] = "good"
  BY CopyStep
<1>5. ~client'.failed => /\ ~client.failed
                         /\ \A r \in client.todo \ client'.todo : copy'[r] = "good"
  <2>1. ASSUME NEW r \in Row, Download(r)
        PROVE  /\ client'.failed = client.failed /\ client'.todo = client.todo \ {r}
               /\ copy'[r] = "good"
    BY <2>1 DEF Download, TypeOK, Client
  <2>2. ASSUME NEW r \in Row, DownloadFails(r) PROVE client'.failed
    BY <2>2 DEF DownloadFails, TypeOK, Client
  <2>3. CASE ZipFails
    BY <2>3 DEF ZipFails, TypeOK, Client
  <2>4. CASE DownloadZip
    <3>1. client'.failed = ~(client.todo \subseteq ZipServed)
      BY <2>4 DEF DownloadZip, TypeOK, Client
    <3>2. \A r \in Row : r \in client.todo \cap ZipServed => copy'[r] = "good"
      BY <2>4 DEF DownloadZip
    <3>3. client.todo \subseteq Row
      BY DEF TypeOK, Client
    <3>4. ~client.failed
      BY <2>4 DEF RunCovers, DownloadZip
    <3> QED BY <2>4, <3>1, <3>2, <3>3, <3>4 DEF DownloadZip
  <2> QED BY <2>1, <2>2, <2>3, <2>4
<1>6. client.entries \subseteq Row
  BY DEF TypeOK, Client
<1>7. ~client'.failed => \A r \in client'.entries \ client'.todo : copy'[r] = "good"
  BY <1>1, <1>2, <1>4, <1>5, <1>6 DEF RunCovers
<1>10. client'.failed =>
         client'.step = "files" \/ (client'.step = "zip" /\ client'.todo = {})
  <2>1. ASSUME NEW r \in Row, Download(r) \/ DownloadFails(r)
        PROVE  client'.step = "files"
    BY <1>2, <2>1 DEF Download, DownloadFails
  <2>2. CASE DownloadZip \/ ZipFails
    BY <1>2, <2>2 DEF DownloadZip, ZipFails, TypeOK, Client
  <2> QED BY <2>1, <2>2
<1>8. RunCovers'
  BY <1>1, <1>2, <1>3, <1>7, <1>10 DEF RunCovers
<1>9. committed \subseteq Row
  BY DEF TypeOK
<1> QED BY <1>1, <1>4, <1>8, <1>9 DEF PulledUpToCursor

LEMMA FinishCovers ==
  ASSUME CursorInv, Finish
  PROVE  RunCovers' /\ PulledUpToCursor'
<1> USE DEF CursorInv
<1>1. /\ client.step \in {"files", "zip"} /\ client.todo = {} /\ client' = NoClient
      /\ UNCHANGED <<committed, gone, copy>>
      /\ cursor' = IF Verified THEN client.max ELSE cursor
  BY DEF Finish, server
<1>2. RunCovers'
  BY <1>1 DEF RunCovers, NoClient
<1>3. CASE Verified
  <2>1. SUFFICES ASSUME NEW r \in committed, r <= client.max
                 PROVE  copy[r] = "good" \/ r \in gone
    <3>1. cursor' = client.max
      BY <1>1, <1>3
    <3> QED BY <1>1, <1>2, <3>1 DEF PulledUpToCursor
  <2>2. client.since \in {0, cursor} /\ r \in Row /\ cursor \in Row \cup {0}
    BY <1>1 DEF RunCovers, TypeOK
  <2>3. CASE r <= client.since
    BY <2>2, <2>3, ExportAssumption DEF PulledUpToCursor
  <2>4. CASE ~(r <= client.since)
    <3>1. r \in Scope
      BY <2>2, <2>4, ExportAssumption DEF Scope, InScope, RunCovers
    <3>2. Listed(r)
      BY <1>1, <2>1, <3>1 DEF RunCovers
    <3> QED BY <1>1, <1>3, <3>2 DEF Listed, RunCovers, Verified
  <2> QED BY <2>3, <2>4
<1>4. CASE ~Verified
  <2>1. cursor' = cursor
    BY <1>1, <1>4
  <2> QED BY <1>1, <1>2, <2>1 DEF PulledUpToCursor
<1> QED BY <1>2, <1>3, <1>4

LEMMA DieCovers ==
  ASSUME CursorInv, Die
  PROVE  RunCovers' /\ PulledUpToCursor'
BY DEF CursorInv, Die, server, RunCovers, NoClient, PulledUpToCursor

LEMMA CursorNext ==
  SteadyAccount /\ CursorInv /\ TodoIsNotGood /\ [Next]_vars => CursorInv'
<1> SUFFICES ASSUME SteadyAccount, CursorInv, TodoIsNotGood, [Next]_vars
             PROVE  CursorInv'
  OBVIOUS
<1>1. CASE Next
  <2>1. RunCovers' /\ PulledUpToCursor'
    BY <1>1, NextCases, CommitCovers, StampCovers, LoseFileCovers, StartCovers, ListCovers,
       CountCovers, CheckCovers, FetchCovers, FinishCovers, DieCovers
  <2> QED BY <1>1, <2>1, TypeNext, InOrderNext DEF CursorInv
<1>2. CASE UNCHANGED vars
  BY <1>2, TypeNext DEF vars, CursorInv, CommitsInOrder, RunCovers, PulledUpToCursor,
     Scope, InScope, Listed
<1> QED BY <1>1, <1>2

(* Under those conditions the cursor of the client never passes a row that *)
(* it lacks, whatever downloads fail and whenever the client is killed.    *)
THEOREM CursorIsHonest == ASSUME SteadyAccount PROVE Spec => []PulledUpToCursor
<1>1. Init => CursorInv
  BY CursorInit
<1>2. CursorInv /\ TodoIsNotGood /\ [Next]_vars => CursorInv'
  BY CursorNext
<1>3. CursorInv => PulledUpToCursor
  BY DEF CursorInv
<1> QED BY <1>1, <1>2, <1>3, TodoInvariant, PTL DEF Spec

-----------------------------------------------------------------------------
(* The order of the annex. The place of a purchase among others counts     *)
(* those that do not come after it; it is a bijection onto 1 .. n, so the  *)
(* list by places is the one sorted list of them.                          *)

Dated == \A d \in InBook : docs[d].columns.fecEmi \in Int

LEMMA DocsAreFinite ==
  ASSUME NEW S \in SUBSET Doc
  PROVE  IsFiniteSet(S) /\ Cardinality(S) \in Nat
<1>1. IsFiniteSet(Doc)
  BY Sizes, FS_Interval DEF Doc
<1> QED BY <1>1, FS_Subset, FS_CardinalityType

LEMMA BeforeIsAnOrder ==
  ASSUME Dated, NEW d \in InBook, NEW e \in InBook, NEW f \in InBook
  PROVE  /\ ~Before(d, d)
         /\ d # e => Before(d, e) \/ Before(e, d)
         /\ Before(d, e) => ~Before(e, d)
         /\ Before(d, e) /\ Before(e, f) => Before(d, f)
         /\ Before(d, e) /\ ~Before(f, e) => Before(d, f)
<1> DEFINE day(x) == docs[x].columns.fecEmi
<1>1. day(d) \in Int /\ day(e) \in Int /\ day(f) \in Int
  BY DEF Dated
<1>2. d \in Int /\ e \in Int /\ f \in Int
  BY Sizes DEF InBook, Doc
<1> HIDE DEF day
<1>3. \A x, y : Before(x, y) <=> day(x) < day(y) \/ (day(x) = day(y) /\ x < y)
  BY DEF Before, day
<1> QED BY <1>1, <1>2, <1>3

LEMMA PlaceGrows ==
  ASSUME Dated, NEW S \in SUBSET InBook, NEW d \in S
  PROVE  /\ Place(d, S) \in 1 .. Cardinality(S)
         /\ \A e \in S : Before(d, e) => Place(d, S) < Place(e, S)
<1> DEFINE Low(x) == {e \in S : ~Before(x, e)}
<1>1. \A x \in S : /\ IsFiniteSet(Low(x)) /\ Cardinality(Low(x)) \in Nat
                   /\ Cardinality(Low(x)) <= Cardinality(S)
  <2> TAKE x \in S
  <2>1. S \in SUBSET Doc /\ Low(x) \in SUBSET Doc /\ Low(x) \in SUBSET S
    BY DEF InBook
  <2> QED BY <2>1, DocsAreFinite, FS_Subset
<1>2. Cardinality(S) \in Nat
  BY DocsAreFinite DEF InBook
<1>3. d \in Low(d)
  <2>1. ~Before(d, d)
    BY BeforeIsAnOrder
  <2> QED BY <2>1
<1>4. Cardinality(Low(d)) # 0
  BY <1>1, <1>3, FS_EmptySet
<1>5. ASSUME NEW e \in S, Before(d, e) PROVE Cardinality(Low(d)) < Cardinality(Low(e))
  <2>1. e \in Low(e) /\ e \notin Low(d)
    <3>1. ~Before(e, e)
      BY BeforeIsAnOrder
    <3> QED BY <3>1, <1>5
  <2>2. Low(d) \subseteq Low(e)
    <3>1. ASSUME NEW x \in S, ~Before(d, x) PROVE ~Before(e, x)
      <4>1. Before(e, x) => Before(d, x)
        BY <1>5, BeforeIsAnOrder
      <4> QED BY <4>1, <3>1
    <3> QED BY <3>1
  <2>3. Cardinality(Low(d)) <= Cardinality(Low(e)) /\ Cardinality(Low(d)) # Cardinality(Low(e))
    BY <2>1, <2>2, <1>1, FS_Subset
  <2> QED BY <2>3, <1>1
<1> QED BY <1>1, <1>2, <1>4, <1>5 DEF Place

LEMMA PlacesFill ==
  ASSUME Dated, NEW S \in SUBSET InBook
  PROVE  /\ \A i \in 1 .. Cardinality(S) : \E d \in S : Place(d, S) = i
         /\ \A d, e \in S : Place(d, S) = Place(e, S) => d = e
<1> DEFINE n == Cardinality(S)
           place == [d \in S |-> Place(d, S)]
<1>1. n \in Nat /\ IsFiniteSet(S)
  BY DocsAreFinite DEF InBook
<1>2. IsFiniteSet(1 .. n) /\ Cardinality(1 .. n) = n
  BY <1>1, FS_Interval
<1>3. \A d, e \in S : Place(d, S) = Place(e, S) => d = e
  <2> TAKE d, e \in S
  <2>1. Place(d, S) \in Int /\ Place(e, S) \in Int
    BY PlaceGrows, <1>1
  <2>2. /\ Before(d, e) => Place(d, S) < Place(e, S)
        /\ Before(e, d) => Place(e, S) < Place(d, S)
    BY PlaceGrows
  <2>3. d # e => Before(d, e) \/ Before(e, d)
    BY BeforeIsAnOrder
  <2> QED BY <2>1, <2>2, <2>3
<1>4. place \in [S -> 1 .. n]
  BY PlaceGrows
<1>5. place \in Injection(S, 1 .. n)
  BY <1>3, <1>4 DEF Injection, IsInjective
<1>6. place \in Surjection(S, 1 .. n)
  BY <1>1, <1>2, <1>5, FS_Injection
<1> QED BY <1>3, <1>6 DEF Surjection

(* q has what S has, in the order of the annex and each once.              *)
Lists(q, n, S) ==
  /\ q = [i \in 1 .. n |-> q[i]]
  /\ \A i \in 1 .. n : q[i] \in S
  /\ \A i, k \in 1 .. n : i < k => Before(q[i], q[k])
  /\ \A d \in S : \E i \in 1 .. n : q[i] = d

LEMMA OrderedLists ==
  ASSUME Dated, NEW S \in SUBSET InBook
  PROVE  Lists(Ordered(S), Cardinality(S), S) /\ Cardinality(S) \in Nat
<1> DEFINE n == Cardinality(S)
           q == Ordered(S)
<1>1. n \in Nat
  BY DocsAreFinite DEF InBook
<1>2. q = [i \in 1 .. n |-> CHOOSE d \in S : Place(d, S) = i]
  BY DEF Ordered
<1>3. \A i \in 1 .. n : q[i] \in S /\ Place(q[i], S) = i
  <2> TAKE i \in 1 .. n
  <2>1. q[i] = CHOOSE d \in S : Place(d, S) = i
    BY <1>2
  <2>2. \E d \in S : Place(d, S) = i
    BY PlacesFill
  <2> QED BY <2>1, <2>2
<1>4. \A i, k \in 1 .. n : i < k => Before(q[i], q[k])
  <2> SUFFICES ASSUME NEW i \in 1 .. n, NEW k \in 1 .. n, i < k PROVE Before(q[i], q[k])
    OBVIOUS
  <2>1. q[i] \in InBook /\ q[k] \in InBook /\ q[i] # q[k]
    BY <1>3
  <2>2. Before(q[i], q[k]) \/ Before(q[k], q[i])
    BY <2>1, BeforeIsAnOrder
  <2>3. Before(q[k], q[i]) => k < i
    BY <1>3, PlaceGrows
  <2> QED BY <2>2, <2>3, <1>1
<1>5. \A d \in S : \E i \in 1 .. n : q[i] = d
  <2> TAKE d \in S
  <2>1. Place(d, S) \in 1 .. n
    BY PlaceGrows
  <2>2. Place(q[Place(d, S)], S) = Place(d, S) /\ q[Place(d, S)] \in S
    BY <2>1, <1>3
  <2> QED BY <2>1, <2>2, PlacesFill
<1>6. q = [i \in 1 .. n |-> q[i]]
  BY <1>2
<1> QED BY <1>1, <1>3, <1>4, <1>5, <1>6 DEF Lists

(* No other list of S is sorted.                                           *)
LEMMA OneOrder ==
  ASSUME Dated, NEW S \in SUBSET InBook, NEW n \in Nat, NEW q, Lists(q, n, S)
  PROVE  q = Ordered(S) /\ n = Cardinality(S)
<1>1. /\ q = [i \in 1 .. n |-> q[i]]
      /\ \A i \in 1 .. n : q[i] \in S /\ q[i] \in InBook
      /\ \A i, k \in 1 .. n : i < k => Before(q[i], q[k])
      /\ \A d \in S : \E i \in 1 .. n : q[i] = d
  BY DEF Lists
<1>2. \A i, k \in 1 .. n : q[i] = q[k] => i = k
  <2> TAKE i, k \in 1 .. n
  <2>1. /\ ~Before(q[i], q[i]) /\ ~Before(q[k], q[k])
    BY <1>1, BeforeIsAnOrder
  <2>2. i < k \/ k < i \/ i = k
    OBVIOUS
  <2> QED BY <2>1, <2>2, <1>1
<1>3. \A i \in 1 .. n : Place(q[i], S) = i
  <2> TAKE i \in 1 .. n
  <2> DEFINE Low == {e \in S : ~Before(q[i], e)}
             first == [k \in 1 .. i |-> q[k]]
  <2>1. \A k \in 1 .. i : k \in 1 .. n /\ (k = i \/ k < i)
    OBVIOUS
  <2>2. \A k \in 1 .. i : q[k] \in Low
    <3> TAKE k \in 1 .. i
    <3>1. k = i \/ Before(q[k], q[i])
      BY <2>1, <1>1
    <3>2. ~Before(q[i], q[i]) /\ (Before(q[k], q[i]) => ~Before(q[i], q[k]))
      BY <2>1, <1>1, BeforeIsAnOrder
    <3> QED BY <3>1, <3>2, <2>1, <1>1
  <2>3. \A e \in Low : \E k \in 1 .. i : q[k] = e
    <3> TAKE e \in Low
    <3>1. PICK k \in 1 .. n : q[k] = e
      BY <1>1
    <3>2. ~(i < k)
      BY <3>1, <1>1
    <3> QED BY <3>1, <3>2
  <2>4. first \in [1 .. i -> Low]
    BY <2>2
  <2>5. IsInjective(first)
    BY <2>1, <1>2 DEF IsInjective
  <2>6. first \in Bijection(1 .. i, Low)
    BY <2>3, <2>4, <2>5 DEF Bijection, Injection, Surjection
  <2>7. Cardinality(Low) = i
    BY <2>6, FS_CountingElements DEF ExistsBijection
  <2> QED BY <2>7 DEF Place
<1>4. n = Cardinality(S)
  <2>1. q \in [1 .. n -> S]
    BY <1>1
  <2>2. q \in Bijection(1 .. n, S)
    BY <2>1, <1>1, <1>2 DEF Bijection, Injection, Surjection, IsInjective
  <2> QED BY <2>2, FS_CountingElements DEF ExistsBijection
<1>5. ASSUME NEW i \in 1 .. n PROVE q[i] = CHOOSE d \in S : Place(d, S) = i
  <2>1. q[i] \in S /\ Place(q[i], S) = i
    BY <1>1, <1>3
  <2>2. \A d \in S : Place(d, S) = i => d = q[i]
    BY <2>1, PlacesFill
  <2> QED BY <2>1, <2>2
<1> QED BY <1>1, <1>4, <1>5 DEF Ordered

-----------------------------------------------------------------------------
(* What the parser reads.                                                  *)

LEMMA ReadableIs ==
  ASSUME NEW file \in Readable
  PROVE  /\ file \in File
         /\ Parsed[file].dte = Columns(Content[file])
         /\ ReadsAll(Content[file])
<1> DEFINE raw == Content[file]
           version == ReadOwn(ReadOwn(raw, "identificacion"), "version")
           tipoDte == ReadOwn(ReadOwn(raw, "identificacion"), "tipoDte")
<1>1. file \in File /\ Parsed[file] = ParseDte(raw) /\ ParseDte(raw).kind = "parsed"
  BY DEF Readable, Parsed
<1>2. ParseDte(raw) = IF ~IsObject(raw) \/ ~IsObject(ReadOwn(raw, "identificacion"))
                      THEN [kind |-> "not-dte"]
                      ELSE IF version.is # "number" \/ version.v \notin SupportedVersions
                      THEN [kind |-> "unsupported-version"]
                      ELSE IF tipoDte.is # "text" THEN [kind |-> "invalid"]
                      ELSE IF tipoDte.v # TipoDteCcf THEN [kind |-> "ignored-type"]
                      ELSE IF ~ReadsAll(raw) THEN [kind |-> "invalid"]
                      ELSE [kind |-> "parsed", dte |-> Columns(raw)]
  BY DEF ParseDte
<1> HIDE DEF raw, version, tipoDte
<1>3. ReadsAll(raw) /\ ParseDte(raw) = [kind |-> "parsed", dte |-> Columns(raw)]
  BY <1>1, <1>2
<1> QED BY <1>1, <1>3 DEF raw

LEMMA ReadableIsDated ==
  ASSUME NEW file \in Readable
  PROVE  Columns(Content[file]).fecEmi \in Int
<1> DEFINE raw == Content[file]
           fecEmi == ReadOwn(ReadOwn(raw, "identificacion"), "fecEmi")
<1>1. ReadsIdentificacion(ReadOwn(raw, "identificacion"))
  BY ReadableIs DEF ReadsAll
<1>2. RequiredDate(fecEmi)
  BY <1>1 DEF ReadsIdentificacion
<1>3. fecEmi.v \in DOMAIN Calendar
  BY <1>2 DEF RequiredDate
<1>4. Columns(raw).fecEmi = Calendar[fecEmi.v]
  BY DEF Columns
<1> QED BY <1>3, <1>4, Tables

-----------------------------------------------------------------------------
(* Type correctness of the annex. The columns of a purchase are those of a *)
(* document that reads.                                                    *)

Purchases == [receptor : Party, columns : {Columns(Content[file]) : file \in Readable},
              anexo : Block]
Phases == {"count", "pending", "key", "siblings", "excluded", "rows", "done", "refused"}
Asked ==
  /\ DOMAIN export = {"pc", "receptor", "period", "filter", "allow", "total", "siblings", "rows",
                      "cursor"}
  /\ export.pc \in Phases /\ export.receptor \in Party /\ export.period \in Period
  /\ export.filter \in Filters /\ export.allow \in BOOLEAN
  /\ export.total \in Nat /\ export.siblings \subseteq Party
  /\ Len(export.rows) \in Nat
  /\ export.rows = [i \in 1 .. Len(export.rows) |-> export.rows[i]]
  /\ export.cursor \in Doc \cup {0}
Planned ==
  /\ merge.canonical \in Party /\ merge.absorbed \subseteq Party
  /\ \A c \in Column \cap DOMAIN merge.update : merge.update[c] \in Code \cup {Null}

AnnexTypes ==
  /\ mail \in [Doc -> File]
  /\ docs \in [Doc -> Purchases \cup {NoPurchase}]
  /\ defaults \in [Party -> Block \cup {Gone}]
  /\ merge = NoMerge \/ Planned
  /\ export = Idle \/ Asked
  /\ stirred \subseteq {"purchases", "criteria"}
  /\ edits \in Nat

LEMMA PurchaseIsSomething == \A p \in Purchases : p # NoPurchase
<1> TAKE p \in Purchases
<1>1. DOMAIN p = {"receptor", "columns", "anexo"}
  BY DEF Purchases
<1>2. DOMAIN NoPurchase = {"gone"}
  BY DEF NoPurchase
<1> QED BY <1>1, <1>2

LEMMA PurchaseIsThere ==
  ASSUME AnnexTypes, NEW d \in Doc
  PROVE  d \in InBook <=> docs[d] \in Purchases
BY PurchaseIsSomething DEF AnnexTypes, InBook

LEMMA BookIsDated == AnnexTypes => Dated
<1> SUFFICES ASSUME AnnexTypes, NEW d \in InBook PROVE docs[d].columns.fecEmi \in Int
  BY DEF Dated
<1>1. docs[d].columns \in {Columns(Content[file]) : file \in Readable}
  BY PurchaseIsThere DEF InBook, Purchases
<1> QED BY <1>1, ReadableIsDated

LEMMA Smallest ==
  ASSUME NEW S, S \subseteq Nat, S # {}
  PROVE  \E x \in S : \A y \in S : x <= y
<1>1. PICK x \in S : \A y \in S : <<y, x>> \notin OpToRel(<, Nat)
  BY NatLessThanWellFounded, WFMin
<1>2. ASSUME NEW y \in S PROVE x <= y
  <2>1. x \in Nat /\ y \in Nat
    BY <1>1
  <2>2. y < x => <<y, x>> \in OpToRel(<, Nat)
    BY <2>1 DEF OpToRel
  <2>3. ~(y < x)
    BY <1>1, <2>2
  <2> QED BY <2>1, <2>3
<1> QED BY <1>2

LEMMA PartiesAreNumbers == Party \subseteq Nat \ {0}
BY Sizes DEF Party

LEMMA MinIsThere ==
  ASSUME NEW S \in SUBSET Party, S # {}
  PROVE  Min(S) \in S
<1>1. \E x \in S : \A y \in S : x <= y
  BY PartiesAreNumbers, Smallest
<1> QED BY <1>1 DEF Min

(* The heaviest party of a group is one of the group.                      *)
LEMMA HeaviestIsThere ==
  ASSUME NEW S \in SUBSET Party, S # {}
  PROVE  Heaviest(S) \in S
<1> DEFINE n == Cardinality(Doc)
           lightness(x) == n - Weight(x)
<1>1. n \in Nat /\ IsFiniteSet(Doc)
  BY DocsAreFinite
<1>2. \A x \in S : Weight(x) \in 0 .. n
  <2> TAKE x \in S
  <2>1. {d \in InBook : docs[d].receptor = x} \in SUBSET Doc
    BY DEF InBook
  <2> QED BY <2>1, <1>1, DocsAreFinite, FS_Subset DEF Weight
<1> DEFINE values == {lightness(x) : x \in S}
<1>3. values \subseteq Nat /\ values # {}
  BY <1>1, <1>2
<1>4. PICK k \in values : \A l \in values : k <= l
  BY <1>3, Smallest
<1> DEFINE lightest == {x \in S : lightness(x) = k}
<1>5. PICK x \in lightest : \A y \in lightest : x <= y
  <2>1. lightest \subseteq Nat /\ lightest # {}
    BY <1>4, PartiesAreNumbers
  <2> QED BY <2>1, Smallest
<1>6. \A y \in S : Heavier(x, y)
  <2> TAKE y \in S
  <2>1. Weight(x) \in 0 .. n /\ Weight(y) \in 0 .. n
    BY <1>2, <1>5
  <2>2. lightness(x) <= lightness(y)
    BY <1>4, <1>5
  <2>3. lightness(x) = lightness(y) => x <= y
    BY <1>5
  <2> QED BY <1>1, <2>1, <2>2, <2>3 DEF Heavier
<1> QED BY <1>5, <1>6 DEF Heaviest

LEMMA PatchedIsABlock ==
  ASSUME NEW block \in Block, NEW patch,
         \A c \in Column \cap DOMAIN patch : patch[c] \in Code \cup {Null}
  PROVE  Patched(block, patch) \in Block
BY DEF Patched, Block

LEMMA PatchIsTyped ==
  ASSUME NEW patch \in Patch
  PROVE  \A c \in Column \cap DOMAIN patch : patch[c] \in Code \cup {Null}
BY DEF Patch

(* The steps of AnnexNext, one name each.                                  *)
LEMMA AnnexCases ==
  ASSUME AnnexNext
  PROVE  \/ \E x \in Party, period \in Period, filter \in Filters, allow \in BOOLEAN :
              Request(x, period, filter, allow)
         \/ CountAll \/ CountUnclassified \/ ReadKey \/ ReadSiblings \/ CountExcluded
         \/ NextBatch
         \/ \E d \in Doc : Ingest(d)
         \/ \E d \in Doc, patch \in Patch : UpdateClassification(d, patch)
         \/ \E x \in Party, patch \in Patch : UpdateDefaults(x, patch)
         \/ \E key \in Key : PlanMerge(key)
         \/ ApplyMerge
BY DEF AnnexNext

(* A query of the export changes the export only, and not what was asked.  *)
Query == \/ CountAll \/ CountUnclassified \/ ReadKey \/ ReadSiblings \/ CountExcluded
         \/ NextBatch
LEMMA QueryKeeps ==
  ASSUME AnnexTypes, Query
  PROVE  /\ Asked
         /\ Quiet
         /\ export'.receptor = export.receptor /\ export'.period = export.period
         /\ export'.filter = export.filter /\ export'.allow = export.allow
<1>1. Asked
  BY DEF AnnexTypes, Query, Idle, CountAll, CountUnclassified, ReadKey, ReadSiblings,
         CountExcluded, NextBatch
<1>2. CASE CountAll
  BY <1>1, <1>2 DEF CountAll, Asked
<1>3. CASE CountUnclassified
  BY <1>1, <1>3 DEF CountUnclassified, Asked, Refuse
<1>4. CASE ReadKey
  BY <1>1, <1>4 DEF ReadKey, Asked
<1>5. CASE ReadSiblings
  BY <1>1, <1>5 DEF ReadSiblings, Asked
<1>6. CASE CountExcluded
  BY <1>1, <1>6 DEF CountExcluded, Asked, Refuse
<1>7. CASE NextBatch
  BY <1>1, <1>7 DEF NextBatch, Asked
<1> QED BY <1>1, <1>2, <1>3, <1>4, <1>5, <1>6, <1>7 DEF Query

(* The guards, but for the batches: which phase follows which.             *)
LEMMA GuardSteps ==
  ASSUME AnnexTypes, Query, ~NextBatch
  PROVE  /\ Asked'
         /\ export'.rows = export.rows /\ export'.cursor = export.cursor
         /\ CountAll => /\ export.pc = "count" /\ export'.pc = "pending"
                        /\ export'.total = Cardinality(PurchasesOf({export.receptor}))
         /\ ~CountAll => export'.total = export.total
         /\ CountUnclassified => export.pc = "pending" /\ export'.pc \in {"refused", "key"}
         /\ ReadKey => export.pc = "key" /\ export'.pc \in {"siblings", "rows"}
         /\ ReadSiblings => export.pc = "siblings" /\ export'.pc \in {"rows", "excluded"}
         /\ CountExcluded => export.pc = "excluded" /\ export'.pc \in {"refused", "rows"}
         /\ ~ReadSiblings => export'.siblings = export.siblings
<1>1. Asked
  BY QueryKeeps
<1>2. Cardinality(PurchasesOf({export.receptor})) \in Nat
  <2>1. PurchasesOf({export.receptor}) \in SUBSET Doc
    BY DEF PurchasesOf, InBook
  <2> QED BY <2>1, DocsAreFinite
<1>3. Siblings(export.receptor) \subseteq Party
  BY DEF Siblings, Live
<1>4. CASE CountAll
  BY <1>1, <1>2, <1>4 DEF CountAll, CountUnclassified, ReadKey, ReadSiblings, CountExcluded, Asked,
                          Phases
<1>5. CASE CountUnclassified
  BY <1>1, <1>5 DEF CountAll, CountUnclassified, ReadKey, ReadSiblings, CountExcluded, Asked,
                    Refuse, Phases
<1>6. CASE ReadKey
  BY <1>1, <1>6 DEF CountAll, CountUnclassified, ReadKey, ReadSiblings, CountExcluded, Asked, Phases
<1>7. CASE ReadSiblings
  BY <1>1, <1>3, <1>7 DEF CountAll, CountUnclassified, ReadKey, ReadSiblings, CountExcluded, Asked,
                          Phases
<1>8. CASE CountExcluded
  BY <1>1, <1>8 DEF CountAll, CountUnclassified, ReadKey, ReadSiblings, CountExcluded, Asked,
                    Refuse, Phases
<1> QED BY <1>4, <1>5, <1>6, <1>7, <1>8 DEF Query

(* A batch: a sorted list of purchases of the filter that come after the   *)
(* cursor, up to BatchSize of them; when the cursor is still among them,   *)
(* all that come after it.                                                 *)
Asks == PurchasesOf({export.receptor})
AfterCursor == {d \in Asks : export.cursor # 0 => Before(export.cursor, d)}

LEMMA TailLists ==
  ASSUME NEW S, NEW n \in Nat, n > 0, NEW q, Lists(q, n, S)
  PROVE  /\ q # <<>>
         /\ Lists(Tail(q), n - 1, S \ {q[1]}) \/ \E i \in 2 .. n : q[i] = q[1]
<1>1. /\ q = [i \in 1 .. n |-> q[i]]
      /\ \A i \in 1 .. n : q[i] \in S
      /\ \A i, k \in 1 .. n : i < k => Before(q[i], q[k])
      /\ \A d \in S : \E i \in 1 .. n : q[i] = d
  BY DEF Lists
<1>2. q # <<>>
  BY <1>1
<1>3. Tail(q) = [i \in 1 .. n - 1 |-> q[i + 1]]
  BY <1>1
<1>4. ASSUME \A i \in 2 .. n : q[i] # q[1] PROVE Lists(Tail(q), n - 1, S \ {q[1]})
  <2> DEFINE t == Tail(q)
  <2>1. t = [i \in 1 .. n - 1 |-> t[i]] /\ \A i \in 1 .. n - 1 : t[i] = q[i + 1]
    BY <1>3
  <2>2. \A i \in 1 .. n - 1 : t[i] \in S \ {q[1]}
    <3> TAKE i \in 1 .. n - 1
    <3>1. i + 1 \in 2 .. n /\ i + 1 \in 1 .. n
      OBVIOUS
    <3> QED BY <3>1, <2>1, <1>1, <1>4
  <2>3. \A i, k \in 1 .. n - 1 : i < k => Before(t[i], t[k])
    <3> TAKE i, k \in 1 .. n - 1
    <3>1. i + 1 \in 1 .. n /\ k + 1 \in 1 .. n /\ (i < k => i + 1 < k + 1)
      OBVIOUS
    <3> QED BY <3>1, <2>1, <1>1
  <2>4. \A d \in S \ {q[1]} : \E i \in 1 .. n - 1 : t[i] = d
    <3> TAKE d \in S \ {q[1]}
    <3>1. PICK i \in 1 .. n : q[i] = d
      BY <1>1
    <3>2. i - 1 \in 1 .. n - 1 /\ q[(i - 1) + 1] = d
      BY <3>1
    <3> QED BY <3>2, <2>1
  <2> HIDE DEF t
  <2> QED BY <2>1, <2>2, <2>3, <2>4 DEF Lists, t
<1> QED BY <1>2, <1>4

LEMMA FoundIs ==
  ASSUME AnnexTypes, export.cursor \in InBook \cup {0}
  PROVE  \E n \in Nat, S \in SUBSET AfterCursor :
           /\ Lists(FromCursor(Asks), n, S)
           /\ export.cursor \in Asks \cup {0} => S = AfterCursor
<1> DEFINE c == export.cursor
           rest == {d \in Asks : ~Before(d, c)}
           q == Ordered(rest)
           n == Cardinality(rest)
<1>1. Dated
  BY BookIsDated
<1>2. Asks \in SUBSET InBook
  BY DEF Asks, PurchasesOf
<1>3. CASE c = 0
  <2>1. Lists(Ordered(Asks), Cardinality(Asks), Asks) /\ Cardinality(Asks) \in Nat
    BY <1>1, <1>2, OrderedLists
  <2>2. FromCursor(Asks) = Ordered(Asks) /\ AfterCursor = Asks
    BY <1>3 DEF FromCursor, AfterCursor
  <2> QED BY <2>1, <2>2
<1>4. ASSUME c # 0 PROVE c \in InBook /\ rest \in SUBSET InBook
  BY <1>2, <1>4
<1>5. ASSUME c # 0 PROVE Lists(q, n, rest) /\ n \in Nat
  <2>1. rest \in SUBSET InBook
    BY <1>2
  <2> HIDE DEF rest
  <2> QED BY <2>1, <1>1, OrderedLists
<1>6. ASSUME c # 0 PROVE FromCursor(Asks) = IF q = <<>> THEN <<>> ELSE Tail(q)
  BY <1>6 DEF FromCursor
<1>7. CASE c # 0 /\ n = 0
  <2> HIDE DEF rest, q, n
  <2>1. q = [i \in 1 .. 0 |-> q[i]] /\ \A d \in rest : FALSE
    BY <1>5, <1>7 DEF Lists
  <2>2. q = <<>>
    BY <2>1
  <2>3. Lists(<<>>, 0, {})
    BY DEF Lists
  <2>4. c \notin Asks
    <3>1. ~Before(c, c)
      BY <1>1, <1>4, <1>7, BeforeIsAnOrder
    <3> QED BY <2>1, <3>1 DEF rest
  <2> QED BY <2>2, <2>3, <2>4, <1>6, <1>7
<1>8. CASE c # 0 /\ n # 0
  <2> HIDE DEF q, n
  <2>1. n \in Nat /\ n > 0 /\ Lists(q, n, rest)
    BY <1>5, <1>8
  <2>2. /\ \A i \in 1 .. n : q[i] \in rest
        /\ \A i, k \in 1 .. n : i < k => Before(q[i], q[k])
        /\ \A d \in rest : \E i \in 1 .. n : q[i] = d
    BY <2>1 DEF Lists
  <2>3. 1 \in 1 .. n /\ q[1] \in InBook
    BY <2>1, <2>2, <1>4, <1>8
  <2>4. ~ \E i \in 2 .. n : q[i] = q[1]
    <3>1. ~Before(q[1], q[1])
      BY <1>1, <2>3, BeforeIsAnOrder
    <3>2. \A i \in 2 .. n : i \in 1 .. n /\ 1 < i
      BY <2>1
    <3> QED BY <3>1, <3>2, <2>2, <2>3
  <2>5. Lists(Tail(q), n - 1, rest \ {q[1]}) /\ q # <<>>
    BY <2>1, <2>4, TailLists
  <2>6. c \in rest => q[1] = c
    <3> SUFFICES ASSUME c \in rest, q[1] # c PROVE FALSE
      OBVIOUS
    <3>1. PICK i \in 1 .. n : q[i] = c
      BY <2>2
    <3>2. 1 < i
      BY <3>1, <2>1
    <3>3. Before(q[1], c)
      BY <3>1, <3>2, <2>2, <2>3
    <3> QED BY <3>3, <2>2, <2>3
  <2>7. c \in Asks => c \in rest
    <3>1. ~Before(c, c)
      BY <1>1, <1>4, <1>8, BeforeIsAnOrder
    <3> QED BY <3>1
  <2>8. \A d \in Asks : Before(c, d) <=> d # c /\ ~Before(d, c)
    <3> TAKE d \in Asks
    <3>1. d \in InBook /\ c \in InBook
      BY <1>2, <1>4, <1>8
    <3> QED BY <3>1, <1>1, BeforeIsAnOrder
  <2>9. rest \ {q[1]} \subseteq AfterCursor
    BY <2>6, <2>8 DEF AfterCursor
  <2>10. c \in Asks => rest \ {q[1]} = AfterCursor
    BY <2>6, <2>7, <2>8, <1>8 DEF AfterCursor
  <2>11. n - 1 \in Nat
    BY <2>1
  <2>12. FromCursor(Asks) = Tail(q)
    BY <2>5, <1>6, <1>8
  <2> DEFINE S == rest \ {q[1]}
  <2>13. S \in SUBSET AfterCursor /\ (c \in Asks \cup {0} => S = AfterCursor)
    BY <2>9, <2>10, <1>8
  <2>14. Lists(FromCursor(Asks), n - 1, S)
    BY <2>5, <2>12
  <2> HIDE DEF S, rest
  <2> QED BY <2>11, <2>13, <2>14
<1> QED BY <1>3, <1>7, <1>8

(* The step of a batch that takes the first m of the n purchases of S that *)
(* were found.                                                             *)
TakesBatch(n, S, m) ==
  LET found == FromCursor(Asks)
      size == Len(export.rows)
  IN /\ Lists(found, n, S)
     /\ export.cursor \in Asks \cup {0} => S = AfterCursor
     /\ m = BatchSize \/ (m < BatchSize /\ m = n)
     /\ Len(export'.rows) = size + m
     /\ export'.rows = [i \in 1 .. size + m |-> export'.rows[i]]
     /\ \A i \in 1 .. size : export'.rows[i] = export.rows[i]
     /\ \A i \in 1 .. m : export'.rows[size + i] = BuildAnexoRow(found[i])
     /\ export'.cursor = IF m = 0 THEN export.cursor ELSE found[m]
     /\ export.pc = "rows"
     /\ export'.pc = IF m < BatchSize \/ size + m >= export.total THEN "done" ELSE "rows"
     /\ export'.total = export.total /\ export'.siblings = export.siblings
     /\ Asked'

LEMMA BatchIs ==
  ASSUME AnnexTypes, export.cursor \in InBook \cup {0}, NextBatch
  PROVE  \E n \in Nat : \E S \in SUBSET AfterCursor : \E m \in 0 .. n : TakesBatch(n, S, m)
<1> DEFINE size == Len(export.rows)
<1>1. PICK n \in Nat, S \in SUBSET AfterCursor :
        /\ Lists(FromCursor(Asks), n, S)
        /\ export.cursor \in Asks \cup {0} => S = AfterCursor
  BY FoundIs
<1> DEFINE found == FromCursor(Asks)
           batch == SubSeq(found, 1, Min({BatchSize, Len(found)}))
           added == [i \in DOMAIN batch |-> BuildAnexoRow(batch[i])]
           rows == export.rows \o added
           over == Len(batch) < BatchSize \/ Len(rows) >= export.total
           m == IF BatchSize <= n THEN BatchSize ELSE n
<1>2. Asked /\ export.pc = "rows"
  BY DEF AnnexTypes, NextBatch, Idle
<1>3. export' = [export EXCEPT !.pc = IF over THEN "done" ELSE "rows", !.rows = rows,
                               !.cursor = IF batch = <<>> THEN @ ELSE Last(batch)]
  BY DEF NextBatch, Asks
<1>4. found = [i \in 1 .. n |-> found[i]] /\ \A i \in 1 .. n : found[i] \in S
  BY <1>1 DEF Lists
<1> HIDE DEF found
<1>5. Len(found) = n
  BY <1>4
<1>6. m \in 0 .. n /\ BatchSize \in Nat /\ BatchSize > 0
  BY Sizes
<1>7. Min({BatchSize, n}) = m
  <2>1. \E x \in {BatchSize, n} : \A y \in {BatchSize, n} : x <= y
    BY <1>6
  <2>2. Min({BatchSize, n}) \in {BatchSize, n} /\ \A y \in {BatchSize, n} : Min({BatchSize, n}) <= y
    BY <2>1 DEF Min
  <2> QED BY <2>2, <1>6
<1>8. m = BatchSize \/ (m < BatchSize /\ m = n)
  BY <1>6
<1> HIDE DEF m
<1>9. batch = [i \in 1 .. m |-> found[i]]
  <2>1. batch = SubSeq(found, 1, m)
    BY <1>5, <1>7
  <2>2. SubSeq(found, 1, m) = [i \in 1 .. m |-> found[i]]
    BY <1>4, <1>6
  <2> QED BY <2>1, <2>2
<1> HIDE DEF batch
<1>10. Len(batch) = m /\ (batch = <<>> <=> m = 0) /\ (m # 0 => Last(batch) = found[m])
  <2>1. Len(batch) = m
    BY <1>6, <1>9
  <2>2. batch = <<>> <=> m = 0
    BY <1>6, <1>9, <2>1
  <2>3. m # 0 => batch[m] = found[m]
    BY <1>6, <1>9
  <2> QED BY <2>1, <2>2, <2>3 DEF Last
<1>11. added = [i \in 1 .. m |-> BuildAnexoRow(found[i])]
  BY <1>6, <1>9
<1> HIDE DEF added
<1>12. size \in Nat /\ export.rows = [i \in 1 .. size |-> export.rows[i]]
  BY <1>2 DEF Asked
<1> HIDE DEF size
<1>13. /\ rows = [i \in 1 .. size + m |-> rows[i]]
       /\ Len(rows) = size + m
       /\ \A i \in 1 .. size : rows[i] = export.rows[i]
       /\ \A i \in 1 .. m : rows[size + i] = BuildAnexoRow(found[i])
  <2>1. m \in Nat
    BY <1>6
  <2>2. added = [i \in 1 .. m |-> added[i]] /\ \A i \in 1 .. m : added[i] = BuildAnexoRow(found[i])
    BY <1>11
  <2> HIDE DEF added
  <2>3. rows = [i \in 1 .. size + m |-> rows[i]] /\ Len(rows) = size + m
    BY <1>12, <2>1, <2>2
  <2>4. \A i \in 1 .. size : rows[i] = export.rows[i]
    BY <1>12, <2>1, <2>2
  <2>5. \A i \in 1 .. m : rows[size + i] = added[i]
    BY <1>12, <2>1, <2>2
  <2> QED BY <2>2, <2>3, <2>4, <2>5
<1>14. DOMAIN export = {"pc", "receptor", "period", "filter", "allow", "total", "siblings", "rows",
                        "cursor"}
  BY <1>2 DEF Asked
<1> HIDE DEF rows
<1>15. /\ export'.pc = IF over THEN "done" ELSE "rows"
       /\ export'.rows = rows
       /\ export'.cursor = IF m = 0 THEN export.cursor ELSE found[m]
       /\ export'.receptor = export.receptor /\ export'.period = export.period
       /\ export'.filter = export.filter /\ export'.allow = export.allow
       /\ export'.total = export.total /\ export'.siblings = export.siblings
       /\ DOMAIN export' = DOMAIN export
  BY <1>3, <1>10, <1>14
<1>16. over <=> m < BatchSize \/ size + m >= export.total
  BY <1>10, <1>13
<1>17. export'.cursor \in Doc \cup {0}
  <2>1. export.cursor \in Doc \cup {0}
    BY <1>2 DEF Asked
  <2>2. S \subseteq Doc
    BY DEF AfterCursor, Asks, PurchasesOf, InBook
  <2>3. m # 0 => found[m] \in Doc
    BY <2>2, <1>4, <1>6
  <2> QED BY <2>1, <2>3, <1>15
<1>18. Asked'
  <2>1. size + m \in Nat
    BY <1>6, <1>12
  <2> QED BY <2>1, <1>2, <1>13, <1>14, <1>15, <1>17 DEF Asked, Phases
<1>19. Lists(found, n, S)
  BY <1>1 DEF found
<1> HIDE DEF over
<1>20. /\ Len(export'.rows) = size + m
       /\ export'.rows = [i \in 1 .. size + m |-> export'.rows[i]]
       /\ \A i \in 1 .. size : export'.rows[i] = export.rows[i]
       /\ \A i \in 1 .. m : export'.rows[size + i] = BuildAnexoRow(found[i])
  BY <1>13, <1>15
<1>21. export'.pc = IF m < BatchSize \/ size + m >= export.total THEN "done" ELSE "rows"
  BY <1>15, <1>16
<1>22. TakesBatch(n, S, m)
  <2>1. export.cursor \in Asks \cup {0} => S = AfterCursor
    BY <1>1
  <2> QED BY <2>1, <1>2, <1>8, <1>15, <1>18, <1>19, <1>20, <1>21 DEF TakesBatch, found, size
<1> QED BY <1>1, <1>6, <1>22

-----------------------------------------------------------------------------
(* The book: its columns are those of the document as it is in the mail,   *)
(* its parties are there, and a planned merge stays within a contributor.  *)

BookIsRead ==
  /\ \A d \in InBook : /\ mail[d] \in Readable
                       /\ docs[d].columns = Columns(Content[mail[d]])
                       /\ docs[d].receptor \in Live
  /\ merge # NoMerge => /\ merge.canonical \in Live
                        /\ merge.absorbed \subseteq Live \ {merge.canonical}
                        /\ \A x \in merge.absorbed : KeyOf[x] = KeyOf[merge.canonical]

BookInv == AnnexTypes /\ BookIsRead

LEMMA NoBlockIsABlock == NoBlock \in Block /\ NoBlock # Gone
<1>1. NoBlock \in Block
  BY DEF NoBlock, Block
<1> QED BY <1>1, Blanks

LEMMA BookInit == AnnexInit => BookInv
<1> SUFFICES ASSUME AnnexInit PROVE BookInv
  OBVIOUS
<1>1. PICK book \in Books :
        /\ mail = book.mail
        /\ defaults = book.defaults
        /\ docs = [d \in Doc |-> IF book.receptors[d] = 0 THEN NoPurchase
                                 ELSE [receptor |-> book.receptors[d],
                                       columns |-> Parsed[book.mail[d]].dte, anexo |-> NoBlock]]
  BY DEF AnnexInit
<1>2. /\ book.mail \in [Doc -> File] /\ book.receptors \in [Doc -> Party \cup {0}]
      /\ book.defaults \in [Party -> Block]
      /\ \A d \in Doc : book.receptors[d] # 0 => book.mail[d] \in Readable
  BY Starts
<1>3. merge = NoMerge /\ export = Idle /\ stirred = {} /\ edits = 0
  BY DEF AnnexInit
<1>4. Live = Party
  BY <1>1, <1>2, Blanks DEF Live
<1>5. ASSUME NEW d \in Doc, book.receptors[d] # 0
      PROVE  /\ docs[d] \in Purchases /\ mail[d] \in Readable
             /\ docs[d].columns = Columns(Content[mail[d]])
             /\ docs[d].receptor \in Party
  <2>1. mail[d] \in Readable /\ Parsed[mail[d]].dte = Columns(Content[mail[d]])
    BY <1>1, <1>2, <1>5, ReadableIs
  <2>2. docs[d] = [receptor |-> book.receptors[d], columns |-> Columns(Content[mail[d]]),
                   anexo |-> NoBlock]
    BY <1>1, <1>5, <2>1
  <2>3. book.receptors[d] \in Party
    BY <1>2, <1>5
  <2> QED BY <2>1, <2>2, <2>3, NoBlockIsABlock DEF Purchases
<1>6. \A d \in Doc : book.receptors[d] = 0 => docs[d] = NoPurchase
  BY <1>1
<1>7. docs \in [Doc -> Purchases \cup {NoPurchase}]
  BY <1>1, <1>5, <1>6
<1>8. \A d \in InBook : d \in Doc /\ book.receptors[d] # 0
  BY <1>6 DEF InBook
<1>9. AnnexTypes
  BY <1>1, <1>2, <1>3, <1>7 DEF AnnexTypes
<1>10. BookIsRead
  BY <1>3, <1>4, <1>5, <1>8 DEF BookIsRead
<1> QED BY <1>9, <1>10 DEF BookInv

LEMMA RequestKeepsBook ==
  ASSUME BookInv, NEW x \in Party, NEW period \in Period, NEW filter \in Filters,
         NEW allow \in BOOLEAN, Request(x, period, filter, allow)
  PROVE  BookInv' /\ Asked'
<1>1. export' = [pc |-> "count", receptor |-> x, period |-> period, filter |-> filter,
                 allow |-> allow, total |-> 0, siblings |-> {}, rows |-> <<>>, cursor |-> 0]
  BY DEF Request
<1>2. Len(<<>>) = 0 /\ <<>> = [i \in 1 .. 0 |-> <<>>[i]]
  OBVIOUS
<1>3. Asked'
  BY <1>1, <1>2 DEF Asked, Phases
<1>4. UNCHANGED <<mail, docs, defaults, merge, stirred, edits>>
  BY DEF Request, Quiet
<1>5. AnnexTypes'
  BY <1>3, <1>4 DEF AnnexTypes, BookInv, Planned
<1>6. BookIsRead'
  BY <1>4 DEF BookInv, BookIsRead, InBook, Live
<1> QED BY <1>3, <1>5, <1>6 DEF BookInv

LEMMA QueryKeepsBook ==
  ASSUME BookInv, Query, Asked'
  PROVE  BookInv'
<1>1. UNCHANGED <<mail, docs, defaults, merge, stirred, edits>>
  BY QueryKeeps DEF BookInv, Quiet
<1>2. AnnexTypes'
  BY <1>1 DEF AnnexTypes, BookInv, Planned
<1>3. BookIsRead'
  BY <1>1 DEF BookInv, BookIsRead, InBook, Live
<1> QED BY <1>2, <1>3 DEF BookInv

LEMMA StirIsTyped ==
  ASSUME AnnexTypes, NEW what, what \subseteq {"purchases", "criteria"}, Stir(what)
  PROVE  stirred' \subseteq {"purchases", "criteria"}
BY DEF AnnexTypes, Stir

LEMMA IngestKeepsBook ==
  ASSUME BookInv, NEW d \in Doc, Ingest(d)
  PROVE  /\ BookInv'
         /\ docs[d] = NoPurchase /\ \A e \in Doc \ {d} : docs'[e] = docs[e]
<1> DEFINE parties == {x \in Live : KeyOf[x] = Outcome(d).dte.receptorNrc}
           x == Min(parties)
<1>1. /\ docs[d] = NoPurchase /\ Outcome(d).kind = "parsed" /\ parties # {}
      /\ docs' = [docs EXCEPT ![d] = Purchase(d, x)]
      /\ Stir({"purchases"})
      /\ UNCHANGED <<mail, defaults, merge, export, edits>>
  BY DEF Ingest, Storable
<1>2. x \in Live
  <2>1. parties \in SUBSET Party
    BY DEF Live
  <2>2. x \in parties
    BY <1>1, <2>1, MinIsThere
  <2> QED BY <2>2
<1>3. mail[d] \in Readable
  BY <1>1 DEF BookInv, AnnexTypes, Readable, Outcome
<1>4. Purchase(d, x) = [receptor |-> x, columns |-> Columns(Content[mail[d]]), anexo |-> NoBlock]
  BY <1>3, ReadableIs DEF Purchase, Outcome
<1>5. x \in Party
  BY <1>2 DEF Live
<1> HIDE DEF parties, x
<1>6. Purchase(d, x) \in Purchases
  BY <1>3, <1>4, <1>5, NoBlockIsABlock DEF Purchases
<1>7. /\ docs' \in [Doc -> Purchases \cup {NoPurchase}] /\ docs'[d] = Purchase(d, x)
      /\ \A e \in Doc \ {d} : docs'[e] = docs[e]
  BY <1>1, <1>6 DEF BookInv, AnnexTypes
<1>8. AnnexTypes'
  <2>1. stirred' \subseteq {"purchases", "criteria"}
    BY <1>1, StirIsTyped DEF BookInv
  <2>2. (export = Idle \/ Asked)'
    BY <1>1 DEF BookInv, AnnexTypes, Asked
  <2> QED BY <1>1, <1>7, <2>1, <2>2 DEF BookInv, AnnexTypes, Planned
<1>9. BookIsRead'
  <2>1. Live' = Live
    BY <1>1 DEF Live
  <2>2. \A e \in InBook' : e = d \/ e \in InBook
    BY <1>7 DEF InBook
  <2>3. docs'[d].columns = Columns(Content[mail[d]]) /\ docs'[d].receptor = x
    BY <1>4, <1>7
  <2>4. \A e \in InBook' : /\ mail'[e] \in Readable
                           /\ docs'[e].columns = Columns(Content[mail'[e]])
                           /\ docs'[e].receptor \in Live'
    <3> TAKE e \in InBook'
    <3>1. CASE e = d
      BY <3>1, <2>1, <2>3, <1>1, <1>2, <1>3
    <3>2. CASE e # d
      <4>1. e \in InBook /\ docs'[e] = docs[e]
        BY <3>2, <2>2, <1>7 DEF InBook
      <4> QED BY <4>1, <2>1, <1>1 DEF BookInv, BookIsRead
    <3> QED BY <3>1, <3>2
  <2> QED BY <2>1, <2>4, <1>1 DEF BookInv, BookIsRead
<1> QED BY <1>1, <1>7, <1>8, <1>9 DEF BookInv

LEMMA ClassificationKeepsBook ==
  ASSUME BookInv, NEW d \in Doc, NEW patch \in Patch, UpdateClassification(d, patch)
  PROVE  /\ BookInv'
         /\ InBook' = InBook
         /\ \A e \in InBook : /\ docs'[e].columns = docs[e].columns
                              /\ docs'[e].receptor = docs[e].receptor
<1>1. /\ d \in InBook
      /\ docs' = [docs EXCEPT ![d].anexo = Patched(@, patch)]
      /\ edits' = edits + 1
      /\ Stir({"criteria"})
      /\ UNCHANGED <<mail, defaults, merge, export>>
  BY DEF UpdateClassification
<1>2. docs[d] \in Purchases
  BY <1>1, PurchaseIsThere DEF BookInv
<1>3. docs'[d] = [docs[d] EXCEPT !.anexo = Patched(docs[d].anexo, patch)]
  BY <1>1 DEF BookInv, AnnexTypes
<1>4. Patched(docs[d].anexo, patch) \in Block
  BY <1>2, PatchedIsABlock, PatchIsTyped DEF Purchases
<1>5. /\ docs'[d] \in Purchases
      /\ docs'[d].columns = docs[d].columns /\ docs'[d].receptor = docs[d].receptor
  BY <1>2, <1>3, <1>4 DEF Purchases
<1>6. \A e \in Doc \ {d} : docs'[e] = docs[e]
  BY <1>1 DEF BookInv, AnnexTypes
<1>7. docs' \in [Doc -> Purchases \cup {NoPurchase}]
  BY <1>1, <1>5, <1>6 DEF BookInv, AnnexTypes
<1>8. AnnexTypes'
  <2>1. stirred' \subseteq {"purchases", "criteria"}
    BY <1>1, StirIsTyped DEF BookInv
  <2>2. (export = Idle \/ Asked)'
    BY <1>1 DEF BookInv, AnnexTypes, Asked
  <2> QED BY <1>1, <1>7, <2>1, <2>2 DEF BookInv, AnnexTypes, Planned
<1>9. InBook' = InBook
  <2>1. d \in InBook'
    BY <1>5, <1>1, PurchaseIsSomething DEF InBook
  <2> QED BY <2>1, <1>1, <1>6 DEF InBook
<1>10. \A e \in InBook : /\ docs'[e].columns = docs[e].columns
                         /\ docs'[e].receptor = docs[e].receptor
  BY <1>5, <1>6 DEF InBook
<1>11. BookIsRead'
  <2>1. Live' = Live
    BY <1>1 DEF Live
  <2> QED BY <2>1, <1>1, <1>9, <1>10 DEF BookInv, BookIsRead
<1> QED BY <1>8, <1>9, <1>10, <1>11 DEF BookInv

LEMMA DefaultsKeepBook ==
  ASSUME BookInv, NEW x \in Party, NEW patch \in Patch, UpdateDefaults(x, patch)
  PROVE  BookInv' /\ Live' = Live
<1>1. /\ x \in Live
      /\ defaults' = [defaults EXCEPT ![x] = Patched(@, patch)]
      /\ edits' = edits + 1
      /\ Stir({"criteria"})
      /\ UNCHANGED <<mail, docs, merge, export>>
  BY DEF UpdateDefaults
<1>2. defaults[x] \in Block
  BY <1>1 DEF Live, BookInv, AnnexTypes
<1>3. Patched(defaults[x], patch) \in Block
  BY <1>2, PatchedIsABlock, PatchIsTyped
<1>4. /\ defaults' \in [Party -> Block \cup {Gone}]
      /\ defaults'[x] \in Block
      /\ \A y \in Party \ {x} : defaults'[y] = defaults[y]
  BY <1>1, <1>3 DEF BookInv, AnnexTypes
<1>5. AnnexTypes'
  <2>1. stirred' \subseteq {"purchases", "criteria"}
    BY <1>1, StirIsTyped DEF BookInv
  <2>2. (export = Idle \/ Asked)'
    BY <1>1 DEF BookInv, AnnexTypes, Asked
  <2> QED BY <1>1, <1>4, <2>1, <2>2 DEF BookInv, AnnexTypes, Planned
<1>6. Live' = Live
  BY <1>1, <1>4, Blanks DEF Live
<1>7. BookIsRead'
  BY <1>1, <1>6 DEF BookInv, BookIsRead, InBook
<1> QED BY <1>5, <1>6, <1>7 DEF BookInv

LEMMA PlanKeepsBook ==
  ASSUME BookInv, NEW key \in Key, PlanMerge(key)
  PROVE  BookInv'
<1> DEFINE group == {x \in Live : KeyOf[x] = key}
           canonical == Heaviest(group)
           blocks == {x \in group : defaults[x] # NoBlock}
           update == IF blocks = {} \/ defaults[canonical] # NoBlock THEN <<>>
                     ELSE defaults[Heaviest(blocks)]
<1>1. /\ Cardinality(group) > 1
      /\ merge' = [canonical |-> canonical, absorbed |-> group \ {canonical}, update |-> update]
      /\ UNCHANGED <<mail, docs, defaults, export, stirred, edits>>
  BY DEF PlanMerge, PlanGroup
<1>2. group \in SUBSET Party /\ group \subseteq Live /\ \A x \in group : KeyOf[x] = key
  BY DEF Live
<1>3. group # {}
  BY <1>1, FS_EmptySet
<1>4. canonical \in group
  BY <1>2, <1>3, HeaviestIsThere
<1>5. \A c \in Column \cap DOMAIN update : update[c] \in Code \cup {Null}
  <2>1. CASE blocks = {} \/ defaults[canonical] # NoBlock
    <3>1. DOMAIN <<>> = {}
      OBVIOUS
    <3> QED BY <2>1, <3>1
  <2>2. CASE blocks # {} /\ defaults[canonical] = NoBlock
    <3>1. Heaviest(blocks) \in blocks
      BY <1>2, <2>2, HeaviestIsThere
    <3>2. defaults[Heaviest(blocks)] \in Block
      BY <3>1, <1>2 DEF Live, BookInv, AnnexTypes
    <3>3. update = defaults[Heaviest(blocks)]
      BY <2>2
    <3> QED BY <3>2, <3>3 DEF Block
  <2> QED BY <2>1, <2>2
<1> HIDE DEF group, canonical, update
<1>6. /\ merge'.canonical = canonical /\ merge'.absorbed = group \ {canonical}
      /\ merge'.update = update
  BY <1>1
<1>7. Planned'
  BY <1>2, <1>4, <1>5, <1>6 DEF Planned
<1>8. AnnexTypes'
  BY <1>1, <1>7 DEF BookInv, AnnexTypes, Asked
<1>9. BookIsRead'
  <2>1. /\ canonical \in Live /\ group \ {canonical} \subseteq Live \ {canonical}
        /\ \A x \in group \ {canonical} : KeyOf[x] = KeyOf[canonical]
    BY <1>2, <1>4
  <2> QED BY <1>1, <1>6, <2>1 DEF BookInv, BookIsRead, InBook, Live
<1> QED BY <1>8, <1>9 DEF BookInv

LEMMA MergeKeepsBook ==
  ASSUME BookInv, ApplyMerge
  PROVE  /\ BookInv'
         /\ InBook' = InBook
         /\ \A d \in InBook : /\ docs'[d].columns = docs[d].columns
                              /\ KeyOf[docs'[d].receptor] = KeyOf[docs[d].receptor]
<1> DEFINE moves(d) == d \in InBook /\ docs[d].receptor \in merge.absorbed
<1>1. /\ merge # NoMerge
      /\ docs' = [d \in Doc |-> IF moves(d) THEN [docs[d] EXCEPT !.receptor = merge.canonical]
                                ELSE docs[d]]
      /\ defaults' = [x \in Party |-> CASE x \in merge.absorbed -> Gone
                                        [] x = merge.canonical -> Patched(defaults[x], merge.update)
                                        [] OTHER -> defaults[x]]
      /\ merge' = NoMerge
      /\ Stir({"purchases", "criteria"})
      /\ UNCHANGED <<mail, export, edits>>
  BY DEF ApplyMerge
<1>2. /\ merge.canonical \in Live /\ merge.absorbed \subseteq Live \ {merge.canonical}
      /\ \A x \in merge.absorbed : KeyOf[x] = KeyOf[merge.canonical]
      /\ \A c \in Column \cap DOMAIN merge.update : merge.update[c] \in Code \cup {Null}
  BY <1>1 DEF BookInv, BookIsRead, AnnexTypes, Planned
<1>3. merge.canonical \in Party /\ defaults[merge.canonical] \in Block
  BY <1>2 DEF Live, BookInv, AnnexTypes
<1>4. Patched(defaults[merge.canonical], merge.update) \in Block
  BY <1>2, <1>3, PatchedIsABlock
<1>5. ASSUME NEW x \in Party
      PROVE  /\ x \in merge.absorbed => defaults'[x] = Gone
             /\ x = merge.canonical => defaults'[x] \in Block
             /\ x \notin merge.absorbed /\ x # merge.canonical => defaults'[x] = defaults[x]
  BY <1>1, <1>2, <1>4
<1>6. defaults' \in [Party -> Block \cup {Gone}]
  <2>1. \A x \in Party : defaults'[x] \in Block \cup {Gone}
    BY <1>5, <1>3 DEF BookInv, AnnexTypes
  <2>2. defaults' = [x \in Party |-> defaults'[x]]
    BY <1>1
  <2> QED BY <2>1, <2>2
<1>7. Live' = Live \ merge.absorbed
  <2>1. ASSUME NEW x \in Party PROVE defaults'[x] # Gone <=> defaults[x] # Gone /\ x \notin merge.absorbed
    <3>1. CASE x \in merge.absorbed
      BY <3>1, <1>5
    <3>2. CASE x = merge.canonical
      <4>1. defaults'[x] \in Block /\ defaults[x] \in Block /\ x \notin merge.absorbed
        BY <3>2, <1>2, <1>3, <1>5
      <4> QED BY <4>1, Blanks
    <3>3. CASE x \notin merge.absorbed /\ x # merge.canonical
      BY <3>3, <1>5
    <3> QED BY <3>1, <3>2, <3>3
  <2> QED BY <2>1 DEF Live
<1>8. ASSUME NEW d \in Doc, moves(d)
      PROVE  /\ docs'[d] \in Purchases /\ docs'[d].columns = docs[d].columns
             /\ docs'[d].receptor = merge.canonical
  <2>1. docs[d] \in Purchases
    BY <1>8, PurchaseIsThere DEF BookInv
  <2>2. docs'[d] = [docs[d] EXCEPT !.receptor = merge.canonical]
    BY <1>1, <1>8
  <2> QED BY <2>1, <2>2, <1>3 DEF Purchases
<1>9. \A d \in Doc : ~moves(d) => docs'[d] = docs[d]
  BY <1>1
<1>10. docs' \in [Doc -> Purchases \cup {NoPurchase}]
  <2>1. \A d \in Doc : docs'[d] \in Purchases \cup {NoPurchase}
    BY <1>8, <1>9 DEF BookInv, AnnexTypes
  <2>2. docs' = [d \in Doc |-> docs'[d]]
    BY <1>1
  <2> QED BY <2>1, <2>2
<1>11. AnnexTypes'
  <2>1. stirred' \subseteq {"purchases", "criteria"}
    BY <1>1, StirIsTyped DEF BookInv
  <2>2. (export = Idle \/ Asked)'
    BY <1>1 DEF BookInv, AnnexTypes, Asked
  <2> QED BY <1>1, <1>6, <1>10, <2>1, <2>2 DEF BookInv, AnnexTypes
<1>12. InBook' = InBook
  <2>1. ASSUME NEW d \in Doc, moves(d) PROVE d \in InBook'
    BY <2>1, <1>8, PurchaseIsSomething DEF InBook
  <2> QED BY <2>1, <1>9 DEF InBook
<1>13. ASSUME NEW d \in InBook
       PROVE  /\ docs'[d].columns = docs[d].columns
              /\ KeyOf[docs'[d].receptor] = KeyOf[docs[d].receptor]
              /\ docs'[d].receptor \in Live'
  <2>1. d \in Doc /\ docs[d].receptor \in Live
    BY DEF InBook, BookInv, BookIsRead
  <2>2. CASE moves(d)
    BY <2>1, <2>2, <1>2, <1>7, <1>8
  <2>3. CASE ~moves(d)
    BY <2>1, <2>3, <1>7, <1>9
  <2> QED BY <2>2, <2>3
<1>14. BookIsRead'
  <2>1. \A d \in InBook : mail[d] \in Readable /\ docs[d].columns = Columns(Content[mail[d]])
    BY DEF BookInv, BookIsRead
  <2> QED BY <2>1, <1>1, <1>12, <1>13 DEF BookIsRead
<1> QED BY <1>11, <1>12, <1>13, <1>14 DEF BookInv

-----------------------------------------------------------------------------
(* What a step that is not of the export may do: purchases come or go to   *)
(* another party of their contributor, and what changed is on record for   *)
(* as long as an export is under way.                                      *)
Stirs ==
  /\ export' = export
  /\ \A d \in InBook : /\ d \in InBook'
                       /\ docs'[d].columns = docs[d].columns
                       /\ KeyOf[docs'[d].receptor] = KeyOf[docs[d].receptor]
  /\ export # Idle => stirred \subseteq stirred'
  /\ export # Idle /\ "purchases" \notin stirred' =>
       /\ InBook' = InBook /\ Live' = Live
       /\ \A d \in InBook : docs'[d].receptor = docs[d].receptor
  /\ export # Idle /\ stirred' = {} => docs' = docs /\ defaults' = defaults

LEMMA IngestStirs ==
  ASSUME BookInv, NEW d \in Doc, Ingest(d)
  PROVE  Stirs
<1>1. /\ docs[d] = NoPurchase /\ \A e \in Doc \ {d} : docs'[e] = docs[e]
      /\ docs' \in [Doc -> Purchases \cup {NoPurchase}]
  BY IngestKeepsBook DEF BookInv, AnnexTypes
<1>2. export' = export /\ Stir({"purchases"})
  BY DEF Ingest
<1>3. \A e \in InBook : e \in Doc /\ e # d /\ docs'[e] = docs[e]
  BY <1>1 DEF InBook
<1>4. \A e \in InBook : e \in InBook'
  BY <1>3 DEF InBook
<1>5. export # Idle => stirred' = stirred \cup {"purchases"}
  BY <1>2 DEF Stir
<1> QED BY <1>2, <1>3, <1>4, <1>5 DEF Stirs

LEMMA ClassificationStirs ==
  ASSUME BookInv, NEW d \in Doc, NEW patch \in Patch, UpdateClassification(d, patch)
  PROVE  Stirs
<1>1. /\ InBook' = InBook
      /\ \A e \in InBook : /\ docs'[e].columns = docs[e].columns
                           /\ docs'[e].receptor = docs[e].receptor
  BY ClassificationKeepsBook
<1>2. export' = export /\ Stir({"criteria"}) /\ defaults' = defaults
  BY DEF UpdateClassification
<1>3. export # Idle => stirred' = stirred \cup {"criteria"}
  BY <1>2 DEF Stir
<1> QED BY <1>1, <1>2, <1>3 DEF Stirs, Live

LEMMA DefaultsStir ==
  ASSUME BookInv, NEW x \in Party, NEW patch \in Patch, UpdateDefaults(x, patch)
  PROVE  Stirs
<1>1. export' = export /\ Stir({"criteria"}) /\ docs' = docs /\ Live' = Live
  BY DefaultsKeepBook DEF UpdateDefaults
<1>2. export # Idle => stirred' = stirred \cup {"criteria"}
  BY <1>1 DEF Stir
<1> QED BY <1>1, <1>2 DEF Stirs, InBook

LEMMA PlanStirs ==
  ASSUME NEW key \in Key, PlanMerge(key)
  PROVE  Stirs
BY DEF PlanMerge, Stirs, InBook, Live

LEMMA MergeStirs ==
  ASSUME BookInv, ApplyMerge
  PROVE  Stirs
<1>1. /\ InBook' = InBook
      /\ \A d \in InBook : /\ docs'[d].columns = docs[d].columns
                           /\ KeyOf[docs'[d].receptor] = KeyOf[docs[d].receptor]
  BY MergeKeepsBook
<1>2. export' = export /\ Stir({"purchases", "criteria"})
  BY DEF ApplyMerge
<1>3. export # Idle => stirred' = stirred \cup {"purchases", "criteria"}
  BY <1>2 DEF Stir
<1> QED BY <1>1, <1>2, <1>3 DEF Stirs

LEMMA StutterStirs ==
  ASSUME BookInv, UNCHANGED annexVars
  PROVE  BookInv' /\ Stirs
<1>1. UNCHANGED <<mail, docs, defaults, merge, export, stirred, edits>>
  BY DEF annexVars
<1>2. AnnexTypes'
  BY <1>1 DEF BookInv, AnnexTypes, Asked, Planned
<1>3. BookIsRead'
  BY <1>1 DEF BookInv, BookIsRead, InBook, Live
<1>4. Stirs
  BY <1>1 DEF Stirs, InBook, Live
<1> QED BY <1>2, <1>3, <1>4 DEF BookInv

(* Every step of the annex asks for an export, queries for it, or stirs.   *)
LEMMA AnnexSteps ==
  ASSUME BookInv, [AnnexNext]_annexVars
  PROVE  \/ \E x \in Party, period \in Period, filter \in Filters, allow \in BOOLEAN :
              Request(x, period, filter, allow)
         \/ Query
         \/ BookInv' /\ Stirs
<1>1. CASE UNCHANGED annexVars
  BY <1>1, StutterStirs
<1>2. CASE \E d \in Doc : Ingest(d)
  BY <1>2, IngestKeepsBook, IngestStirs
<1>3. CASE \E d \in Doc, patch \in Patch : UpdateClassification(d, patch)
  BY <1>3, ClassificationKeepsBook, ClassificationStirs
<1>4. CASE \E x \in Party, patch \in Patch : UpdateDefaults(x, patch)
  BY <1>4, DefaultsKeepBook, DefaultsStir
<1>5. CASE \E key \in Key : PlanMerge(key)
  BY <1>5, PlanKeepsBook, PlanStirs
<1>6. CASE ApplyMerge
  BY <1>6, MergeKeepsBook, MergeStirs
<1>7. CASE Query
  BY <1>7
<1>8. CASE AnnexNext
  BY <1>8, <1>2, <1>3, <1>4, <1>5, <1>6, <1>7, AnnexCases DEF Query
<1> QED BY <1>1, <1>8

-----------------------------------------------------------------------------
(* The rows so far: purchases of the contributor, in the order of the      *)
(* annex, the cursor on the last of them.                                  *)
Lines == 1 .. Len(export.rows)
InFile(d) == \E i \in Lines : export.rows[i].doc = d
OfContributor(d) == KeyOf[docs[d].receptor] = KeyOf[export.receptor]

RowsAreOrdered ==
  export # Idle =>
    /\ \A i \in Lines : export.rows[i].doc \in InBook /\ OfContributor(export.rows[i].doc)
    /\ \A i, k \in Lines : i < k => Before(export.rows[i].doc, export.rows[k].doc)
    /\ export.cursor = IF Len(export.rows) = 0 THEN 0 ELSE export.rows[Len(export.rows)].doc
    /\ export.pc \notin {"rows", "done"} => Len(export.rows) = 0

LEMMA RowIsOfDoc == \A d : BuildAnexoRow(d).doc = d
BY DEF BuildAnexoRow

LEMMA QueryKeepsDocs ==
  ASSUME AnnexTypes, Query
  PROVE  /\ Asked /\ export # Idle
         /\ InBook' = InBook /\ Live' = Live /\ docs' = docs /\ defaults' = defaults
         /\ stirred' = stirred
         /\ export'.receptor = export.receptor /\ export'.period = export.period
         /\ export'.filter = export.filter /\ export'.allow = export.allow
<1>1. Asked /\ Quiet
  BY QueryKeeps
<1>2. export # Idle
  BY <1>1 DEF Asked, Idle
<1> QED BY <1>1, <1>2, QueryKeeps DEF Quiet, InBook, Live

LEMMA CursorIsThere ==
  ASSUME AnnexTypes, RowsAreOrdered, export # Idle
  PROVE  export.cursor \in InBook \cup {0}
<1>1. Len(export.rows) \in Nat
  BY DEF AnnexTypes, Asked
<1> QED BY <1>1 DEF RowsAreOrdered, Lines

LEMMA RequestKeepsRows ==
  ASSUME NEW x \in Party, NEW period \in Period, NEW filter \in Filters,
         NEW allow \in BOOLEAN, Request(x, period, filter, allow)
  PROVE  RowsAreOrdered'
<1>1. export'.rows = <<>> /\ export'.cursor = 0 /\ export'.pc = "count"
  BY DEF Request
<1>2. Len(export'.rows) = 0
  BY <1>1
<1> QED BY <1>1, <1>2 DEF RowsAreOrdered, Lines

LEMMA GuardKeepsRows ==
  ASSUME AnnexTypes, RowsAreOrdered, Query, ~NextBatch
  PROVE  RowsAreOrdered'
<1>1. /\ export # Idle /\ InBook' = InBook /\ docs' = docs /\ export'.receptor = export.receptor
  BY QueryKeepsDocs
<1>2. /\ export'.rows = export.rows /\ export'.cursor = export.cursor
      /\ export.pc \notin {"rows", "done"}
  BY GuardSteps DEF Query
<1> QED BY <1>1, <1>2 DEF RowsAreOrdered, Lines, OfContributor, Before

LEMMA StirKeepsRows ==
  ASSUME BookInv, RowsAreOrdered, Stirs
  PROVE  RowsAreOrdered'
<1>1. SUFFICES ASSUME export # Idle PROVE RowsAreOrdered'
  BY DEF RowsAreOrdered, Stirs
<1>2. export' = export
  BY DEF Stirs
<1>3. \A d \in InBook : d \in InBook' /\ docs'[d].columns = docs[d].columns
                        /\ KeyOf[docs'[d].receptor] = KeyOf[docs[d].receptor]
  BY DEF Stirs
<1>4. \A i \in Lines : export.rows[i].doc \in InBook /\ OfContributor(export.rows[i].doc)
  BY <1>1 DEF RowsAreOrdered
<1>5. \A i \in Lines' : export'.rows[i].doc \in InBook' /\ OfContributor(export.rows[i].doc)'
  BY <1>2, <1>3, <1>4 DEF Lines, OfContributor
<1>6. ASSUME NEW d \in InBook, NEW e \in InBook, Before(d, e)
      PROVE  \/ docs'[d].columns.fecEmi < docs'[e].columns.fecEmi
             \/ (docs'[d].columns.fecEmi = docs'[e].columns.fecEmi /\ d < e)
  BY <1>3, <1>6 DEF Before
<1>7. \A i, k \in Lines' : i < k => Before(export.rows[i].doc, export.rows[k].doc)'
  BY <1>1, <1>2, <1>4, <1>6 DEF RowsAreOrdered, Lines, Before
<1> QED BY <1>1, <1>2, <1>5, <1>7 DEF RowsAreOrdered, Lines, OfContributor, Before

(* The file after a batch: the rows it had, and the first m of those found. *)
LEMMA BatchRows ==
  ASSUME AnnexTypes, NEW n \in Nat, NEW S \in SUBSET AfterCursor, NEW m \in 0 .. n,
         TakesBatch(n, S, m)
  PROVE  LET found == FromCursor(Asks)
             size == Len(export.rows)
         IN /\ size \in Nat /\ m \in Nat /\ m <= n
            /\ Lines' = 1 .. size + m
            /\ \A k \in Lines' : k \in Lines \/ (k - size \in 1 .. m /\ k = size + (k - size) /\ k > size)
            /\ \A k \in Lines : k \in Lines' /\ export'.rows[k].doc = export.rows[k].doc
            /\ \A i \in 1 .. m : /\ size + i \in Lines' /\ export'.rows[size + i].doc = found[i]
                                 /\ found[i] \in S /\ i \in 1 .. n
<1> DEFINE found == FromCursor(Asks)
           size == Len(export.rows)
<1>1. /\ Lists(found, n, S)
      /\ Len(export'.rows) = size + m
      /\ \A i \in 1 .. size : export'.rows[i] = export.rows[i]
      /\ \A i \in 1 .. m : export'.rows[size + i] = BuildAnexoRow(found[i])
      /\ export.pc = "rows"
  BY DEF TakesBatch
<1>2. size \in Nat
  BY <1>1 DEF AnnexTypes, Asked, Idle
<1>3. \A i \in 1 .. n : found[i] \in S
  BY <1>1 DEF Lists
<1> HIDE DEF found, size
<1>4. m \in Nat /\ m <= n /\ \A i \in 1 .. m : i \in 1 .. n
  OBVIOUS
<1>5. Lines' = 1 .. size + m /\ Lines = 1 .. size
  BY <1>1 DEF Lines, size
<1>6. \A i \in 1 .. m : export'.rows[size + i].doc = found[i]
  BY <1>1, RowIsOfDoc
<1>7. \A k \in Lines' : \/ k \in Lines
                        \/ (k - size \in 1 .. m /\ k = size + (k - size) /\ k > size)
  BY <1>2, <1>4, <1>5
<1>8. \A k \in Lines : k \in Lines' /\ export'.rows[k].doc = export.rows[k].doc
  BY <1>1, <1>2, <1>4, <1>5
<1>9. \A i \in 1 .. m : size + i \in Lines'
  BY <1>2, <1>4, <1>5
<1> QED BY <1>2, <1>3, <1>4, <1>5, <1>6, <1>7, <1>8, <1>9 DEF found, size

LEMMA BatchKeepsRows ==
  ASSUME AnnexTypes, RowsAreOrdered, NextBatch
  PROVE  RowsAreOrdered' /\ Asked'
<1> DEFINE size == Len(export.rows)
           found == FromCursor(Asks)
<1>1. export # Idle /\ InBook' = InBook /\ docs' = docs /\ export'.receptor = export.receptor
  BY QueryKeepsDocs DEF Query
<1>2. export.cursor \in InBook \cup {0}
  BY <1>1, CursorIsThere
<1>3. PICK n \in Nat : \E S \in SUBSET AfterCursor : \E m \in 0 .. n : TakesBatch(n, S, m)
  BY <1>2, BatchIs
<1>4. PICK S \in SUBSET AfterCursor : \E m \in 0 .. n : TakesBatch(n, S, m)
  BY <1>3
<1>5. PICK m \in 0 .. n : TakesBatch(n, S, m)
  BY <1>4
<1>6. /\ Lists(found, n, S) /\ Asked'
      /\ export'.cursor = IF m = 0 THEN export.cursor ELSE found[m]
      /\ export'.pc \in {"rows", "done"}
  BY <1>5 DEF TakesBatch
<1>7. /\ size \in Nat /\ m \in Nat /\ m <= n
      /\ Lines' = 1 .. size + m
      /\ \A k \in Lines' : k \in Lines \/ (k - size \in 1 .. m /\ k = size + (k - size) /\ k > size)
      /\ \A k \in Lines : k \in Lines' /\ export'.rows[k].doc = export.rows[k].doc
      /\ \A i \in 1 .. m : /\ size + i \in Lines' /\ export'.rows[size + i].doc = found[i]
                           /\ found[i] \in S /\ i \in 1 .. n
  BY <1>5, BatchRows
<1> DEFINE of(i) == export.rows[i].doc
           new(i) == export'.rows[i].doc
<1>8. /\ \A i \in Lines : of(i) \in InBook /\ OfContributor(of(i))
      /\ \A i, k \in Lines : i < k => Before(of(i), of(k))
      /\ export.cursor = IF size = 0 THEN 0 ELSE of(size)
  BY <1>1 DEF RowsAreOrdered
<1>9. Lines = 1 .. size
  BY DEF Lines
<1>10. \A d \in S : /\ d \in InBook /\ OfContributor(d)
                    /\ export.cursor # 0 => Before(export.cursor, d)
  BY DEF AfterCursor, Asks, PurchasesOf, OfContributor
<1>11. Dated
  BY BookIsDated
<1>12. \A i \in 1 .. m : new(size + i) = found[i] /\ found[i] \in S
  BY <1>7
<1>13. \A k \in Lines : new(k) = of(k)
  BY <1>7
<1> HIDE DEF found, size, of, new
<1>14. \A k \in Lines' : new(k) \in InBook /\ OfContributor(new(k))
  <2> TAKE k \in Lines'
  <2>1. CASE k \in Lines
    BY <2>1, <1>8, <1>13
  <2>2. CASE k \notin Lines
    <3>1. k - size \in 1 .. m /\ k = size + (k - size)
      BY <2>2, <1>7
    <3>2. new(k) = found[k - size] /\ found[k - size] \in S
      BY <3>1, <1>12
    <3> QED BY <3>2, <1>10
  <2> QED BY <2>1, <2>2
<1>15. ASSUME NEW i \in Lines, NEW d \in S PROVE Before(of(i), d)
  <2>1. size # 0 /\ size \in Lines /\ (i < size \/ i = size)
    BY <1>7, <1>9
  <2>2. of(size) \in InBook /\ export.cursor = of(size) /\ of(size) # 0
    BY <2>1, <1>8, Sizes DEF InBook, Doc
  <2>3. Before(of(size), d)
    BY <2>2, <1>10
  <2>4. CASE i = size
    BY <2>3, <2>4
  <2>5. CASE i < size
    <3>1. Before(of(i), of(size)) /\ of(i) \in InBook /\ d \in InBook
      BY <2>1, <2>5, <1>8, <1>10
    <3> QED BY <3>1, <2>2, <2>3, <1>11, BeforeIsAnOrder
  <2> QED BY <2>1, <2>4, <2>5
<1>16. \A i, k \in 1 .. m : i < k => Before(found[i], found[k])
  <2>1. \A i, k \in 1 .. n : i < k => Before(found[i], found[k])
    BY <1>6 DEF Lists
  <2> QED BY <2>1, <1>7
<1>17. ASSUME NEW i \in Lines', NEW k \in Lines', i < k PROVE Before(new(i), new(k))
  <2>1. CASE i \in Lines /\ k \in Lines
    BY <2>1, <1>17, <1>8, <1>13
  <2>2. CASE i \in Lines /\ k \notin Lines
    <3>1. k - size \in 1 .. m /\ k = size + (k - size)
      BY <2>2, <1>7
    <3>2. new(k) = found[k - size] /\ found[k - size] \in S
      BY <3>1, <1>12
    <3>3. Before(of(i), found[k - size])
      BY <3>2, <2>2, <1>15
    <3> QED BY <3>2, <3>3, <2>2, <1>13
  <2>3. CASE i \notin Lines
    <3>1. i - size \in 1 .. m /\ i = size + (i - size) /\ i > size
      BY <2>3, <1>7
    <3>2. k \notin Lines
      BY <3>1, <1>17, <1>7, <1>9
    <3>3. k - size \in 1 .. m /\ k = size + (k - size)
      BY <3>2, <1>7
    <3>4. new(i) = found[i - size] /\ new(k) = found[k - size]
      BY <3>1, <3>3, <1>12
    <3>5. i - size < k - size
      BY <3>1, <3>3, <1>7, <1>17
    <3> QED BY <3>1, <3>3, <3>4, <3>5, <1>16
  <2> QED BY <2>1, <2>2, <2>3
<1>18. export'.cursor = IF Len(export'.rows) = 0 THEN 0 ELSE new(Len(export'.rows))
  <2>1. Len(export'.rows) = size + m
    BY <1>5 DEF TakesBatch, size
  <2>2. CASE m = 0
    <3>1. export'.cursor = export.cursor
      BY <1>6, <2>2
    <3>2. Len(export'.rows) = size /\ (size # 0 => size \in Lines)
      BY <2>1, <2>2, <1>7, <1>9
    <3> QED BY <3>1, <3>2, <1>8, <1>13
  <2>3. CASE m # 0
    <3>1. export'.cursor = found[m] /\ m \in 1 .. m
      BY <1>6, <1>7, <2>3
    <3>2. new(size + m) = found[m] /\ size + m # 0
      BY <3>1, <1>7, <1>12
    <3> QED BY <3>1, <3>2, <2>1
  <2> QED BY <2>2, <2>3
<1>19. RowsAreOrdered'
  <2>1. \A i \in Lines' : new(i) \in InBook' /\ OfContributor(export.rows[i].doc)'
    BY <1>1, <1>14 DEF OfContributor, new
  <2>2. \A i, k \in Lines' : i < k => Before(export.rows[i].doc, export.rows[k].doc)'
    BY <1>1, <1>17 DEF Before, new
  <2> QED BY <2>1, <2>2, <1>6, <1>18 DEF RowsAreOrdered, new
<1> QED BY <1>6, <1>19

-----------------------------------------------------------------------------
(* What the guards have seen, of a book that is the one that was asked: the *)
(* count, that nothing asked for is blank, that no sibling has anything to  *)
(* ask, and that what is asked for is in the file or still to come.         *)
AskedElsewhere(d) == OfContributor(d) /\ Where(d) /\ docs[d].receptor # export.receptor

Counted == export.pc # "count" => export.total = Cardinality(Asks)
NothingBlank == export.pc \in {"key", "siblings", "excluded", "rows", "done"} =>
                  /\ Asks # {}
                  /\ Undisturbed /\ ~export.allow => \A d \in Asks : ~Unclassified(d)
SiblingsRead == export.pc = "excluded" => export.siblings = Siblings(export.receptor)
NobodyElse == export.pc \in {"rows", "done"} => \A d \in InBook : ~AskedElsewhere(d)
RowsAreAsked == \A i \in Lines : export.rows[i].doc \in Asks
NoneIsLost ==
  /\ export.pc = "rows" => \A d \in Asks : InFile(d) \/ (export.cursor # 0 => Before(export.cursor, d))
  /\ export.pc = "done" => \A d \in Asks : InFile(d)
RefusedForAReason ==
  export.pc = "refused" /\ Undisturbed =>
    \/ Cardinality(Asks) = 0 \/ Cardinality(Asks) > MaxRows
    \/ ~export.allow /\ \E d \in Asks : Unclassified(d)
    \/ \E d \in InBook : AskedElsewhere(d)

GuardsHold ==
  export # Idle /\ SameBook =>
    /\ Counted /\ NothingBlank /\ SiblingsRead /\ NobodyElse
    /\ RowsAreAsked /\ NoneIsLost /\ RefusedForAReason

AnnexInv == BookInv /\ RowsAreOrdered /\ GuardsHold

(* What is asked for of the book depends on the book and on what was asked. *)
LEMMA QueryKeepsAsks ==
  ASSUME AnnexTypes, Query
  PROVE  /\ Asks' = Asks /\ SameBook' = SameBook /\ Undisturbed' = Undisturbed
         /\ \A d : (AskedElsewhere(d)' <=> AskedElsewhere(d)) /\ (Unclassified(d)' <=> Unclassified(d))
         /\ Siblings(export.receptor)' = Siblings(export.receptor)
<1>1. /\ InBook' = InBook /\ Live' = Live /\ docs' = docs /\ defaults' = defaults
      /\ stirred' = stirred
      /\ export'.receptor = export.receptor /\ export'.period = export.period
      /\ export'.filter = export.filter
  BY QueryKeepsDocs
<1>2. \A d : Unclassified(d)' <=> Unclassified(d)
  BY <1>1 DEF Unclassified, PreEpoch, Unresolved
<1>3. \A d : Where(d)' <=> Where(d)
  BY <1>1 DEF Where, InPeriod, ClassificationFilter, Unclassified, PreEpoch, Unresolved
<1>4. Asks' = Asks
  BY <1>1, <1>3 DEF Asks, PurchasesOf
<1>5. SameBook' = SameBook /\ Undisturbed' = Undisturbed
  BY <1>1 DEF SameBook, Undisturbed
<1>6. \A d : AskedElsewhere(d)' <=> AskedElsewhere(d)
  BY <1>1, <1>3 DEF AskedElsewhere, OfContributor
<1>7. Siblings(export.receptor)' = Siblings(export.receptor)
  BY <1>1 DEF Siblings
<1> QED BY <1>2, <1>4, <1>5, <1>6, <1>7

LEMMA StirKeepsAsks ==
  ASSUME BookInv, export # Idle, Stirs, SameBook'
  PROVE  /\ SameBook /\ InBook' = InBook /\ Live' = Live
         /\ \A d \in InBook : AskedElsewhere(d)' <=> AskedElsewhere(d)
         /\ \A d \in InBook : docs'[d].columns = docs[d].columns
         /\ Asks' = Asks
         /\ Undisturbed' => Undisturbed /\ \A d : Unclassified(d)' <=> Unclassified(d)
<1>1. /\ export' = export /\ stirred \subseteq stirred'
      /\ \A d \in InBook : docs'[d].columns = docs[d].columns
      /\ "purchases" \notin stirred' =>
           /\ InBook' = InBook /\ Live' = Live
           /\ \A d \in InBook : docs'[d].receptor = docs[d].receptor
      /\ stirred' = {} => docs' = docs /\ defaults' = defaults
  BY DEF Stirs
<1>2. stirred' = {} \/ (stirred' = {"criteria"} /\ export.filter = "all")
  BY <1>1 DEF SameBook, Undisturbed
<1>3. /\ InBook' = InBook /\ Live' = Live
      /\ \A d \in InBook : docs'[d].receptor = docs[d].receptor
  BY <1>1, <1>2
<1>4. SameBook
  BY <1>1, <1>2 DEF SameBook, Undisturbed
<1>5. \A d \in InBook : InPeriod(d, export.period)' <=> InPeriod(d, export.period)
  BY <1>1 DEF InPeriod
<1>6. \A d \in InBook : Where(d)' <=> Where(d)
  <2>1. CASE stirred' = {}
    BY <2>1, <1>1 DEF Where, InPeriod, ClassificationFilter, Unclassified, PreEpoch, Unresolved
  <2>2. CASE export.filter = "all"
    BY <2>2, <1>1, <1>5 DEF Where, ClassificationFilter
  <2> QED BY <2>1, <2>2, <1>2
<1>7. Asks' = Asks
  BY <1>1, <1>3, <1>6 DEF Asks, PurchasesOf
<1>8. \A d \in InBook : AskedElsewhere(d)' <=> AskedElsewhere(d)
  BY <1>1, <1>3, <1>6 DEF AskedElsewhere, OfContributor
<1>9. Undisturbed' => Undisturbed /\ \A d : Unclassified(d)' <=> Unclassified(d)
  BY <1>1 DEF Undisturbed, Unclassified, PreEpoch, Unresolved
<1> QED BY <1>1, <1>3, <1>4, <1>7, <1>8, <1>9

LEMMA AsksIsInBook ==
  ASSUME AnnexTypes, export # Idle
  PROVE  /\ Asks \subseteq InBook /\ IsFiniteSet(Asks) /\ Cardinality(Asks) \in Nat
         /\ \A d \in Asks : OfContributor(d) /\ Where(d)
         /\ \A d \in InBook : OfContributor(d) /\ Where(d) => d \in Asks \/ AskedElsewhere(d)
<1>1. Asks \subseteq InBook /\ Asks \in SUBSET Doc
  BY DEF Asks, PurchasesOf, InBook
<1>2. \A d \in InBook : d \in Asks <=> docs[d].receptor = export.receptor /\ Where(d)
  BY DEF Asks, PurchasesOf
<1> QED BY <1>1, <1>2, DocsAreFinite DEF OfContributor, AskedElsewhere

LEMMA RequestKeepsGuards ==
  ASSUME NEW x \in Party, NEW period \in Period, NEW filter \in Filters,
         NEW allow \in BOOLEAN, Request(x, period, filter, allow)
  PROVE  GuardsHold'
<1>1. export'.rows = <<>> /\ export'.cursor = 0 /\ export'.pc = "count"
  BY DEF Request
<1>2. Len(export'.rows) = 0
  BY <1>1
<1> QED BY <1>1, <1>2 DEF GuardsHold, Counted, NothingBlank, SiblingsRead, NobodyElse, RowsAreAsked,
                          NoneIsLost, RefusedForAReason, Lines

LEMMA StirKeepsGuards ==
  ASSUME BookInv, RowsAreOrdered, GuardsHold, Stirs
  PROVE  GuardsHold'
<1>1. SUFFICES ASSUME export # Idle, SameBook' PROVE GuardsHold'
  BY DEF GuardsHold, Stirs
<1>2. export' = export
  BY DEF Stirs
<1>3. /\ SameBook /\ InBook' = InBook /\ Live' = Live
      /\ \A d \in InBook : AskedElsewhere(d)' <=> AskedElsewhere(d)
      /\ \A d \in InBook : docs'[d].columns = docs[d].columns
      /\ Asks' = Asks
      /\ Undisturbed' => Undisturbed /\ \A d : Unclassified(d)' <=> Unclassified(d)
  BY <1>1, StirKeepsAsks
<1>4. /\ Counted /\ NothingBlank /\ SiblingsRead /\ NobodyElse
      /\ RowsAreAsked /\ NoneIsLost /\ RefusedForAReason
  BY <1>1, <1>3 DEF GuardsHold
<1>5. Counted' /\ NothingBlank' /\ NobodyElse' /\ RowsAreAsked'
  BY <1>2, <1>3, <1>4 DEF Counted, NothingBlank, NobodyElse, RowsAreAsked, Lines
<1>6. SiblingsRead'
  BY <1>2, <1>3, <1>4 DEF SiblingsRead, Siblings
<1>7. RefusedForAReason'
  BY <1>2, <1>3, <1>4 DEF RefusedForAReason
<1>8. NoneIsLost'
  <2>1. export.cursor \in InBook \cup {0} /\ Asks \subseteq InBook
    BY <1>1, CursorIsThere, AsksIsInBook DEF BookInv
  <2>2. \A d, e \in InBook : Before(d, e)' <=> Before(d, e)
    BY <1>3 DEF Before
  <2>3. ASSUME NEW d \in Asks, export.cursor # 0
        PROVE  Before(export.cursor, d)' <=> Before(export.cursor, d)
    BY <2>1, <2>2, <2>3, <1>2 DEF Before
  <2>4. \A d : InFile(d)' <=> InFile(d)
    BY <1>2 DEF InFile, Lines
  <2> QED BY <2>3, <2>4, <1>2, <1>3, <1>4 DEF NoneIsLost
<1> QED BY <1>4, <1>5, <1>6, <1>7, <1>8 DEF GuardsHold

(* The purchases of the contributor under another party are the siblings'. *)
LEMMA ElsewhereIsExcluded ==
  ASSUME BookInv, export # Idle, NEW d \in InBook
  PROVE  AskedElsewhere(d) <=> d \in PurchasesOf(Siblings(export.receptor))
<1>1. docs[d].receptor \in Live
  BY DEF BookInv, BookIsRead
<1>2. d \in PurchasesOf(Siblings(export.receptor))
        <=> docs[d].receptor \in Siblings(export.receptor) /\ Where(d)
  BY DEF PurchasesOf
<1>3. docs[d].receptor \in Siblings(export.receptor)
        <=> OfContributor(d) /\ docs[d].receptor # export.receptor
  BY <1>1 DEF Siblings, OfContributor
<1> QED BY <1>2, <1>3 DEF AskedElsewhere

LEMMA GuardKeepsGuards ==
  ASSUME BookInv, RowsAreOrdered, GuardsHold, Query, ~NextBatch
  PROVE  GuardsHold'
<1>1. SUFFICES ASSUME SameBook' PROVE GuardsHold'
  BY DEF GuardsHold
<1>2. AnnexTypes /\ Asked /\ export # Idle /\ export'.allow = export.allow
  BY QueryKeepsDocs DEF BookInv
<1>3. /\ Asks' = Asks /\ SameBook /\ Undisturbed' = Undisturbed /\ InBook' = InBook
      /\ \A d : (AskedElsewhere(d)' <=> AskedElsewhere(d)) /\ (Unclassified(d)' <=> Unclassified(d))
      /\ Siblings(export.receptor)' = Siblings(export.receptor)
  BY <1>1, <1>2, QueryKeepsAsks, QueryKeepsDocs
<1>4. /\ Counted /\ NothingBlank /\ SiblingsRead /\ NobodyElse
      /\ RowsAreAsked /\ NoneIsLost /\ RefusedForAReason
  BY <1>2, <1>3 DEF GuardsHold
<1>5. /\ Asks \subseteq InBook /\ Cardinality(Asks) \in Nat
      /\ Cardinality(Asks) = 0 <=> Asks = {}
  BY <1>2, AsksIsInBook, FS_EmptySet
<1>6. /\ export'.rows = export.rows /\ export'.cursor = export.cursor
      /\ CountAll => export.pc = "count" /\ export'.pc = "pending"
                     /\ export'.total = Cardinality(PurchasesOf({export.receptor}))
      /\ ~CountAll => export'.total = export.total
      /\ CountUnclassified => export.pc = "pending" /\ export'.pc \in {"refused", "key"}
      /\ ReadKey => export.pc = "key" /\ export'.pc \in {"siblings", "rows"}
      /\ ReadSiblings => export.pc = "siblings" /\ export'.pc \in {"rows", "excluded"}
      /\ CountExcluded => export.pc = "excluded" /\ export'.pc \in {"refused", "rows"}
      /\ ~ReadSiblings => export'.siblings = export.siblings
  BY <1>2, GuardSteps
<1>7. Len(export'.rows) = 0 /\ export'.cursor = 0 /\ Lines' = {} /\ Len(export.rows) = 0
  <2>1. Len(export.rows) = 0 /\ export.cursor = 0
    BY <1>2, <1>6 DEF RowsAreOrdered, Query
  <2> QED BY <2>1, <1>6 DEF Lines
<1>8. Counted'
  BY <1>3, <1>4, <1>6 DEF Counted, Asks, Query
<1>9. RowsAreAsked'
  BY <1>7 DEF RowsAreAsked
<1>10. NoneIsLost'
  BY <1>6, <1>7 DEF NoneIsLost, Query
<1>11. ASSUME CountUnclassified
       PROVE  /\ export'.pc = "refused" =>
                   \/ Cardinality(Asks) = 0 \/ Cardinality(Asks) > MaxRows
                   \/ ~export.allow /\ \E d \in Asks : Unclassified(d)
              /\ export'.pc = "key" =>
                   Asks # {} /\ (~export.allow => \A d \in Asks : ~Unclassified(d))
  <2> DEFINE unclassified == {d \in Asks : Unclassified(d)}
             stops == \/ export.total = 0
                      \/ export.total > MaxRows
                      \/ unclassified # {} /\ ~export.allow
  <2>1. export.total = Cardinality(Asks)
    BY <1>4, <1>6, <1>11 DEF Counted
  <2>2. export' = IF stops THEN [export EXCEPT !.pc = "refused"] ELSE [export EXCEPT !.pc = "key"]
    BY <1>11 DEF CountUnclassified, Asks, Refuse
  <2>3. "pc" \in DOMAIN export
    BY <1>2 DEF Asked
  <2>4. export'.pc = IF stops THEN "refused" ELSE "key"
    <3> HIDE DEF stops
    <3> QED BY <2>2, <2>3
  <2>5. unclassified # {} <=> \E d \in Asks : Unclassified(d)
    OBVIOUS
  <2> HIDE DEF unclassified
  <2> QED BY <2>1, <2>4, <2>5, <1>5
<1>12. ReadKey => export'.pc = "siblings"
  <2>1. SUFFICES ASSUME ReadKey PROVE export'.pc = "siblings"
    OBVIOUS
  <2>2. PICK d \in Asks : TRUE
    BY <2>1, <1>4, <1>6 DEF NothingBlank
  <2>3. d \in InBook /\ docs[d].receptor = export.receptor
    BY DEF Asks, PurchasesOf
  <2>4. export.receptor \in Live
    BY <2>3 DEF BookInv, BookIsRead
  <2> QED BY <2>1, <2>4, <1>2 DEF ReadKey, Asked
<1>13. ReadSiblings =>
         /\ export'.siblings = Siblings(export.receptor)
         /\ export'.pc = "rows" => Siblings(export.receptor) = {}
  BY <1>2 DEF ReadSiblings, Asked
<1>14. ASSUME CountExcluded
       PROVE  /\ export'.pc = "rows" => \A d \in InBook : ~AskedElsewhere(d)
              /\ export'.pc = "refused" => \E d \in InBook : AskedElsewhere(d)
  <2>2. Excluded = PurchasesOf(Siblings(export.receptor))
    BY <1>14, <1>4, <1>6 DEF SiblingsRead, Excluded
  <2>3. Excluded \subseteq InBook
    BY DEF Excluded, PurchasesOf
  <2>4. \A d \in InBook : AskedElsewhere(d) <=> d \in Excluded
    BY <2>2, <1>2, ElsewhereIsExcluded
  <2>5. export'.pc = IF Excluded # {} THEN "refused" ELSE "rows"
    BY <1>14, <1>2 DEF CountExcluded, Refuse, Asked
  <2> QED BY <2>3, <2>4, <2>5
<1>15. NothingBlank'
  BY <1>2, <1>3, <1>4, <1>6, <1>11 DEF NothingBlank, Query
<1>16. SiblingsRead'
  BY <1>3, <1>6, <1>13 DEF SiblingsRead, Query
<1>17. NobodyElse'
  <2>1. Siblings(export.receptor) = {} => \A d \in InBook : ~AskedElsewhere(d)
    BY <1>2, ElsewhereIsExcluded DEF PurchasesOf
  <2> QED BY <2>1, <1>3, <1>6, <1>12, <1>13, <1>14 DEF NobodyElse, Query
<1>18. RefusedForAReason'
  BY <1>2, <1>3, <1>6, <1>11, <1>14 DEF RefusedForAReason, Query
<1> QED BY <1>8, <1>9, <1>10, <1>15, <1>16, <1>17, <1>18 DEF GuardsHold

(* A file of purchases that were asked for, none twice, has them all when   *)
(* it has as many.                                                          *)
LEMMA AsManyIsAll ==
  ASSUME Dated, NEW S \in SUBSET InBook, NEW n \in Nat, NEW q,
         \A i \in 1 .. n : q[i] \in S,
         \A i, k \in 1 .. n : i < k => Before(q[i], q[k]),
         n >= Cardinality(S)
  PROVE  \A d \in S : \E i \in 1 .. n : q[i] = d
<1> DEFINE taken == {q[i] : i \in 1 .. n}
           place == [i \in 1 .. n |-> q[i]]
<1>1. IsFiniteSet(S) /\ Cardinality(S) \in Nat
  <2>1. S \in SUBSET Doc
    BY DEF InBook
  <2> QED BY <2>1, DocsAreFinite
<1>2. taken \subseteq S
  OBVIOUS
<1>3. \A i, k \in 1 .. n : q[i] = q[k] => i = k
  <2> TAKE i, k \in 1 .. n
  <2>1. q[i] \in InBook /\ ~Before(q[i], q[i])
    BY BeforeIsAnOrder
  <2>2. i < k \/ k < i \/ i = k
    OBVIOUS
  <2> QED BY <2>1, <2>2
<1>4. place \in [1 .. n -> taken]
  OBVIOUS
<1>5. place \in Bijection(1 .. n, taken)
  BY <1>3, <1>4 DEF Bijection, Injection, Surjection, IsInjective
<1>6. Cardinality(taken) = n
  BY <1>5, FS_CountingElements DEF ExistsBijection
<1>7. Cardinality(taken) <= Cardinality(S) /\ (Cardinality(taken) = Cardinality(S) => taken = S)
  BY <1>1, <1>2, FS_Subset
<1> QED BY <1>1, <1>6, <1>7

LEMMA BatchKeepsGuards ==
  ASSUME BookInv, RowsAreOrdered, GuardsHold, NextBatch
  PROVE  GuardsHold'
<1> DEFINE size == Len(export.rows)
           found == FromCursor(Asks)
           new(i) == export'.rows[i].doc
<1>1. SUFFICES ASSUME SameBook' PROVE GuardsHold'
  BY DEF GuardsHold
<1>2. AnnexTypes /\ Query /\ export # Idle /\ docs' = docs /\ export'.allow = export.allow
  BY QueryKeepsDocs DEF BookInv, Query
<1>3. /\ Asks' = Asks /\ SameBook /\ Undisturbed' = Undisturbed /\ InBook' = InBook
      /\ \A d : (AskedElsewhere(d)' <=> AskedElsewhere(d)) /\ (Unclassified(d)' <=> Unclassified(d))
  BY <1>1, <1>2, QueryKeepsAsks, QueryKeepsDocs
<1>4. /\ Counted /\ NothingBlank /\ NobodyElse /\ RowsAreAsked /\ NoneIsLost
  BY <1>2, <1>3 DEF GuardsHold
<1>5. export.cursor \in InBook \cup {0}
  BY <1>2, CursorIsThere
<1>6. PICK n \in Nat : \E S \in SUBSET AfterCursor : \E m \in 0 .. n : TakesBatch(n, S, m)
  BY <1>2, <1>5, BatchIs
<1>7. PICK S \in SUBSET AfterCursor : \E m \in 0 .. n : TakesBatch(n, S, m)
  BY <1>6
<1>8. PICK m \in 0 .. n : TakesBatch(n, S, m)
  BY <1>7
<1>9. /\ Lists(found, n, S)
      /\ export.cursor \in Asks \cup {0} => S = AfterCursor
      /\ m = BatchSize \/ (m < BatchSize /\ m = n)
      /\ Len(export'.rows) = size + m
      /\ export'.cursor = IF m = 0 THEN export.cursor ELSE found[m]
      /\ export.pc = "rows"
      /\ export'.pc = IF m < BatchSize \/ size + m >= export.total THEN "done" ELSE "rows"
      /\ export'.total = export.total
  BY <1>8 DEF TakesBatch
<1>10. /\ size \in Nat /\ m \in Nat /\ m <= n
       /\ Lines' = 1 .. size + m
       /\ \A k \in Lines' : k \in Lines \/ (k - size \in 1 .. m /\ k = size + (k - size) /\ k > size)
       /\ \A k \in Lines : k \in Lines' /\ new(k) = export.rows[k].doc
       /\ \A i \in 1 .. m : /\ size + i \in Lines' /\ new(size + i) = found[i]
                            /\ found[i] \in S /\ i \in 1 .. n
  BY <1>2, <1>8, BatchRows
<1>11. Asks \in SUBSET InBook /\ Dated
  <2>1. Asks \subseteq InBook
    BY <1>2, AsksIsInBook
  <2> QED BY <2>1, <1>2, BookIsDated
<1>12. S \subseteq Asks
  BY DEF AfterCursor
<1>13. S = AfterCursor
  <2>1. export.cursor = IF size = 0 THEN 0 ELSE export.rows[size].doc
    BY <1>2 DEF RowsAreOrdered
  <2>2. size # 0 => size \in Lines
    BY <1>10 DEF Lines
  <2> QED BY <2>1, <2>2, <1>4, <1>9 DEF RowsAreAsked
<1> HIDE DEF found, new, size
<1>14. \A i \in Lines' : new(i) \in Asks
  <2> TAKE i \in Lines'
  <2>1. CASE i \in Lines
    BY <2>1, <1>4, <1>10 DEF RowsAreAsked
  <2>2. CASE i \notin Lines
    <3>1. i - size \in 1 .. m /\ i = size + (i - size)
      BY <2>2, <1>10
    <3>2. new(i) = found[i - size] /\ found[i - size] \in S
      BY <3>1, <1>10
    <3> QED BY <3>2, <1>12
  <2> QED BY <2>1, <2>2
<1>15. ASSUME NEW d \in Asks, export'.pc = "rows"
       PROVE  (\E i \in Lines' : new(i) = d) \/ (export'.cursor # 0 /\ Before(export'.cursor, d))
  <2>1. m = BatchSize /\ m # 0 /\ m \in 1 .. n /\ m \in 1 .. m
    BY <1>9, <1>10, <1>15, Sizes
  <2>2. export'.cursor = found[m] /\ found[m] \in InBook
    BY <2>1, <1>9, <1>10, <1>11, <1>12
  <2>3. CASE InFile(d)
    BY <2>3, <1>10 DEF InFile
  <2>4. CASE d \in AfterCursor
    <3>1. PICK i \in 1 .. n : found[i] = d
      BY <2>4, <1>9, <1>13 DEF Lists
    <3>2. CASE i <= m
      <4>1. i \in 1 .. m
        BY <3>2, <1>10
      <4> QED BY <4>1, <3>1, <1>10
    <3>3. CASE i > m
      <4>1. Before(found[m], found[i])
        BY <3>3, <2>1, <1>9 DEF Lists
      <4>2. found[m] # 0
        BY <2>2, Sizes DEF InBook, Doc
      <4> QED BY <4>1, <4>2, <3>1, <2>2
    <3> QED BY <3>2, <3>3, <1>10
  <2>5. InFile(d) \/ d \in AfterCursor
    BY <1>4, <1>9 DEF NoneIsLost, AfterCursor
  <2> QED BY <2>3, <2>4, <2>5
<1>16. ASSUME NEW d \in Asks, export'.pc = "done"
       PROVE  \E i \in Lines' : new(i) = d
  <2>1. CASE m < BatchSize
    <3>1. m = n
      BY <2>1, <1>9, Sizes, <1>10
    <3>2. CASE InFile(d)
      BY <3>2, <1>10 DEF InFile
    <3>3. CASE d \in AfterCursor
      <4>1. PICK i \in 1 .. n : found[i] = d
        BY <3>3, <1>9, <1>13 DEF Lists
      <4> QED BY <4>1, <3>1, <1>10
    <3>4. InFile(d) \/ d \in AfterCursor
      BY <1>4, <1>9 DEF NoneIsLost, AfterCursor
    <3> QED BY <3>2, <3>3, <3>4
  <2>2. CASE ~(m < BatchSize)
    <3> DEFINE q == [i \in Lines' |-> new(i)]
    <3>1. size + m >= Cardinality(Asks) /\ size + m \in Nat
      BY <2>2, <1>4, <1>9, <1>10, <1>16 DEF Counted
    <3>2. \A i, k \in 1 .. size + m : i < k => Before(q[i], q[k])
      <4>1. RowsAreOrdered'
        BY <1>2, BatchKeepsRows
      <4>2. export' # Idle
        BY <1>2, BatchKeepsRows DEF Asked, Idle
      <4>3. \A i, k \in Lines' : i < k => Before(export.rows[i].doc, export.rows[k].doc)'
        BY <4>1, <4>2 DEF RowsAreOrdered
      <4>4. \A i, k \in Lines' : i < k => Before(new(i), new(k))
        BY <4>3, <1>2 DEF Before, new
      <4> QED BY <4>4, <1>10
    <3>3. \A i \in 1 .. size + m : q[i] \in Asks
      BY <1>10, <1>14
    <3> HIDE DEF q
    <3>4. PICK i \in 1 .. size + m : q[i] = d
      BY <3>1, <3>2, <3>3, <1>11, AsManyIsAll
    <3> QED BY <3>4, <1>10 DEF q
  <2> QED BY <2>1, <2>2
<1>17. export'.pc \in {"rows", "done"}
  BY <1>9
<1>18. NoneIsLost'
  <2>1. \A d : InFile(d)' <=> \E i \in Lines' : new(i) = d
    BY DEF InFile, new
  <2>2. \A d \in Asks : export'.pc = "rows" => InFile(d)' \/ (export'.cursor # 0 => Before(export.cursor, d)')
    BY <2>1, <1>2, <1>15 DEF Before
  <2>3. \A d \in Asks : export'.pc = "done" => InFile(d)'
    BY <2>1, <1>16
  <2> QED BY <2>2, <2>3, <1>3 DEF NoneIsLost
<1>19. Counted' /\ NothingBlank' /\ NobodyElse'
  BY <1>2, <1>3, <1>4, <1>9, <1>17 DEF Counted, NothingBlank, NobodyElse
<1>20. SiblingsRead' /\ RefusedForAReason'
  BY <1>17 DEF SiblingsRead, RefusedForAReason
<1>21. RowsAreAsked'
  BY <1>3, <1>14 DEF RowsAreAsked, new
<1> QED BY <1>18, <1>19, <1>20, <1>21 DEF GuardsHold

LEMMA AnnexInvHolds == AnnexSpec => []AnnexInv
<1>1. AnnexInit => AnnexInv
  <2>1. AnnexInit => export = Idle
    BY DEF AnnexInit
  <2> QED BY <2>1, BookInit DEF AnnexInv, RowsAreOrdered, GuardsHold
<1>2. AnnexInv /\ [AnnexNext]_annexVars => AnnexInv'
  <2> SUFFICES ASSUME AnnexInv, [AnnexNext]_annexVars PROVE AnnexInv'
    OBVIOUS
  <2>1. BookInv /\ AnnexTypes /\ RowsAreOrdered /\ GuardsHold
    BY DEF AnnexInv, BookInv
  <2>2. CASE \E x \in Party, period \in Period, filter \in Filters, allow \in BOOLEAN :
               Request(x, period, filter, allow)
    BY <2>1, <2>2, RequestKeepsBook, RequestKeepsRows, RequestKeepsGuards DEF AnnexInv
  <2>3. CASE Query /\ ~NextBatch
    <3>1. Asked' /\ RowsAreOrdered' /\ GuardsHold'
      BY <2>1, <2>3, GuardSteps, GuardKeepsRows, GuardKeepsGuards
    <3> QED BY <3>1, <2>1, <2>3, QueryKeepsBook DEF AnnexInv
  <2>4. CASE NextBatch
    <3>1. Query
      BY <2>4 DEF Query
    <3>2. Asked' /\ RowsAreOrdered' /\ GuardsHold'
      BY <2>1, <2>4, BatchKeepsRows, BatchKeepsGuards
    <3> QED BY <3>1, <3>2, <2>1, QueryKeepsBook DEF AnnexInv
  <2>5. CASE BookInv' /\ Stirs
    BY <2>1, <2>5, StirKeepsRows, StirKeepsGuards DEF AnnexInv
  <2> QED BY <2>1, <2>2, <2>3, <2>4, <2>5, AnnexSteps
<1> QED BY <1>1, <1>2, PTL DEF AnnexSpec

-----------------------------------------------------------------------------
(* A row has a blank cell when its purchase is one of those that the query *)
(* of the unclassified finds.                                              *)
LEMMA CellIsBlank ==
  ASSUME NEW override \in Code \cup {Null}, NEW fallback \in Code \cup {Null}, NEW preEpoch \in BOOLEAN
  PROVE  ResolveColumn(override, fallback, preEpoch) = ""
           <=> ~preEpoch /\ override = Null /\ fallback = Null
<1>1. CASE preEpoch
  BY <1>1 DEF ResolveColumn
<1>2. CASE ~preEpoch /\ override # Null
  <2>1. ResolveColumn(override, fallback, preEpoch) = override
    BY <1>2 DEF ResolveColumn
  <2> QED BY <1>2, <2>1, Blanks
<1>3. CASE ~preEpoch /\ override = Null /\ fallback # Null
  <2>1. ResolveColumn(override, fallback, preEpoch) = fallback
    BY <1>3 DEF ResolveColumn
  <2> QED BY <1>3, <2>1, Blanks
<1>4. CASE ~preEpoch /\ override = Null /\ fallback = Null
  BY <1>4 DEF ResolveColumn
<1> QED BY <1>1, <1>2, <1>3, <1>4

LEMMA BlankIsUnclassified ==
  ASSUME BookInv, NEW d \in InBook
  PROVE  Blank(d) <=> Unclassified(d)
<1> DEFINE anexo == docs[d].anexo
           own == defaults[docs[d].receptor]
           cells == [c \in Column |-> ResolveColumn(anexo[c], own[c], PreEpoch(d))]
<1>1. BuildAnexoRow(d).flags.incomplete = \E c \in Column : cells[c] = ""
  BY DEF BuildAnexoRow
<1>2. anexo \in Block
  BY PurchaseIsThere DEF BookInv, InBook, Purchases
<1>3. own \in Block
  BY DEF BookInv, BookIsRead, Live, AnnexTypes
<1> HIDE DEF anexo, own
<1>4. PreEpoch(d) \in BOOLEAN
  BY DEF PreEpoch
<1>5. ASSUME NEW c \in Column
      PROVE  cells[c] = "" <=> ~PreEpoch(d) /\ anexo[c] = Null /\ own[c] = Null
  <2>1. anexo[c] \in Code \cup {Null} /\ own[c] \in Code \cup {Null}
    BY <1>2, <1>3 DEF Block
  <2>2. cells[c] = ResolveColumn(anexo[c], own[c], PreEpoch(d))
    OBVIOUS
  <2> QED BY <2>1, <2>2, <1>4, CellIsBlank
<1> HIDE DEF cells
<1>6. Unresolved(d) <=> \E c \in Column : anexo[c] = Null /\ own[c] = Null
  BY DEF Unresolved, anexo, own
<1> QED BY <1>1, <1>5, <1>6 DEF Blank, Unclassified

LEMMA WantedIs ==
  ASSUME BookInv, export # Idle, NEW d \in InBook
  PROVE  Wanted(d) <=> OfContributor(d) /\ Where(d)
<1>1. export.filter \in Filters
  BY DEF BookInv, AnnexTypes, Asked
<1>2. BuildAnexoRow(d).flags.incomplete <=> Unclassified(d)
  BY BlankIsUnclassified DEF Blank
<1>3. Unclassified(d) <=> ~(PreEpoch(d) \/ ~Unresolved(d))
  BY DEF Unclassified
<1>4. CASE export.filter = "all"
  BY <1>4 DEF Wanted, OfContributor, Where, ClassificationFilter
<1>5. CASE export.filter = "classified"
  BY <1>2, <1>3, <1>5 DEF Wanted, OfContributor, Where, ClassificationFilter
<1>6. CASE export.filter = "unclassified"
  BY <1>2, <1>6 DEF Wanted, OfContributor, Where, ClassificationFilter
<1> QED BY <1>1, <1>4, <1>5, <1>6 DEF Filters

LEMMA WantedIsAsked ==
  ASSUME BookInv, export # Idle
  PROVE  /\ WantedDocs \subseteq InBook /\ Asks \subseteq WantedDocs
         /\ IsFiniteSet(WantedDocs) /\ Cardinality(WantedDocs) \in Nat
         /\ \A d \in WantedDocs : d \in Asks \/ AskedElsewhere(d)
         /\ \A d \in InBook : AskedElsewhere(d) => d \in WantedDocs
<1>1. WantedDocs \subseteq InBook
  BY DEF WantedDocs
<1>2. WantedDocs \in SUBSET Doc
  BY DEF WantedDocs, InBook
<1>3. \A d \in InBook : d \in WantedDocs <=> OfContributor(d) /\ Where(d)
  BY WantedIs DEF WantedDocs
<1>4. /\ Asks \subseteq InBook
      /\ \A d \in Asks : OfContributor(d) /\ Where(d)
      /\ \A d \in InBook : OfContributor(d) /\ Where(d) => d \in Asks \/ AskedElsewhere(d)
  BY AsksIsInBook DEF BookInv
<1> QED BY <1>1, <1>2, <1>3, <1>4, DocsAreFinite DEF AskedElsewhere

LEMMA WholeFromInv ==
  ASSUME AnnexInv
  PROVE  FileIsWhole
<1> DEFINE size == Len(export.rows)
<1>1. BookInv /\ RowsAreOrdered /\ GuardsHold /\ AnnexTypes
  BY DEF AnnexInv, BookInv
<1>2. SUFFICES ASSUME export # Idle PROVE FileIsWhole
  <2>1. export = Idle => export.pc = "idle"
    BY DEF Idle
  <2> QED BY <2>1 DEF FileIsWhole
<1>3. /\ size \in Nat /\ export.rows = [i \in 1 .. size |-> export.rows[i]]
      /\ Lines = 1 .. size
  BY <1>1, <1>2 DEF AnnexTypes, Asked, Lines
<1>4. FileDocs = [i \in 1 .. size |-> export.rows[i].doc]
  <2>1. DOMAIN export.rows = 1 .. size
    BY <1>3
  <2> QED BY <2>1 DEF FileDocs
<1>5. /\ WantedDocs \subseteq InBook /\ Asks \subseteq WantedDocs
      /\ IsFiniteSet(WantedDocs) /\ Cardinality(WantedDocs) \in Nat
      /\ \A d \in WantedDocs : d \in Asks \/ AskedElsewhere(d)
      /\ \A d \in InBook : AskedElsewhere(d) => d \in WantedDocs
  BY <1>1, <1>2, WantedIsAsked
<1>6. ASSUME export.pc = "done", SameBook
      PROVE  FileDocs = Ordered(WantedDocs) /\ WantedDocs = Asks
  <2>1. RowsAreAsked /\ NoneIsLost /\ NobodyElse
    BY <1>1, <1>2, <1>6 DEF GuardsHold
  <2>2. WantedDocs = Asks
    BY <2>1, <1>5, <1>6 DEF NobodyElse
  <2>3. \A i \in 1 .. size : FileDocs[i] \in WantedDocs
    BY <2>1, <2>2, <1>3, <1>4 DEF RowsAreAsked
  <2>4. \A i, k \in 1 .. size : i < k => Before(FileDocs[i], FileDocs[k])
    <3>1. \A i, k \in 1 .. size : i < k => Before(export.rows[i].doc, export.rows[k].doc)
      BY <1>1, <1>2, <1>3 DEF RowsAreOrdered
    <3> QED BY <3>1, <1>4
  <2>5. \A d \in WantedDocs : \E i \in 1 .. size : FileDocs[i] = d
    BY <2>1, <2>2, <1>3, <1>4, <1>6 DEF NoneIsLost, InFile
  <2>6. FileDocs = [i \in 1 .. size |-> FileDocs[i]]
    BY <1>4
  <2>7. Lists(FileDocs, size, WantedDocs)
    BY <2>3, <2>4, <2>5, <2>6 DEF Lists
  <2>8. Dated
    BY <1>1, BookIsDated
  <2> QED BY <2>2, <2>7, <2>8, <1>3, <1>5, OneOrder
<1>7. ASSUME export.pc = "done", Undisturbed, ~export.allow, NEW d \in WantedDocs
      PROVE  ~Blank(d)
  <2>1. SameBook
    BY <1>7 DEF SameBook
  <2>2. NothingBlank /\ d \in Asks
    BY <2>1, <1>1, <1>2, <1>6, <1>7 DEF GuardsHold
  <2>3. ~Unclassified(d)
    BY <2>2, <1>7 DEF NothingBlank
  <2> QED BY <2>3, <1>1, <1>5, BlankIsUnclassified
<1>8. ASSUME export.pc = "refused", Undisturbed
      PROVE  \/ Cardinality(WantedDocs) \notin 1 .. MaxRows
             \/ \E d \in WantedDocs : docs[d].receptor # export.receptor
             \/ ~export.allow /\ \E d \in WantedDocs : Blank(d)
  <2>1. RefusedForAReason
    BY <1>1, <1>2, <1>8 DEF GuardsHold, SameBook
  <2>2. CASE \E d \in WantedDocs : AskedElsewhere(d)
    BY <2>2 DEF AskedElsewhere
  <2>3. CASE ~ \E d \in WantedDocs : AskedElsewhere(d)
    <3>1. WantedDocs = Asks
      BY <2>3, <1>5
    <3>2. CASE Cardinality(Asks) = 0 \/ Cardinality(Asks) > MaxRows
      BY <3>1, <3>2, <1>5, Sizes
    <3>3. CASE ~export.allow /\ \E d \in Asks : Unclassified(d)
      BY <3>1, <3>3, <1>1, <1>5, BlankIsUnclassified
    <3> QED BY <2>1, <2>3, <3>2, <3>3, <1>5, <1>8 DEF RefusedForAReason
  <2> QED BY <2>2, <2>3
<1>9. ASSUME NEW i \in DOMAIN FileDocs
      PROVE  /\ KeyOf[docs[FileDocs[i]].receptor] = KeyOf[export.receptor]
             /\ \A k \in 1 .. (i - 1) : Before(FileDocs[k], FileDocs[i])
  <2>1. i \in 1 .. size /\ FileDocs[i] = export.rows[i].doc
    BY <1>4
  <2>2. \A k \in 1 .. (i - 1) : k \in 1 .. size /\ k < i /\ FileDocs[k] = export.rows[k].doc
    BY <2>1, <1>3, <1>4
  <2> QED BY <2>1, <2>2, <1>1, <1>2, <1>3 DEF RowsAreOrdered, OfContributor
<1> QED BY <1>6, <1>7, <1>8, <1>9 DEF FileIsWhole

(* The book an export reads: its purchases have the columns of their own    *)
(* documents and hang from parties that are there, and a planned merge       *)
(* joins parties of one contributor, whatever was ingested, classified or   *)
(* merged before.                                                           *)
THEOREM BookIsThere == AnnexSpec => []BookInv
<1>1. AnnexInv => BookInv
  BY DEF AnnexInv
<1> QED BY <1>1, AnnexInvHolds, PTL

(* An export asked for on any book and followed by nothing that changes its  *)
(* purchases or their classification is refused for a reason or has every   *)
(* purchase of the filter, in the order of the annex; and whatever happens   *)
(* meanwhile, no purchase comes twice or from another contributor.          *)
THEOREM AnnexIsWhole == AnnexSpec => []FileIsWhole
BY WholeFromInv, AnnexInvHolds, PTL

-----------------------------------------------------------------------------
(* Sums. The credit of a document is a fold over the places of its taxes,   *)
(* from the last one down, and what it states is a sum over some of them,   *)
(* picked in any order. There is one function that is the sum of w over     *)
(* every set of places, whichever of them is taken off first; both are it.  *)

Adds(sum, w, n) ==
  /\ sum \in [SUBSET (1 .. n) -> Int]
  /\ sum[{}] = 0
  /\ \A s \in SUBSET (1 .. n) : \A x \in s : sum[s] = w[x] + sum[s \ {x}]

LEMMA SumGrows ==
  ASSUME NEW n \in Nat, NEW w \in [1 .. n -> Int], NEW k \in 1 .. n, NEW sum, Adds(sum, w, k - 1)
  PROVE  \E more : Adds(more, w, k)
<1> DEFINE less(s) == s \ {k}
           more == [s \in SUBSET (1 .. k) |-> IF k \in s THEN w[k] + sum[less(s)] ELSE sum[s]]
<1>1. /\ sum \in [SUBSET (1 .. k - 1) -> Int] /\ sum[{}] = 0
      /\ \A s \in SUBSET (1 .. k - 1) : \A x \in s : sum[s] = w[x] + sum[s \ {x}]
  BY DEF Adds
<1>2. \A s \in SUBSET (1 .. k) : /\ less(s) \in SUBSET (1 .. k - 1)
                                 /\ k \notin s => s \in SUBSET (1 .. k - 1)
  OBVIOUS
<1>3. \A i \in 1 .. k : w[i] \in Int
  OBVIOUS
<1>4. k \in 1 .. k
  OBVIOUS
<1>5. more \in [SUBSET (1 .. k) -> Int]
  <2>1. ASSUME NEW s \in SUBSET (1 .. k) PROVE (IF k \in s THEN w[k] + sum[less(s)] ELSE sum[s]) \in Int
    <3>1. w[k] \in Int
      BY <1>3, <1>4
    <3>2. sum[less(s)] \in Int /\ (k \notin s => sum[s] \in Int)
      BY <1>1, <1>2
    <3> QED BY <3>1, <3>2
  <2> QED BY <2>1
<1>6. more[{}] = 0
  BY <1>1
<1>7. ASSUME NEW s \in SUBSET (1 .. k), NEW x \in s PROVE more[s] = w[x] + more[s \ {x}]
  <2> DEFINE t == s \ {x}
  <2>1. t \in SUBSET (1 .. k) /\ x \in 1 .. k
    OBVIOUS
  <2>2. /\ more[s] = IF k \in s THEN w[k] + sum[less(s)] ELSE sum[s]
        /\ more[t] = IF k \in t THEN w[k] + sum[less(t)] ELSE sum[t]
    BY <2>1
  <2> HIDE DEF more
  <2>3. CASE x = k
    <3>1. k \in s /\ k \notin t /\ less(s) = t
      BY <2>3
    <3> QED BY <2>2, <2>3, <3>1
  <2>4. CASE x # k /\ k \in s
    <3>1. k \in t /\ less(t) = less(s) \ {x} /\ x \in less(s)
      BY <2>4
    <3>2. sum[less(s)] = w[x] + sum[less(t)]
      <4>1. less(s) \in SUBSET (1 .. k - 1)
        BY <1>2
      <4> HIDE DEF less, t
      <4>2. sum[less(s)] = w[x] + sum[less(s) \ {x}]
        BY <4>1, <3>1, <1>1
      <4> QED BY <4>2, <3>1
    <3>3. w[k] \in Int /\ w[x] \in Int /\ sum[less(t)] \in Int
      BY <1>1, <1>2, <1>3, <1>4, <2>1
    <3> HIDE DEF less, t
    <3>4. more[s] = w[k] + sum[less(s)] /\ more[t] = w[k] + sum[less(t)]
      BY <2>2, <2>4, <3>1
    <3>5. more[s] = w[x] + more[t]
      BY <3>2, <3>3, <3>4
    <3> QED BY <3>5 DEF t
  <2>5. CASE k \notin s
    <3>1. k \notin t /\ s \in SUBSET (1 .. k - 1)
      BY <2>5, <1>2
    <3>2. more[s] = sum[s] /\ more[t] = sum[t]
      BY <3>1, <2>2, <2>5
    <3>3. sum[s] = w[x] + sum[t]
      BY <3>1, <1>1
    <3> QED BY <3>2, <3>3
  <2> QED BY <2>3, <2>4, <2>5
<1> HIDE DEF more
<1>8. Adds(more, w, k)
  BY <1>5, <1>6, <1>7 DEF Adds
<1> QED BY <1>8

LEMMA SumExists ==
  ASSUME NEW n \in Nat, NEW w \in [1 .. n -> Int]
  PROVE  \E sum : Adds(sum, w, n)
<1> DEFINE bad == {k \in 0 .. n : ~ \E sum : Adds(sum, w, k)}
<1>1. SUFFICES ASSUME n \in bad PROVE FALSE
  OBVIOUS
<1>2. PICK k \in bad : \A l \in bad : k <= l
  <2>1. bad \subseteq Nat /\ bad # {}
    BY <1>1
  <2> HIDE DEF bad
  <2> QED BY <2>1, Smallest
<1>3. CASE k = 0
  <2> DEFINE none == [s \in SUBSET (1 .. 0) |-> 0]
  <2>1. SUBSET (1 .. 0) = {{}}
    OBVIOUS
  <2>2. none \in [SUBSET (1 .. 0) -> Int] /\ none[{}] = 0
    OBVIOUS
  <2>3. \A s \in SUBSET (1 .. 0) : \A x \in s : FALSE
    BY <2>1
  <2> HIDE DEF none
  <2>4. Adds(none, w, 0)
    BY <2>2, <2>3 DEF Adds
  <2> QED BY <2>4, <1>3
<1>4. CASE k # 0
  <2>1. k \in 1 .. n /\ k - 1 \in 0 .. n /\ ~(k <= k - 1)
    BY <1>4
  <2>2. k - 1 \notin bad
    BY <2>1, <1>2
  <2>3. \E sum : Adds(sum, w, k - 1)
    BY <2>1, <2>2
  <2>4. \E more : Adds(more, w, k)
    BY <2>1, <2>3, SumGrows
  <2> QED BY <2>4
<1> QED BY <1>3, <1>4

LEMMA PartsAreFinite ==
  ASSUME NEW n \in Nat, NEW s \in SUBSET (1 .. n)
  PROVE  /\ IsFiniteSet(s) /\ Cardinality(s) \in Nat
         /\ \A x \in s : Cardinality(s \ {x}) < Cardinality(s)
<1>1. IsFiniteSet(1 .. n)
  BY FS_Interval
<1>2. IsFiniteSet(s) /\ Cardinality(s) \in Nat
  BY <1>1, FS_Subset, FS_CardinalityType
<1>3. \A x \in s : Cardinality(s \ {x}) < Cardinality(s)
  <2> TAKE x \in s
  <2>1. Cardinality(s \ {x}) = Cardinality(s) - 1
    BY <1>2, FS_RemoveElement
  <2> QED BY <2>1, <1>2
<1> QED BY <1>2, <1>3

(* What takes the elements of S off one by one, in whatever order, adds up. *)
TakesOff(iter, w, S) ==
  /\ iter[{}] = 0
  /\ \A s \in SUBSET S : s # {} =>
       \E x \in s : iter[s \ {x}] \in Int => iter[s] = w[x] + iter[s \ {x}]

LEMMA SumIsOne ==
  ASSUME NEW n \in Nat, NEW w \in [1 .. n -> Int], NEW sum, Adds(sum, w, n)
  PROVE  \A S \in SUBSET (1 .. n) : \A iter : TakesOff(iter, w, S) => iter[S] = sum[S]
<1> SUFFICES ASSUME NEW S \in SUBSET (1 .. n), NEW iter, TakesOff(iter, w, S)
             PROVE  iter[S] = sum[S]
  OBVIOUS
<1> DEFINE wrong == {s \in SUBSET S : iter[s] # sum[s]}
           sizes == {Cardinality(s) : s \in wrong}
<1>1. SUFFICES ASSUME wrong # {} PROVE FALSE
  OBVIOUS
<1>2. sizes \subseteq Nat /\ sizes # {}
  <2>1. ASSUME NEW s \in wrong PROVE Cardinality(s) \in Nat
    <3>1. s \in SUBSET (1 .. n)
      OBVIOUS
    <3> QED BY <3>1, PartsAreFinite
  <2> HIDE DEF wrong
  <2> QED BY <2>1, <1>1
<1>3. PICK s \in wrong : \A t \in wrong : Cardinality(s) <= Cardinality(t)
  <2>1. PICK k \in sizes : \A l \in sizes : k <= l
    <3> HIDE DEF sizes
    <3> QED BY <1>2, Smallest
  <2> QED BY <2>1
<1>4. s \in SUBSET S /\ s \in SUBSET (1 .. n) /\ iter[s] # sum[s] /\ s # {}
  BY DEF Adds, TakesOff
<1>5. PICK x \in s : iter[s \ {x}] \in Int => iter[s] = w[x] + iter[s \ {x}]
  BY <1>4 DEF TakesOff
<1>6. sum[s] = w[x] + sum[s \ {x}] /\ sum[s \ {x}] \in Int
  <2>1. s \ {x} \in SUBSET (1 .. n)
    BY <1>4
  <2> QED BY <2>1, <1>4 DEF Adds
<1>7. s \ {x} \in wrong
  <2>1. s \ {x} \in SUBSET S
    BY <1>4
  <2>2. iter[s \ {x}] # sum[s \ {x}]
    BY <1>4, <1>5, <1>6
  <2> QED BY <2>1, <2>2
<1>8. Cardinality(s) <= Cardinality(s \ {x})
  BY <1>3, <1>7
<1>9. Cardinality(s \ {x}) < Cardinality(s) /\ Cardinality(s) \in Nat /\ Cardinality(s \ {x}) \in Nat
  <2>1. s \ {x} \in SUBSET (1 .. n)
    BY <1>4
  <2> QED BY <2>1, <1>4, PartsAreFinite
<1> QED BY <1>8, <1>9

(* What counts for nothing may be left out.                                *)
LEMMA SumOfPart ==
  ASSUME NEW n \in Nat, NEW w \in [1 .. n -> Int], NEW sum, Adds(sum, w, n)
  PROVE  \A S \in SUBSET (1 .. n) :
           (\A i \in (1 .. n) \ S : w[i] = 0) => sum[1 .. n] = sum[S]
<1> SUFFICES ASSUME NEW S \in SUBSET (1 .. n), \A i \in (1 .. n) \ S : w[i] = 0
             PROVE  sum[1 .. n] = sum[S]
  OBVIOUS
<1> DEFINE wrong == {s \in SUBSET (1 .. n) : S \subseteq s /\ sum[s] # sum[S]}
           sizes == {Cardinality(s) : s \in wrong}
<1>1. SUFFICES ASSUME wrong # {} PROVE FALSE
  OBVIOUS
<1>2. sizes \subseteq Nat /\ sizes # {}
  <2>1. ASSUME NEW s \in wrong PROVE Cardinality(s) \in Nat
    BY PartsAreFinite
  <2> HIDE DEF wrong
  <2> QED BY <2>1, <1>1
<1>3. PICK s \in wrong : \A t \in wrong : Cardinality(s) <= Cardinality(t)
  <2>1. PICK k \in sizes : \A l \in sizes : k <= l
    <3> HIDE DEF sizes
    <3> QED BY <1>2, Smallest
  <2> QED BY <2>1
<1>4. s \in SUBSET (1 .. n) /\ S \subseteq s /\ sum[s] # sum[S]
  OBVIOUS
<1>5. PICK x \in s : x \notin S
  <2>1. s # S
    BY <1>4
  <2> QED BY <2>1, <1>4
<1>6. sum[s] = w[x] + sum[s \ {x}] /\ w[x] = 0 /\ sum[s \ {x}] \in Int
  <2>1. s \ {x} \in SUBSET (1 .. n) /\ x \in (1 .. n) \ S
    BY <1>4, <1>5
  <2>2. sum[s] = w[x] + sum[s \ {x}]
    BY <1>4 DEF Adds
  <2>3. sum[s \ {x}] \in Int
    BY <2>1 DEF Adds
  <2> QED BY <2>1, <2>2, <2>3
<1>7. s \ {x} \in wrong
  <2>1. s \ {x} \in SUBSET (1 .. n) /\ S \subseteq s \ {x}
    BY <1>4, <1>5
  <2>2. sum[s \ {x}] # sum[S]
    BY <1>4, <1>6
  <2> QED BY <2>1, <2>2
<1>8. Cardinality(s) <= Cardinality(s \ {x})
  BY <1>3, <1>7
<1>9. Cardinality(s \ {x}) < Cardinality(s) /\ Cardinality(s) \in Nat /\ Cardinality(s \ {x}) \in Nat
  <2>1. s \ {x} \in SUBSET (1 .. n)
    BY <1>4
  <2> QED BY <2>1, <1>4, PartsAreFinite
<1> QED BY <1>8, <1>9

LEMMA MaxIsThere ==
  ASSUME NEW n \in Nat, NEW s \in SUBSET (1 .. n), s # {}
  PROVE  Max(s) \in s
<1> DEFINE gaps == {n - x : x \in s}
<1>1. gaps \subseteq Nat /\ gaps # {}
  <2>1. \A x \in s : n - x \in Nat
    OBVIOUS
  <2> QED BY <2>1
<1>2. PICK g \in gaps : \A h \in gaps : g <= h
  <2> HIDE DEF gaps
  <2> QED BY <1>1, Smallest
<1>3. PICK x \in s : g = n - x
  OBVIOUS
<1>4. \A y \in s : x >= y
  <2> TAKE y \in s
  <2>1. n - x <= n - y
    BY <1>2, <1>3
  <2> QED BY <2>1
<1> QED BY <1>4 DEF Max

-----------------------------------------------------------------------------
(* The amounts of a document that reads are numbers, and the credit the     *)
(* book takes is the one the document states: the parser goes through the   *)
(* taxes from the last one down, and adds those of the code.                *)

LEMMA DecimalIsInt ==
  ASSUME NEW x, DecimalOrZero(x), x.is = "number" => x.v \in Int
  PROVE  Decimal(x) \in Int
<1>1. CASE x = Absent
  BY <1>1 DEF Decimal
<1>2. CASE x # Absent /\ x.is = "number"
  BY <1>2 DEF Decimal
<1>3. CASE x # Absent /\ x.is = "text" /\ x.v \in DOMAIN Numeral
  <2>1. Decimal(x) = Numeral[x.v]
    BY <1>3 DEF Decimal
  <2> QED BY <1>3, <2>1, Tables
<1> QED BY <1>1, <1>2, <1>3 DEF DecimalOrZero, RequiredDecimal

LEMMA AmountIsInt ==
  ASSUME NEW file \in Readable,
         NEW key \in {"totalGravada", "montoTotalOperacion", "totalExenta", "totalNoSuj"}
  PROVE  Decimal(ReadOwn(ReadOwn(Content[file], "resumen"), key)) \in Int
<1> DEFINE resumen == ReadOwn(Content[file], "resumen")
           x == ReadOwn(resumen, key)
<1>1. ReadsResumen(resumen, ReadOwn(Content[file], "extension"))
  BY ReadableIs DEF ReadsAll
<1>2. DecimalOrZero(x)
  <2> HIDE DEF resumen
  <2> QED BY <1>1 DEF ReadsResumen, DecimalOrZero
<1>3. \A k \in DOMAIN resumen.v : resumen.v[k].is = "number" => resumen.v[k].v \in Int
  BY Amounts
<1>4. x.is = "number" => x.v \in Int
  <2> HIDE DEF resumen
  <2>1. CASE key \in DOMAIN resumen.v
    BY <2>1, <1>3 DEF ReadOwn
  <2>2. CASE key \notin DOMAIN resumen.v
    BY <2>2 DEF ReadOwn, Absent
  <2> QED BY <2>1, <2>2
<1> QED BY <1>2, <1>4, DecimalIsInt

TaxesOf(file) == Elements(ReadOwn(ReadOwn(Content[file], "resumen"), "tributos"))
ValueOf(tax) == Decimal(ReadOwn(tax, "valor"))

LEMMA TaxesAre ==
  ASSUME NEW file \in Readable
  PROVE  /\ Len(TaxesOf(file)) \in Nat
         /\ DOMAIN TaxesOf(file) = 1 .. Len(TaxesOf(file))
         /\ \A i \in DOMAIN TaxesOf(file) : ValueOf(TaxesOf(file)[i]) \in Int
<1> DEFINE taxes == TaxesOf(file)
<1>1. /\ DOMAIN taxes = 1 .. Len(taxes) /\ Len(taxes) \in Nat
      /\ \A i \in DOMAIN taxes : ReadOwn(taxes[i], "valor").is = "number"
                                   => ReadOwn(taxes[i], "valor").v \in Int
  BY Amounts DEF TaxesOf
<1>2. ReadsTaxes(ReadOwn(ReadOwn(Content[file], "resumen"), "tributos"))
  BY ReadableIs DEF ReadsAll
<1>3. \A i \in DOMAIN taxes : RequiredDecimal(ReadOwn(taxes[i], "valor"))
  BY <1>2 DEF ReadsTaxes, ReadsTax, TaxesOf
<1> HIDE DEF taxes
<1>4. ASSUME NEW i \in DOMAIN taxes PROVE ValueOf(taxes[i]) \in Int
  <2>1. DecimalOrZero(ReadOwn(taxes[i], "valor"))
    BY <1>3 DEF DecimalOrZero
  <2> QED BY <2>1, <1>1, DecimalIsInt DEF ValueOf
<1> QED BY <1>1, <1>4 DEF taxes

(* The fold of the parser is the sum over all the taxes, a tax of another   *)
(* code counting for nothing.                                               *)
LEMMA FoldAdds ==
  ASSUME NEW n \in Nat, NEW taxes, DOMAIN taxes = 1 .. n, NEW code,
         \A i \in 1 .. n : ValueOf(taxes[i]) \in Int,
         NEW w \in [1 .. n -> Int],
         \A i \in 1 .. n : w[i] = IF CodeOf(taxes[i]) = code THEN ValueOf(taxes[i]) ELSE 0,
         NEW sum, Adds(sum, w, n)
  PROVE  TaxValue(taxes, code) = sum[1 .. n]
<1> DEFINE Off(f, s) == IF CodeOf(taxes[Max(s)]) = code
                        THEN f[s \ {Max(s)}] + ValueOf(taxes[Max(s)]) ELSE f[s \ {Max(s)}]
           folded == CHOOSE f : f = [s \in SUBSET (1 .. n) |-> IF s = {} THEN 0 ELSE Off(f, s)]
<1>1. TaxValue(taxes, code) = folded[1 .. n]
  BY DEF TaxValue, FoldLeft, MapThenFoldSet, Consolidated, ValueOf
<1>2. sum \in [SUBSET (1 .. n) -> Int] /\ sum[{}] = 0
  BY DEF Adds
<1>3. ASSUME NEW s \in SUBSET (1 .. n), s # {}
      PROVE  Max(s) \in s /\ Max(s) \in 1 .. n /\ s \ {Max(s)} \in SUBSET (1 .. n)
  BY <1>3, MaxIsThere
<1>4. ASSUME NEW s \in SUBSET (1 .. n), s # {}
      PROVE  Off(sum, s) = sum[s]
  <2>1. sum[s] = w[Max(s)] + sum[s \ {Max(s)}] /\ sum[s \ {Max(s)}] \in Int
    BY <1>4, <1>3, <1>2 DEF Adds
  <2>2. /\ w[Max(s)] = IF CodeOf(taxes[Max(s)]) = code THEN ValueOf(taxes[Max(s)]) ELSE 0
        /\ ValueOf(taxes[Max(s)]) \in Int
    BY <1>4, <1>3
  <2> QED BY <2>1, <2>2
<1>5. sum = [s \in SUBSET (1 .. n) |-> IF s = {} THEN 0 ELSE Off(sum, s)]
  <2> HIDE DEF Off
  <2> QED BY <1>2, <1>4
<1>6. folded = [s \in SUBSET (1 .. n) |-> IF s = {} THEN 0 ELSE Off(folded, s)]
  <2> HIDE DEF Off
  <2> QED BY <1>5
<1> HIDE DEF folded
<1>7. folded[{}] = 0
  BY <1>6
<1>8. ASSUME NEW s \in SUBSET (1 .. n), s # {}
      PROVE  \E x \in s : folded[s \ {x}] \in Int => folded[s] = w[x] + folded[s \ {x}]
  <2> DEFINE x == Max(s)
             rest == folded[s \ {x}]
  <2>1. folded[s] = IF CodeOf(taxes[x]) = code THEN rest + ValueOf(taxes[x]) ELSE rest
    BY <1>6, <1>8
  <2>2. /\ w[x] = IF CodeOf(taxes[x]) = code THEN ValueOf(taxes[x]) ELSE 0
        /\ ValueOf(taxes[x]) \in Int /\ x \in s
    BY <1>8, <1>3
  <2> HIDE DEF x, rest
  <2>3. rest \in Int => folded[s] = w[x] + rest
    BY <2>1, <2>2
  <2> QED BY <2>2, <2>3 DEF rest
<1> HIDE DEF Off
<1>9. folded[1 .. n] = sum[1 .. n]
  <2> DEFINE S == 1 .. n
  <2>1. S \in SUBSET (1 .. n)
    OBVIOUS
  <2>2. TakesOff(folded, w, S)
    BY <1>7, <1>8 DEF TakesOff
  <2> HIDE DEF S
  <2>3. folded[S] = sum[S]
    <3>1. \A T \in SUBSET (1 .. n) : \A f : TakesOff(f, w, T) => f[T] = sum[T]
      BY SumIsOne
    <3> QED BY <2>1, <2>2, <3>1
  <2> QED BY <2>3 DEF S
<1> QED BY <1>1, <1>9

(* What the document states is that sum, over the taxes of the code.        *)
LEMMA StatedAdds ==
  ASSUME NEW n \in Nat, NEW taxes, DOMAIN taxes = 1 .. n,
         \A i \in 1 .. n : ValueOf(taxes[i]) \in Int,
         NEW w \in [1 .. n -> Int],
         \A i \in 1 .. n : w[i] = IF CodeOf(taxes[i]) = "20" THEN ValueOf(taxes[i]) ELSE 0,
         NEW sum, Adds(sum, w, n)
  PROVE  MapThenSumSet(LAMBDA i : Decimal(ReadOwn(taxes[i], "valor")),
                       {i \in DOMAIN taxes : Text(ReadOwn(taxes[i], "codigo")) = "20"}) = sum[1 .. n]
<1> DEFINE S == {i \in DOMAIN taxes : Text(ReadOwn(taxes[i], "codigo")) = "20"}
           pick(s) == CHOOSE x \in s : TRUE
           picked == CHOOSE f : f = [s \in SUBSET S |-> IF s = {} THEN 0
                                      ELSE ValueOf(taxes[pick(s)]) + f[s \ {pick(s)}]]
<1>1. MapThenSumSet(LAMBDA i : Decimal(ReadOwn(taxes[i], "valor")), S) = picked[S]
  BY DEF MapThenSumSet, MapThenFoldSet, ValueOf
<1>2. sum \in [SUBSET (1 .. n) -> Int] /\ sum[{}] = 0
  BY DEF Adds
<1>3. /\ S \in SUBSET (1 .. n)
      /\ \A i \in S : w[i] = ValueOf(taxes[i])
      /\ \A i \in (1 .. n) \ S : w[i] = 0
  BY DEF CodeOf
<1> HIDE DEF S
<1>4. ASSUME NEW s \in SUBSET S, s # {}
      PROVE  pick(s) \in s /\ w[pick(s)] = ValueOf(taxes[pick(s)])
  BY <1>3, <1>4
<1> DEFINE part == [s \in SUBSET S |-> sum[s]]
<1>5. part = [s \in SUBSET S |-> IF s = {} THEN 0
                ELSE ValueOf(taxes[pick(s)]) + part[s \ {pick(s)}]]
  <2>1. ASSUME NEW s \in SUBSET S, s # {}
        PROVE  sum[s] = ValueOf(taxes[pick(s)]) + part[s \ {pick(s)}]
    <3>1. s \in SUBSET (1 .. n) /\ s \ {pick(s)} \in SUBSET S /\ pick(s) \in s
      BY <2>1, <1>3, <1>4
    <3>2. sum[s] = w[pick(s)] + sum[s \ {pick(s)}]
      BY <3>1 DEF Adds
    <3> QED BY <3>1, <3>2, <2>1, <1>4
  <2> DEFINE Step(s) == IF s = {} THEN 0 ELSE ValueOf(taxes[pick(s)]) + part[s \ {pick(s)}]
  <2>2. \A s \in SUBSET S : sum[s] = Step(s)
    BY <2>1, <1>2
  <2> HIDE DEF Step
  <2>3. part = [s \in SUBSET S |-> Step(s)]
    BY <2>2
  <2> QED BY <2>3 DEF Step
<1>6. picked = [s \in SUBSET S |-> IF s = {} THEN 0
                  ELSE ValueOf(taxes[pick(s)]) + picked[s \ {pick(s)}]]
  <2> HIDE DEF part
  <2> QED BY <1>5
<1> HIDE DEF picked, pick
<1>7. picked[{}] = 0
  BY <1>6
<1>8. ASSUME NEW s \in SUBSET S, s # {}
      PROVE  \E x \in s : picked[s \ {x}] \in Int => picked[s] = w[x] + picked[s \ {x}]
  <2> DEFINE x == pick(s)
  <2>1. x \in s /\ w[x] = ValueOf(taxes[x])
    BY <1>4, <1>8
  <2>2. picked[s] = ValueOf(taxes[x]) + picked[s \ {x}]
    BY <1>6, <1>8
  <2> HIDE DEF x
  <2> QED BY <2>1, <2>2
<1>9. picked[S] = sum[S]
  <2>1. TakesOff(picked, w, S)
    BY <1>7, <1>8 DEF TakesOff
  <2>2. \A T \in SUBSET (1 .. n) : \A f : TakesOff(f, w, T) => f[T] = sum[T]
    BY SumIsOne
  <2> QED BY <1>3, <2>1, <2>2
<1>10. sum[1 .. n] = sum[S]
  <2>1. \A T \in SUBSET (1 .. n) : (\A i \in (1 .. n) \ T : w[i] = 0) => sum[1 .. n] = sum[T]
    BY SumOfPart
  <2> QED BY <1>3, <2>1
<1> QED BY <1>1, <1>9, <1>10 DEF S

LEMMA CreditIsStated ==
  ASSUME NEW file \in Readable
  PROVE  /\ IvaCreditoFiscal(ReadOwn(Content[file], "resumen")) \in Int
         /\ IvaCreditoFiscal(ReadOwn(Content[file], "resumen"))
              = MapThenSumSet(LAMBDA i : Decimal(ReadOwn(TaxesOf(file)[i], "valor")),
                              {i \in DOMAIN TaxesOf(file) :
                                 Text(ReadOwn(TaxesOf(file)[i], "codigo")) = "20"})
<1> DEFINE taxes == TaxesOf(file)
           n == Len(taxes)
           w == [i \in 1 .. n |-> IF CodeOf(taxes[i]) = "20" THEN ValueOf(taxes[i]) ELSE 0]
<1>1. n \in Nat /\ DOMAIN taxes = 1 .. n /\ \A i \in 1 .. n : ValueOf(taxes[i]) \in Int
  BY TaxesAre
<1>2. IvaCreditoFiscal(ReadOwn(Content[file], "resumen")) = TaxValue(taxes, "20")
  BY DEF IvaCreditoFiscal, TaxesOf
<1> HIDE DEF taxes, n
<1>3. w \in [1 .. n -> Int]
  BY <1>1
<1>4. PICK sum : Adds(sum, w, n)
  <2> HIDE DEF w
  <2> QED BY <1>1, <1>3, SumExists
<1>5. \A i \in 1 .. n : w[i] = IF CodeOf(taxes[i]) = "20" THEN ValueOf(taxes[i]) ELSE 0
  OBVIOUS
<1> HIDE DEF w
<1>6. TaxValue(taxes, "20") = sum[1 .. n]
  BY <1>1, <1>3, <1>4, <1>5, FoldAdds
<1>7. MapThenSumSet(LAMBDA i : Decimal(ReadOwn(taxes[i], "valor")),
                    {i \in DOMAIN taxes : Text(ReadOwn(taxes[i], "codigo")) = "20"}) = sum[1 .. n]
  BY <1>1, <1>3, <1>4, <1>5, StatedAdds
<1>8. sum[1 .. n] \in Int
  <2>1. 1 .. n \in SUBSET (1 .. n)
    OBVIOUS
  <2> QED BY <2>1, <1>4 DEF Adds
<1> QED BY <1>2, <1>6, <1>7, <1>8 DEF taxes

-----------------------------------------------------------------------------
(* The rows of the file print the columns of the document as it is in the  *)
(* mail, whatever happens to the book after they were read.                *)
RowPrints(row, columns) ==
  LET supplier == SplitSupplierId(columns.emisorNit)
      g == Rounded(columns.totalExenta + columns.totalNoSuj)
      j == Rounded(columns.totalGravada)
      n == Rounded(columns.ivaCreditoFiscal)
  IN /\ row.E = supplier.E /\ row.P = supplier.P /\ row.flags.supplier = supplier.anomalous
     /\ row.G = ToAnexoAmount(g) /\ row.J = ToAnexoAmount(j) /\ row.N = ToAnexoAmount(n)
     /\ row.O = ToAnexoAmount(g + j)
     /\ row.flags.negative <=> g < 0 \/ j < 0 \/ n < 0
     /\ row.flags.mismatch <=> g + j + n - Rounded(columns.montoTotalOperacion) \notin -1 .. 1

RowsArePrinted ==
  export # Idle =>
    \A i \in Lines : LET file == mail[export.rows[i].doc]
                     IN file \in Readable /\ RowPrints(export.rows[i], Columns(Content[file]))

LEMMA RowIsPrinted == \A d : RowPrints(BuildAnexoRow(d), docs[d].columns)
<1> TAKE d
<1> DEFINE columns == docs[d].columns
           supplier == SplitSupplierId(columns.emisorNit)
           g == Rounded(columns.totalExenta + columns.totalNoSuj)
           j == Rounded(columns.totalGravada)
           n == Rounded(columns.ivaCreditoFiscal)
           row == BuildAnexoRow(d)
<1>1. /\ row.E = supplier.E /\ row.P = supplier.P
      /\ row.G = ToAnexoAmount(g) /\ row.J = ToAnexoAmount(j) /\ row.N = ToAnexoAmount(n)
      /\ row.O = ToAnexoAmount(g + j)
  BY DEF BuildAnexoRow
<1>2. /\ row.flags.supplier = supplier.anomalous
      /\ row.flags.negative = (g < 0 \/ j < 0 \/ n < 0)
      /\ row.flags.mismatch = (g + j + n - Rounded(columns.montoTotalOperacion) \notin -1 .. 1)
  BY DEF BuildAnexoRow
<1> HIDE DEF row
<1> QED BY <1>1, <1>2 DEF RowPrints, row

(* No step changes the mail.                                               *)
LEMMA MailStays ==
  ASSUME [AnnexNext]_annexVars
  PROVE  mail' = mail
<1>1. CASE UNCHANGED annexVars
  BY <1>1 DEF annexVars
<1>2. CASE AnnexNext
  <2>1. \A x, period, filter, allow : Request(x, period, filter, allow) => mail' = mail
    BY DEF Request, Quiet
  <2>2. Query => mail' = mail
    BY DEF Query, CountAll, CountUnclassified, ReadKey, ReadSiblings, CountExcluded, NextBatch, Quiet
  <2>3. /\ \A d : Ingest(d) => mail' = mail
        /\ \A d, patch : UpdateClassification(d, patch) => mail' = mail
        /\ \A x, patch : UpdateDefaults(x, patch) => mail' = mail
        /\ \A key : PlanMerge(key) => mail' = mail
        /\ ApplyMerge => mail' = mail
    BY DEF Ingest, UpdateClassification, UpdateDefaults, PlanMerge, ApplyMerge
  <2> QED BY <2>1, <2>2, <2>3, <1>2, AnnexCases DEF Query
<1> QED BY <1>1, <1>2

LEMMA BatchIsPrinted ==
  ASSUME BookInv, RowsAreOrdered, RowsArePrinted, NextBatch, mail' = mail
  PROVE  RowsArePrinted'
<1> DEFINE size == Len(export.rows)
           found == FromCursor(Asks)
<1>1. AnnexTypes /\ export # Idle
  BY QueryKeepsDocs DEF BookInv, Query
<1>2. export.cursor \in InBook \cup {0}
  BY <1>1, CursorIsThere
<1>3. PICK n \in Nat : \E S \in SUBSET AfterCursor : \E m \in 0 .. n : TakesBatch(n, S, m)
  BY <1>1, <1>2, BatchIs
<1>4. PICK S \in SUBSET AfterCursor : \E m \in 0 .. n : TakesBatch(n, S, m)
  BY <1>3
<1>5. PICK m \in 0 .. n : TakesBatch(n, S, m)
  BY <1>4
<1>6. /\ size \in Nat /\ m \in Nat /\ Lines' = 1 .. size + m
      /\ \A k \in Lines' : k \in Lines \/ (k - size \in 1 .. m /\ k = size + (k - size) /\ k > size)
      /\ \A i \in 1 .. m : found[i] \in S
  BY <1>1, <1>5, BatchRows
<1>7. /\ \A i \in 1 .. size : export'.rows[i] = export.rows[i]
      /\ \A i \in 1 .. m : export'.rows[size + i] = BuildAnexoRow(found[i])
  BY <1>5 DEF TakesBatch
<1>8. S \subseteq InBook
  BY DEF AfterCursor, Asks, PurchasesOf
<1> HIDE DEF size, found
<1>9. ASSUME NEW k \in Lines'
      PROVE  /\ mail[export'.rows[k].doc] \in Readable
             /\ RowPrints(export'.rows[k], Columns(Content[mail[export'.rows[k].doc]]))
  <2>1. CASE k \in Lines
    BY <2>1, <1>1, <1>7 DEF RowsArePrinted, Lines, size
  <2>2. CASE k \notin Lines
    <3>1. k - size \in 1 .. m /\ k = size + (k - size)
      BY <2>2, <1>6
    <3> DEFINE d == found[k - size]
    <3>2. d \in InBook /\ export'.rows[k] = BuildAnexoRow(d)
      BY <3>1, <1>6, <1>7, <1>8
    <3>3. mail[d] \in Readable /\ docs[d].columns = Columns(Content[mail[d]])
      BY <3>2 DEF BookInv, BookIsRead
    <3> HIDE DEF d
    <3>4. BuildAnexoRow(d).doc = d /\ RowPrints(BuildAnexoRow(d), docs[d].columns)
      BY RowIsOfDoc, RowIsPrinted
    <3> QED BY <3>2, <3>3, <3>4
  <2> QED BY <2>1, <2>2
<1> QED BY <1>9 DEF RowsArePrinted

LEMMA PrintedHolds == AnnexSpec => []RowsArePrinted
<1>1. AnnexInit => RowsArePrinted
  BY DEF AnnexInit, RowsArePrinted
<1>2. AnnexInv /\ RowsArePrinted /\ [AnnexNext]_annexVars => RowsArePrinted'
  <2> SUFFICES ASSUME AnnexInv, RowsArePrinted, [AnnexNext]_annexVars PROVE RowsArePrinted'
    OBVIOUS
  <2>1. BookInv /\ AnnexTypes /\ RowsAreOrdered /\ mail' = mail
    BY MailStays DEF AnnexInv, BookInv
  <2>2. CASE \E x \in Party, period \in Period, filter \in Filters, allow \in BOOLEAN :
               Request(x, period, filter, allow)
    <3>1. export'.rows = <<>>
      BY <2>2 DEF Request
    <3> QED BY <3>1 DEF RowsArePrinted, Lines
  <2>3. CASE Query /\ ~NextBatch
    <3>1. export # Idle /\ export'.rows = export.rows
      BY <2>1, <2>3, QueryKeepsDocs, GuardSteps
    <3> QED BY <3>1, <2>1 DEF RowsArePrinted, Lines
  <2>4. CASE NextBatch
    BY <2>1, <2>4, BatchIsPrinted
  <2>5. CASE BookInv' /\ Stirs
    BY <2>1, <2>5 DEF Stirs, RowsArePrinted, Lines
  <2> QED BY <2>1, <2>2, <2>3, <2>4, <2>5, AnnexSteps
<1> QED BY <1>1, <1>2, AnnexInvHolds, PTL DEF AnnexSpec

-----------------------------------------------------------------------------
(* Cents. An amount that is not negative is printed as it was rounded.      *)

LEMMA AmountIsPrinted ==
  ASSUME NEW x \in Int
  PROVE  /\ Rounded(x) \in Int
         /\ 10 * Rounded(x) - x \in -5 .. 5
         /\ Rounded(x) >= 0 => NearestCent(Rounded(x), x)
<1>1. CASE x >= 0
  <2>1. Rounded(x) = (x + 5) \div 10
    BY <1>1 DEF Rounded
  <2> QED BY <1>1, <2>1 DEF NearestCent
<1>2. CASE x < 0
  <2>1. Rounded(x) = -((5 - x) \div 10)
    BY <1>2 DEF Rounded
  <2> QED BY <1>2, <2>1 DEF NearestCent
<1> QED BY <1>1, <1>2

LEMMA PrintedIsItself ==
  ASSUME NEW c \in Int, c >= 0
  PROVE  ToAnexoAmount(c) = c
<1>1. \E x \in {0, c} : \A y \in {0, c} : x >= y
  OBVIOUS
<1>2. Max({0, c}) \in {0, c} /\ \A y \in {0, c} : Max({0, c}) >= y
  BY <1>1 DEF Max
<1> QED BY <1>2 DEF ToAnexoAmount

(* The columns are the amounts that the document states.                   *)
LEMMA ColumnsAreStated ==
  ASSUME NEW row, mail[row.doc] \in Readable
  PROVE  LET columns == Columns(Content[mail[row.doc]])
         IN /\ columns.totalExenta = Stated(row, "totalExenta")
            /\ columns.totalNoSuj = Stated(row, "totalNoSuj")
            /\ columns.totalGravada = Stated(row, "totalGravada")
            /\ columns.montoTotalOperacion = Stated(row, "montoTotalOperacion")
            /\ columns.ivaCreditoFiscal = StatedCredit(row)
            /\ \A key \in {"totalGravada", "montoTotalOperacion", "totalExenta", "totalNoSuj"} :
                 Stated(row, key) \in Int
            /\ StatedCredit(row) \in Int
<1> DEFINE file == mail[row.doc]
           columns == Columns(Content[file])
<1>1. /\ columns.totalExenta = Stated(row, "totalExenta")
      /\ columns.totalNoSuj = Stated(row, "totalNoSuj")
      /\ columns.totalGravada = Stated(row, "totalGravada")
      /\ columns.montoTotalOperacion = Stated(row, "montoTotalOperacion")
  BY DEF Columns, Stated
<1>2. columns.ivaCreditoFiscal = IvaCreditoFiscal(ReadOwn(Content[file], "resumen"))
  BY DEF Columns
<1>3. \A key \in {"totalGravada", "montoTotalOperacion", "totalExenta", "totalNoSuj"} :
        Stated(row, key) \in Int
  BY AmountIsInt DEF Stated
<1>4. StatedCredit(row)
        = MapThenSumSet(LAMBDA i : Decimal(ReadOwn(TaxesOf(file)[i], "valor")),
                        {i \in DOMAIN TaxesOf(file) :
                           Text(ReadOwn(TaxesOf(file)[i], "codigo")) = "20"})
  BY DEF StatedCredit, TaxesOf
<1>5. /\ IvaCreditoFiscal(ReadOwn(Content[file], "resumen")) \in Int
      /\ IvaCreditoFiscal(ReadOwn(Content[file], "resumen")) = StatedCredit(row)
  BY <1>4, CreditIsStated
<1> HIDE DEF columns
<1> QED BY <1>1, <1>2, <1>3, <1>5 DEF columns

LEMMA SupplierIsThere ==
  ASSUME NEW file \in Readable
  PROVE  Columns(Content[file]).emisorNit # ""
<1> DEFINE nit == ReadOwn(ReadOwn(Content[file], "emisor"), "nit")
<1>1. ReadsParty(ReadOwn(Content[file], "emisor"))
  BY ReadableIs DEF ReadsAll
<1>2. RequiredText(nit)
  BY <1>1 DEF ReadsParty
<1>3. nit.is = "number" => nit.v \in DOMAIN Printed
  BY Amounts
<1>4. Columns(Content[file]).emisorNit = Text(nit)
  BY DEF Columns
<1> HIDE DEF nit
<1>5. Text(nit) # ""
  BY <1>2, <1>3, Tables DEF RequiredText, Text
<1> QED BY <1>4, <1>5

LEMMA RowIsTrue ==
  ASSUME NEW row, mail[row.doc] \in Readable, RowPrints(row, Columns(Content[mail[row.doc]]))
  PROVE  /\ ~row.flags.negative =>
              /\ NearestCent(row.G, Stated(row, "totalExenta") + Stated(row, "totalNoSuj"))
              /\ NearestCent(row.J, Stated(row, "totalGravada"))
              /\ NearestCent(row.N, StatedCredit(row))
              /\ row.O = row.G + row.J
              /\ ~row.flags.mismatch =>
                   10 * (row.O + row.N) - Stated(row, "montoTotalOperacion") \in -15 .. 15
         /\ ~row.flags.supplier => (row.E = "") # (row.P = "")
<1> DEFINE columns == Columns(Content[mail[row.doc]])
           supplier == SplitSupplierId(columns.emisorNit)
           exempt == columns.totalExenta + columns.totalNoSuj
           g == Rounded(exempt)
           j == Rounded(columns.totalGravada)
           n == Rounded(columns.ivaCreditoFiscal)
           t == Rounded(columns.montoTotalOperacion)
<1>1. /\ row.E = supplier.E /\ row.P = supplier.P /\ row.flags.supplier = supplier.anomalous
      /\ row.G = ToAnexoAmount(g) /\ row.J = ToAnexoAmount(j) /\ row.N = ToAnexoAmount(n)
      /\ row.O = ToAnexoAmount(g + j)
      /\ row.flags.negative <=> g < 0 \/ j < 0 \/ n < 0
      /\ row.flags.mismatch <=> g + j + n - t \notin -1 .. 1
  BY DEF RowPrints
<1>2. /\ exempt = Stated(row, "totalExenta") + Stated(row, "totalNoSuj")
      /\ columns.totalGravada = Stated(row, "totalGravada")
      /\ columns.ivaCreditoFiscal = StatedCredit(row)
      /\ columns.montoTotalOperacion = Stated(row, "montoTotalOperacion")
  BY ColumnsAreStated
<1>3. /\ exempt \in Int /\ columns.totalGravada \in Int
      /\ columns.ivaCreditoFiscal \in Int /\ columns.montoTotalOperacion \in Int
  BY ColumnsAreStated
<1>4. columns.emisorNit # ""
  BY SupplierIsThere
<1> HIDE DEF exempt
<1>5. /\ g \in Int /\ j \in Int /\ n \in Int /\ t \in Int
      /\ g >= 0 => NearestCent(g, exempt)
      /\ j >= 0 => NearestCent(j, columns.totalGravada)
      /\ n >= 0 => NearestCent(n, columns.ivaCreditoFiscal)
      /\ 10 * t - columns.montoTotalOperacion \in -5 .. 5
  BY <1>3, AmountIsPrinted
<1> HIDE DEF g, j, n, t
<1>6. ASSUME ~row.flags.negative
      PROVE  /\ g >= 0 /\ j >= 0 /\ n >= 0
             /\ row.G = g /\ row.J = j /\ row.N = n /\ row.O = g + j
  <2>1. g >= 0 /\ j >= 0 /\ n >= 0 /\ g + j \in Int /\ g + j >= 0
    BY <1>1, <1>5, <1>6
  <2>2. ToAnexoAmount(g) = g /\ ToAnexoAmount(j) = j /\ ToAnexoAmount(n) = n
    BY <2>1, <1>5, PrintedIsItself
  <2>3. ToAnexoAmount(g + j) = g + j
    BY <2>1, PrintedIsItself
  <2> QED BY <2>1, <2>2, <2>3, <1>1
<1>7. ASSUME ~row.flags.negative
      PROVE  /\ NearestCent(row.G, Stated(row, "totalExenta") + Stated(row, "totalNoSuj"))
             /\ NearestCent(row.J, Stated(row, "totalGravada"))
             /\ NearestCent(row.N, StatedCredit(row))
             /\ row.O = row.G + row.J
  BY <1>2, <1>5, <1>6, <1>7
<1>8. ASSUME ~row.flags.negative, ~row.flags.mismatch
      PROVE  10 * (row.O + row.N) - Stated(row, "montoTotalOperacion") \in -15 .. 15
  <2>1. g + j + n - t \in -1 .. 1
    BY <1>1, <1>8
  <2>2. row.O + row.N = g + j + n
    BY <1>5, <1>6, <1>8
  <2> DEFINE x == columns.montoTotalOperacion
  <2>3. x = Stated(row, "montoTotalOperacion") /\ x \in Int /\ 10 * t - x \in -5 .. 5
    BY <1>2, <1>3, <1>5
  <2> HIDE DEF x
  <2>4. 10 * (g + j + n) - x \in -15 .. 15
    BY <2>1, <2>3, <1>5
  <2> QED BY <2>2, <2>3, <2>4
<1>9. ASSUME ~row.flags.supplier PROVE (row.E = "") # (row.P = "")
  <2> DEFINE raw == columns.emisorNit
  <2>1. /\ supplier.E = IF Digits[raw] = 9 THEN "" ELSE raw
        /\ supplier.P = IF Digits[raw] = 9 THEN raw ELSE ""
    BY DEF SplitSupplierId
  <2> HIDE DEF supplier, columns
  <2>2. CASE Digits[raw] = 9
    BY <2>1, <2>2, <1>1, <1>4
  <2>3. CASE Digits[raw] # 9
    BY <2>1, <2>3, <1>1, <1>4
  <2> QED BY <2>2, <2>3
<1> QED BY <1>7, <1>8, <1>9

(* Whatever the documents say in the formats the parser reads, every row    *)
(* without a flag prints the amounts its document states.                   *)
THEOREM AnnexIsTrue == AnnexSpec => []FileIsTrue
<1>1. RowsArePrinted /\ AnnexInv => FileIsTrue
  <2> SUFFICES ASSUME RowsArePrinted, AnnexInv, export.pc \in {"rows", "done"},
                      NEW i \in DOMAIN export.rows
               PROVE  LET row == export.rows[i]
                      IN /\ ~row.flags.negative =>
                              /\ NearestCent(row.G, Stated(row, "totalExenta") + Stated(row, "totalNoSuj"))
                              /\ NearestCent(row.J, Stated(row, "totalGravada"))
                              /\ NearestCent(row.N, StatedCredit(row))
                              /\ row.O = row.G + row.J
                              /\ ~row.flags.mismatch =>
                                   10 * (row.O + row.N) - Stated(row, "montoTotalOperacion") \in -15 .. 15
                         /\ ~row.flags.supplier => (row.E = "") # (row.P = "")
    BY DEF FileIsTrue
  <2>1. export # Idle
    BY DEF Idle
  <2>2. i \in Lines
    <3>1. export.rows = [k \in 1 .. Len(export.rows) |-> export.rows[k]]
      BY <2>1 DEF AnnexInv, BookInv, AnnexTypes, Asked
    <3>2. DOMAIN export.rows = 1 .. Len(export.rows)
      BY <3>1
    <3> QED BY <3>2 DEF Lines
  <2>3. /\ mail[export.rows[i].doc] \in Readable
        /\ RowPrints(export.rows[i], Columns(Content[mail[export.rows[i].doc]]))
    BY <2>1, <2>2 DEF RowsArePrinted
  <2> QED BY <2>3, RowIsTrue
<1> QED BY <1>1, PrintedHolds, AnnexInvHolds, PTL
=============================================================================
