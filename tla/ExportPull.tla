----------------------------- MODULE ExportPull -----------------------------
(***************************************************************************)
(* The export of one account: the server's manifest of attachment rows,    *)
(* paged by (createdAt, id), and the maildte-pull client that lists it,    *)
(* downloads what it lacks and keeps a cursor of createdAt in its state    *)
(* file. Rows are numbered by (createdAt, id); one action per request,     *)
(* statement or file.                                                      *)
(***************************************************************************)
EXTENDS Integers, FiniteSets

CONSTANTS
  MaxRow,         \* bound: attachments the account ever gets
  Month,          \* month folders
  MonthOf,        \* row -> month folder of its mail
  NoMonth,        \* a sync without --month
  Months,         \* the --month filters people use (NoMonth: none)
  Alls,           \* whether --all is used
  Writer,         \* sync runs at work on the account (one, but for a lock
                  \* that expired)
  Limit,          \* page size of the manifest
  Threshold,      \* ZIP_THRESHOLD
  Races,          \* bound: commits between the two statements of a page
  Disruptions     \* bound: failed requests, bad hashes, crashes, lost files

Row == 1..MaxRow

ASSUME ExportAssumption ==
  /\ MaxRow \in Nat
  /\ MonthOf \in [Row -> Month]
  /\ NoMonth \notin Month
  /\ Months \subseteq Month \cup {NoMonth}
  /\ Alls \subseteq BOOLEAN
  /\ Limit \in Nat \ {0}
  /\ Threshold \in Nat
  /\ Races \in Nat
  /\ Disruptions \in Nat

VARIABLES
  stamped,     \* rows that have got their createdAt
  tx,          \* writer -> row its transaction is about to commit, 0 none
  committed,   \* rows every reader sees
  gone,        \* rows whose file is no longer on the server's disk
  copy,        \* row -> the client's file: absent, bad hash or good
  cursor,      \* createdAt in .maildte-state.json, 0 none
  client,      \* the client process
  races, left

vars == <<stamped, tx, committed, gone, copy, cursor, client, races, left>>
server == <<stamped, tx, committed, gone>>

(* entries: what the pages listed and the server has; todo: what is still  *)
(* to be downloaded; last: the row the next page starts after; max: the    *)
(* maxCreatedAt of the last page answered.                                 *)
Client == [step : {"idle", "list", "count", "check", "files", "zip"},
           since : 0..MaxRow, month : Month \cup {NoMonth}, all : BOOLEAN,
           entries : SUBSET Row, last : SUBSET Row, more : BOOLEAN,
           max : 0..MaxRow, todo : SUBSET Row, failed : BOOLEAN]

NoClient == [step |-> "idle", since |-> 0, month |-> NoMonth, all |-> FALSE,
             entries |-> {}, last |-> {}, more |-> FALSE, max |-> 0,
             todo |-> {}, failed |-> FALSE]

Init ==
  /\ stamped = {} /\ committed = {} /\ gone = {}
  /\ tx = [w \in Writer |-> 0]
  /\ copy = [r \in Row |-> "absent"]
  /\ cursor = 0
  /\ client = NoClient
  /\ races = Races
  /\ left = Disruptions

Disrupt == left > 0 /\ left' = left - 1

-----------------------------------------------------------------------------
(* The server.                                                             *)

(* The transaction of processMessage: createdAt is taken when it starts.   *)
Stamp(w, r) ==
  /\ tx[w] = 0
  /\ r \notin stamped
  /\ \A s \in Row \ stamped : r <= s
  /\ stamped' = stamped \cup {r}
  /\ tx' = [tx EXCEPT ![w] = r]
  /\ UNCHANGED <<committed, gone, copy, cursor, client, races, left>>

Commit(w) ==
  /\ tx[w] # 0
  /\ client.step = "count" => races > 0
  /\ races' = IF client.step = "count" THEN races - 1 ELSE races
  /\ committed' = committed \cup {tx[w]}
  /\ tx' = [tx EXCEPT ![w] = 0]
  /\ UNCHANGED <<stamped, gone, copy, cursor, client, left>>

LoseFile(r) ==
  /\ r \in committed \ gone
  /\ Disrupt
  /\ gone' = gone \cup {r}
  /\ UNCHANGED <<stamped, tx, committed, copy, cursor, client, races>>

AfterNext(r) ==                         \* mutant: one instant too far
  r > client.since + 1 /\ client.month \in {NoMonth, MonthOf[r]}

InScope(r) == r > client.since /\ client.month \in {NoMonth, MonthOf[r]}

(* buildExportWhere for the filters of the client.                         *)
Scope == {r \in committed : InScope(r)}

-----------------------------------------------------------------------------
(* The client: runSync for one account.                                    *)

ClientKeeps == UNCHANGED <<server, copy, cursor, races, left>>

StartSync(all, month) ==
  /\ client.step = "idle"
  /\ client' = [step |-> "list", since |-> IF all THEN 0 ELSE cursor,
                month |-> month, all |-> all, entries |-> {}, last |-> {},
                more |-> FALSE, max |-> 0, todo |-> {}, failed |-> FALSE]
  /\ ClientKeeps

FirstOf(S, n) == {r \in S : Cardinality({s \in S : s < r}) < n}

(* The first statement of a page: the rows after the cursor row. What is   *)
(* missing on disk is marked so, and the client leaves it out.             *)
ListPage ==
  /\ client.step = "list"
  /\ LET rows == {r \in Scope : \A c \in client.last : r > c}
         page == FirstOf(rows, Limit)
     IN client' = [client EXCEPT !.step = "count",
                     !.entries = @ \cup (page \ gone),
                     !.last = {r \in page : \A s \in page : s <= r},
                     !.more = rows # page]
  /\ ClientKeeps

(* The second statement: the aggregate over the filter without the cursor. *)
Newest(m) ==
  IF Scope = {} THEN m = client.max ELSE m \in Scope /\ \A s \in Scope : s <= m

CountPage ==
  /\ client.step = "count"
  /\ \E m \in 0..MaxRow :
       /\ Newest(m)
       /\ client' = [client EXCEPT !.max = m,
                       !.step = IF client.more THEN "list" ELSE "check"]
  /\ ClientKeeps

AllPending == client.entries            \* mutant: nothing is skipped

(* What is not there with its hash is pending; the number decides the      *)
(* strategy.                                                               *)
Pending == {r \in client.entries : copy[r] # "good"}

Check ==
  /\ client.step = "check"
  /\ client' = [client EXCEPT !.todo = Pending,
                  !.step = IF client.all \/ Cardinality(Pending) > Threshold
                           THEN "zip" ELSE "files"]
  /\ ClientKeeps

(* One file, with its retries: it is there with its hash, or it failed.    *)
Download(r) ==
  /\ client.step = "files"
  /\ r \in client.todo
  /\ r \notin gone
  /\ copy' = [copy EXCEPT ![r] = "good"]
  /\ client' = [client EXCEPT !.todo = @ \ {r}]
  /\ UNCHANGED <<server, cursor, races, left>>

(* Three refused requests leave the file alone, three bad hashes leave the *)
(* last content that was renamed into place.                               *)
DownloadFails(r) ==
  /\ client.step = "files"
  /\ r \in client.todo
  /\ \/ r \in gone /\ UNCHANGED left
     \/ Disrupt
  /\ copy' \in {copy, [copy EXCEPT ![r] = IF r \in gone THEN @ ELSE "bad"]}
  /\ client' = [client EXCEPT !.todo = @ \ {r}, !.failed = TRUE]
  /\ UNCHANGED <<server, cursor, races>>

(* The ZIP of a month. Without --month the groups are named after the      *)
(* second segment of relativePath, which is the folder of the account:     *)
(* the server refuses it as a month and every group fails.                 *)
ZipServed == IF client.month = NoMonth THEN {} ELSE Scope \ gone

DownloadZip ==
  /\ client.step = "zip"
  /\ client.todo # {}
  /\ copy' = [r \in Row |-> IF r \in client.todo \cap ZipServed THEN "good"
                            ELSE copy[r]]
  /\ client' = [client EXCEPT !.todo = {},
                  !.failed = ~(client.todo \subseteq ZipServed)]
  /\ UNCHANGED <<server, cursor, races, left>>

(* After three attempts some files came whole, some with bad content.      *)
ZipFails ==
  /\ client.step = "zip"
  /\ client.todo # {}
  /\ Disrupt
  /\ \E got \in SUBSET (client.todo \cap ZipServed) :
     \E bad \in SUBSET ((client.todo \cap ZipServed) \ got) :
       copy' = [r \in Row |-> IF r \in got THEN "good"
                             ELSE IF r \in bad THEN "bad" ELSE copy[r]]
  /\ client' = [client EXCEPT !.todo = {}, !.failed = TRUE]
  /\ UNCHANGED <<server, cursor, races>>

SavedAnyway == client.max > 0           \* mutant: a failed lot moves it too

(* The cursor advances only if the whole lot was verified.                 *)
Verified == ~client.failed /\ client.max > 0

Finish ==
  /\ client.step \in {"files", "zip"}
  /\ client.todo = {}
  /\ cursor' = IF Verified THEN client.max ELSE cursor
  /\ client' = NoClient
  /\ UNCHANGED <<server, copy, races, left>>

(* A refused request of the manifest or a kill ends the process.           *)
Die ==
  /\ client.step # "idle"
  /\ Disrupt
  /\ client' = NoClient
  /\ UNCHANGED <<server, copy, cursor, races>>

-----------------------------------------------------------------------------
ClientStep ==
  \/ ListPage \/ CountPage \/ Check
  \/ \E r \in Row : Download(r) \/ (r \in gone /\ DownloadFails(r))
  \/ DownloadZip \/ Finish

Next ==
  \/ \E w \in Writer : Commit(w) \/ \E r \in Row : Stamp(w, r)
  \/ \E r \in Row : LoseFile(r) \/ DownloadFails(r)
  \/ \E all \in Alls, month \in Months : StartSync(all, month)
  \/ ClientStep \/ ZipFails \/ Die

Spec == Init /\ [][Next]_vars

(* A scheduled task runs maildte-pull sync without filters again and       *)
(* again, whatever else is started by hand.                                *)
Fairness == WF_vars(ClientStep) /\ SF_vars(StartSync(FALSE, NoMonth))
FairSpec == Spec /\ Fairness

-----------------------------------------------------------------------------
TypeOK ==
  /\ stamped \subseteq Row /\ committed \subseteq stamped
  /\ tx \in [Writer -> stamped \cup {0}]
  /\ gone \subseteq committed
  /\ copy \in [Row -> {"absent", "bad", "good"}]
  /\ cursor \in committed \cup {0}
  /\ client \in Client
  /\ client.entries \subseteq committed /\ client.todo \subseteq client.entries
  /\ client.last \subseteq committed
  /\ client.max \in committed \cup {0}
  /\ races \in Nat /\ left \in Nat

(* Every row up to the cursor is with the client, whole, or its file is    *)
(* lost on the server: the next sync lists only what is after the cursor,  *)
(* so a row passed over is never downloaded.                               *)
PulledUpToCursor ==
  \A r \in committed : r <= cursor => copy[r] = "good" \/ r \in gone

(* A file that was verified is never overwritten with anything else.       *)
GoodStaysGood == [][\A r \in Row : copy[r] = "good" => copy'[r] = "good"]_copy

(* Every row ends at the client, whatever requests failed, hashes were bad *)
(* and runs were killed on the way.                                        *)
EveryRowIsPulled ==
  \A r \in Row : r \in committed ~> copy[r] = "good" \/ r \in gone
=============================================================================
