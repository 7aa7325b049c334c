---------------------------- MODULE MailArchive -----------------------------
(***************************************************************************)
(* What the synchronisation of an account promises to whoever reads its    *)
(* archive: each message is recorded once, with an outcome that never      *)
(* changes, and an archived message can be read from the moment it is      *)
(* recorded. How many runs, files, transactions and crashes it takes to    *)
(* get there cannot be seen.                                               *)
(***************************************************************************)
CONSTANTS Id

VARIABLES outcome,   \* what the archive says of each message
          readable   \* the archived messages whose files can all be read

Final == {"PROCESADO", "SIN_ADJUNTOS", "ERROR"}

Init == /\ outcome = [id \in Id |-> "NONE"]
        /\ readable = {}

(* An archived message becomes visible and readable in the same step; the  *)
(* others have no files to read.                                           *)
Record(id, o) ==
  /\ outcome[id] = "NONE"
  /\ outcome' = [outcome EXCEPT ![id] = o]
  /\ readable' = IF o = "PROCESADO" THEN readable \cup {id} ELSE readable

Next == \E id \in Id, o \in Final : Record(id, o)

Spec == Init /\ [][Next]_<<outcome, readable>>
=============================================================================
