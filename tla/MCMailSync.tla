----------------------------- MODULE MCMailSync -----------------------------
(***************************************************************************)
(* Small instances of MailSync. m1 and m2 bring a file of the same name    *)
(* with different contents, m2 also a second file; m3 has no attachments,  *)
(* m4 repeats the file of m1 and may lack the Message-ID, m5 brings the    *)
(* colliding file of m2 alone.                                             *)
(***************************************************************************)
EXTENDS MailSync, TLC

CONSTANTS r1, r2, m1, m2, m3, m4, m5, n1, n2, b1, b2

Att(n, b) == [name |-> n, body |-> b]

AllAttachments == m1 :> <<Att(n1, b1)>> @@ m2 :> <<Att(n1, b2), Att(n2, b1)>>
                  @@ m3 :> <<>> @@ m4 :> <<Att(n1, b1)>>
                  @@ m5 :> <<Att(n1, b2)>>
MCAttachments == [m \in Msg |-> AllAttachments[m]]
AllDays == m1 :> 1 @@ m2 :> 2 @@ m3 :> 3 @@ m4 :> 3 @@ m5 :> 2
MCDay == [m \in Msg |-> AllDays[m]]
EveryHasHeader == Msg
HeaderButM4 == Msg \ {m4}

RunSymmetry == Permutations(Run)

NoEvents == [e \in Event |-> 0]

(* One failure of each kind a sync has to survive.                         *)
FaultyBudget == [NoEvents EXCEPT !["crash"] = 1, !["imap"] = 1, !["tx"] = 1,
                                 !["ack"] = 1]
AnyTogether == {Event}

(* A failure after or before another, two kinds at a time, and the operator *)
(* who rewinds the account after a change of plan.                         *)
PairsBudget == [e \in Event |->
                  IF e \in {"crash", "tx", "disk", "store", "errtx", "rewind",
                            "plan"} THEN 1 ELSE 0]
PairsTogether == {{"crash", "tx"}, {"disk", "store"}, {"tx", "errtx"},
                  {"rewind", "plan"}}

(* What people and the server may do to a healthy account, or the end of   *)
(* the lock under a run that goes on.                                      *)
AdminBudget == [NoEvents EXCEPT !["epoch"] = 1, !["resync"] = 1,
                                !["source"] = 1, !["lapse"] = 1]
AdminTogether == {{"epoch", "resync", "source"}, {"lapse"}}

(* One event each, for the disagreements with the documentation.           *)
AckBudget == [NoEvents EXCEPT !["ack"] = 1]
RewindBudget == [NoEvents EXCEPT !["rewind"] = 1, !["plan"] = 1]
ResyncBudget == [NoEvents EXCEPT !["resync"] = 1]
=============================================================================
