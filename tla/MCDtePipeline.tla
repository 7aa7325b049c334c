--------------------------- MODULE MCDtePipeline ---------------------------
(* Small instances of DtePipeline: two mails bring the same document.      *)
EXTENDS DtePipeline, TLC

CONSTANTS w1, w2, c1, c2

MCAttachment == {1, 2}
MCCodeOf == [a \in MCAttachment |-> c1]
MCReading == [a \in MCAttachment |-> [v \in 1..MaxParser |-> "PARSEADO"]]
MCCodes == [a \in MCAttachment |-> IF a = 1 THEN c1 ELSE c2]
MCSymmetry == Permutations({w1, w2})
=============================================================================
