---------------------------- MODULE MCExportPull ----------------------------
(* Small instances of ExportPull.                                          *)
EXTENDS ExportPull

CONSTANTS w1, m1, m2

MCOneMonth == [r \in Row |-> m1]
MCTwoMonths == [r \in Row |-> IF r = 1 THEN m1 ELSE m2]
=============================================================================
