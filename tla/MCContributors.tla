--------------------------- MODULE MCContributors ---------------------------
(* Small instances of Contributors: the documents of a contributor that     *)
(* older versions split in two parties, and one of another contributor.     *)
EXTENDS Contributors, TLC

CONSTANTS p, q, d1, d2, d3, d4, d5, j1, j2

MCOf == d1 :> p @@ d2 :> p @@ d3 :> p @@ d4 :> p @@ d5 :> q
MCIdKind == d1 :> "nit" @@ d2 :> "dui" @@ d3 :> "nit" @@ d4 :> "dui" @@ d5 :> "nit"
MCHasNrc == d1 :> TRUE @@ d2 :> TRUE @@ d3 :> FALSE @@ d4 :> FALSE @@ d5 :> TRUE

(* Nothing; the NIT and the DUI of p, each with a party, both with the key  *)
(* of its NRC; the same when nothing ties the two, each with a key of its   *)
(* own.                                                                     *)
Rows(first, second) == [x \in Party |-> CASE x = 1 -> first [] x = 2 -> second [] OTHER -> NoRow]
NitRow(nrc, key) == [nit |-> Nit(p), dui |-> Null, nrc |-> nrc, key |-> key]
DuiRow(key) == [nit |-> Dui(p), dui |-> Dui(p), nrc |-> Null, key |-> key]
MCLegacies ==
  {[parties |-> [x \in Party |-> NoRow], docs |-> [d \in Doc |-> 0]],
   [parties |-> Rows(NitRow(Nrc(p), Nrc(p)), DuiRow(Nrc(p))),
    docs |-> [d \in Doc |-> CASE d = d1 -> 1 [] d = d2 -> 2 [] OTHER -> 0]],
   [parties |-> Rows(NitRow(Null, Nit(p)), DuiRow(Dui(p))),
    docs |-> [d \in Doc |-> CASE d = d3 -> 1 [] d = d4 -> 2 [] OTHER -> 0]]}

(* A row of before the column of the key.                                   *)
KeylessLegacies ==
  {[parties |-> Rows(NitRow(Null, Null), NoRow), docs |-> [d \in Doc |-> IF d = d3 THEN 1 ELSE 0]]}

Symmetry == Permutations(Job)
=============================================================================
