------------------------ MODULE MCPurchaseActivities ------------------------
(* Small instances of PurchaseActivities: purchases of two contributors to  *)
(* the same supplier.                                                       *)
EXTENDS PurchaseActivities, TLC

CONSTANTS r1, r2, a1, a2, n1, n2, d1, d2, c1, c2

MCReceptorOf == d1 :> r1 @@ d2 :> r2
MCEmisorOf == d1 :> 1 @@ d2 :> 1
MCLots == {[names |-> {n1}, mappings |-> 1 :> n1], [names |-> {n2}, mappings |-> 1 :> n1]}
Swap == r1 :> r2 @@ r2 :> r1 @@ d1 :> d2 @@ d2 :> d1
Symmetry == {Swap} \cup Permutations(Activity) \cup Permutations(Call)
=============================================================================
