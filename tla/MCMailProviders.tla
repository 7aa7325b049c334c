-------------------------- MODULE MCMailProviders --------------------------
(***************************************************************************)
(* Two tenants, a profile in use and one that is not, for TLC.             *)
(***************************************************************************)
EXTENDS MailProviders, TLC

CONSTANTS p1, p2, a1, a2, t1, t2, e1, e2, w1, w2, domain, suffix, mail

MCTenantOf == a1 :> t1 @@ a2 :> t2
MCDomainOf == mail :> domain
MCExchanges == mail :> <<{}, {suffix}>>
MCSeeds == p1 :> [endpoint |-> e1, entries |-> {suffix}]

Live(p, e, w) == [state |-> "live", provider |-> p, own |-> e, password |-> w]
On(e) == [exists |-> TRUE, active |-> TRUE, endpoint |-> e]

(* A profile whose endpoint has moved since its account was linked, and    *)
(* one that nobody uses.                                                   *)
MCWorlds ==
  {[catalogue |-> p1 :> On(e1) @@ p2 :> On(e2),
    entries |-> domain :> p1 @@ suffix :> p2,
    accounts |-> a1 :> Live(p1, e2, w1) @@ a2 :> NoAccount]}

Patch(link, host, password) == [link |-> link, host |-> host, password |-> password]
MCPatches == {Patch(NoProvider, Keep, Keep), Patch(Keep, e2, w2)}
Edit(endpoint, active, names, confirm) ==
  [endpoint |-> endpoint, active |-> active, entries |-> names, confirm |-> confirm]
MCEdits == {Edit(e2, Keep, Keep, n) : n \in 1..2}
             \cup {Edit(Keep, FALSE, {suffix}, 0)}

RequestSymmetry == Permutations(Request)
=============================================================================
