------------------------ MODULE MCStockTransferRace ------------------------
(* Two branches, the first with two warehouses; one machine and one spare  *)
(* part that the requests compete for: small enough for handlers to        *)
(* overlap.                                                                *)
EXTENDS StockTransferRace, TLC

CONSTANTS m1, d1, k1, b1, b2, w1, w2, w3

MCModelOf == [m \in {m1} |-> d1]
MCBranchOf == (w1 :> b1) @@ (w2 :> b1) @@ (w3 :> b2)
MCInitQuantity == (<<k1, w1>> :> 2) @@ (<<k1, w2>> :> 0) @@ (<<k1, w3>> :> 0)
MCInitWarehouse == [m \in {m1} |-> w1]

MCSharedRow == {<<k1, w1>>}
MCEdit == {<<m1, w3>>}

Parts(n) == (<<k1, w1>> :> n) @@ (<<k1, w2>> :> 0) @@ (<<k1, w3>> :> 0)
InterBody == [type |-> "INTER", srcBranch |-> b1, src |-> NoWarehouse, dst |-> w3,
              parts |-> Parts(2), models |-> [d \in {d1} |-> 1], machines |-> {}]
IntraBody == [type |-> "INTRA", srcBranch |-> b1, src |-> w1, dst |-> w2,
              parts |-> Parts(1), models |-> [d \in {d1} |-> 0], machines |-> {m1}]

InterOnly == {InterBody}
BothTypes == {InterBody, IntraBody}

Symmetry == Permutations(Transfer) \cup Permutations(Handler)
============================================================================
