-------------------------- MODULE MCStockTransfer --------------------------
(* Two branches, the first with two warehouses; two machines of one model  *)
(* and one spare part.  Every pair of transfers over four bodies: two      *)
(* INTRA and two INTER requests that compete for the same rows.            *)
EXTENDS StockTransfer, TLC

CONSTANTS m1, m2, d1, k1, b1, b2, w1, w2, w3

MCModelOf == [m \in {m1, m2} |-> d1]
MCBranchOf == (w1 :> b1) @@ (w2 :> b1) @@ (w3 :> b2)
MCInitQuantity == (<<k1, w1>> :> 3) @@ (<<k1, w2>> :> 1) @@ (<<k1, w3>> :> 0)
MCInitWarehouse == (m1 :> w1) @@ (m2 :> w2)
MCSharedRow == {<<k1, w1>>}
MCEdit == {<<m1, w3>>}

Parts(a, b) == (<<k1, w1>> :> a) @@ (<<k1, w2>> :> b) @@ (<<k1, w3>> :> 0)
Intra(from, to, parts, S) ==
    [type |-> "INTRA", srcBranch |-> b1, src |-> from, dst |-> to,
     parts |-> parts, models |-> [d \in {d1} |-> 0], machines |-> S]
Inter(to, parts, n) ==
    [type |-> "INTER", srcBranch |-> b1, src |-> NoWarehouse, dst |-> to,
     parts |-> parts, models |-> [d \in {d1} |-> n], machines |-> {}]

MCBody == {Intra(w1, w2, Parts(2, 0), {m1}), Intra(w2, w1, Parts(0, 1), {m2}),
           Inter(w3, Parts(2, 1), 1), Inter(w3, Parts(2, 0), 2)}

Symmetry == Permutations(Transfer)
============================================================================
