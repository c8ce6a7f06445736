------------------------ MODULE MCContractLifecycle ------------------------
(* A rental or a lease that competes with a direct sale for two machines,  *)
(* with events that overtake each other; and a sale, swaps and credit      *)
(* notes included, by itself (c2 does nothing), with the events of one     *)
(* step under way at a time.  Statuses set by hand: one that ends a        *)
(* rental or lease and, for the lease, DRAFT, which lets it be deleted or  *)
(* allocated again.  The rental is not deleted and the sale has no machine *)
(* replaced, to keep the run small.                                        *)
EXTENDS ContractLifecycle, TLC

CONSTANTS c1, c2

Types(a, b) == [c \in {c1, c2} |-> IF c = c1 THEN a ELSE b]
MCSaleTypes == {Types("RENT", "DIRECT"), Types("LEASE", "DIRECT"), Types("SALE", "RENT")}
MCMaxQueue == [types \in MCSaleTypes |-> IF types[c1] = "RENT" THEN 2 ELSE 1]
MCSetByHand ==
    [types \in MCSaleTypes |->
       CASE types[c1] = "RENT" -> {"FINANCE_REJECTED"}
         [] types[c1] = "LEASE" -> {"FINANCE_REJECTED", "DRAFT"}
         [] OTHER -> {}]

MCCalled ==
    [types \in MCSaleTypes |->
       CASE types[c1] = "RENT" -> {"replace"}
         [] types[c1] = "LEASE" -> {"delete", "replace"}
         [] OTHER -> {"delete"}]

Symmetry == Permutations(Machine)
============================================================================
