------------------------- MODULE MCInventoryEvents -------------------------
(* Two sales of the same spare part and two of the same machine.           *)
EXTENDS InventoryEvents

CONSTANTS p1, m1

MCPartOf == [i \in PartItem |-> p1]
MCMachineOf == [i \in MachineItem |-> m1]
MCQty == [i \in PartItem |-> 2]
MCInitQuantity == [p \in {p1} |-> 3]
============================================================================
