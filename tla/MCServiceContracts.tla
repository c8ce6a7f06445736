------------------------- MODULE MCServiceContracts -------------------------
(* One machine, so that two contracts compete for it; contract cn has no   *)
(* branch.                                                                 *)
EXTENDS ServiceContracts

MCMachineOf == [c \in Contract |-> "machine"]
=============================================================================
