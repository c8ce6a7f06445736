--------------------------- MODULE MachineHolding ---------------------------
(***************************************************************************)
(* What product_allocations promises: a machine is out with one contract   *)
(* at a time, and goes from one contract to another only by coming back    *)
(* first.                                                                  *)
(***************************************************************************)
CONSTANTS
    Contract,
    Machine

VARIABLE held       \* pairs <<contract, machine>>

Free(m) == \A c \in Contract : <<c, m>> \notin held

Init == held = {}

Take(c, m) ==
    /\ Free(m)
    /\ held' = held \cup {<<c, m>>}

(* A contract gives back some of its machines, all at once.                *)
GiveBack(c, S) == held' = held \ ({c} \X S)

(* A contract exchanges a machine for one that is free, in one step.       *)
Exchange(c, m, n) ==
    /\ <<c, m>> \in held
    /\ Free(n)
    /\ held' = (held \ {<<c, m>>}) \cup {<<c, n>>}

Next ==
    \E c \in Contract :
        \/ \E m \in Machine : Take(c, m)
        \/ \E S \in SUBSET Machine : GiveBack(c, S)
        \/ \E m, n \in Machine : Exchange(c, m, n)

Spec == Init /\ [][Next]_held

(* One contract per machine.                                               *)
OneHolder ==
    \A m \in Machine, c, d \in Contract : <<c, m>> \in held /\ <<d, m>> \in held => c = d
=============================================================================
