-------------------------- MODULE MCServiceTickets --------------------------
(* Instances of ServiceTickets for TLC: one part, two units of it, lines   *)
(* of one and of two units.                                                *)
EXTENDS ServiceTickets

CONSTANTS a, b, part, one, two

MCItemPart == [i \in Item |-> part]
MCItemQty  == [i \in Item |-> IF i = two THEN 2 ELSE 1]
MCStock    == [p \in Part |-> 2]
=============================================================================
