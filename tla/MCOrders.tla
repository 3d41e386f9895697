------------------------------ MODULE MCOrders ------------------------------
(***************************************************************************)
(* A branch with two variants: an order of before the connected accounts   *)
(* over both variants, and two new orders that compete for the rest.       *)
(***************************************************************************)
EXTENDS Orders

CONSTANTS old, o1, o2, top, skirt

MCBasket == [o \in Orders |-> [v \in Variants |->
                IF o = old \/ v = top THEN 1 ELSE IF o = o2 THEN 1 ELSE 0]]

MCSupply == [v \in Variants |-> 1]

=============================================================================
