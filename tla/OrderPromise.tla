---------------------------- MODULE OrderPromise ----------------------------
(***************************************************************************)
(* What the order circuit promises to the shelf and to the customer: the   *)
(* units of an order leave the shelf once, they come back at most once,    *)
(* and never after the customer was charged by card or the order was       *)
(* settled.  Orders refines it.                                            *)
(***************************************************************************)
EXTENDS StockLedger

CONSTANTS Orders, Basket

VARIABLES
    shelf,    \* units of each variant on the shelf
    phase,    \* "none", "held", "sold" or "freed"
    charged   \* the orders whose customer was charged by card

promise == <<shelf, phase, charged>>

Hold(o, to) ==
    /\ phase[o] = "none"
    /\ to \in {"held", "sold"}
    /\ CanTake(shelf, Basket[o])
    /\ shelf' = Take(shelf, Basket[o])
    /\ phase' = [phase EXCEPT ![o] = to]
    /\ UNCHANGED charged

Charge(o) ==
    /\ phase[o] = "held"
    /\ o \notin charged
    /\ charged' = charged \cup {o}
    /\ UNCHANGED <<shelf, phase>>

Settle(o) ==
    /\ phase[o] = "held"
    /\ phase' = [phase EXCEPT ![o] = "sold"]
    /\ UNCHANGED <<shelf, charged>>

Free(o) ==
    /\ phase[o] = "held"
    /\ o \notin charged
    /\ shelf' = Put(shelf, Basket[o])
    /\ phase' = [phase EXCEPT ![o] = "freed"]
    /\ UNCHANGED charged

Restock(v) ==
    /\ \E level \in 0 .. MaxStock : shelf' = [shelf EXCEPT ![v] = level]
    /\ UNCHANGED <<phase, charged>>

Start ==
    /\ shelf \in Levels
    /\ phase \in [Orders -> {"none", "held"}]
    /\ charged = {}

Act ==
    \/ \E o \in Orders :
         \/ \E to \in {"held", "sold"} : Hold(o, to)
         \/ Charge(o)
         \/ Settle(o)
         \/ Free(o)
    \/ \E v \in Variants : Restock(v)

\* A step that changes something: TLC passes over the others first.
Moves == promise' # promise /\ Act

Promise == Start /\ [][Moves]_promise

=============================================================================
