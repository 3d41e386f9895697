---------------------------- MODULE StockLedger ----------------------------
(***************************************************************************)
(* What StockService.change does to the counters of one branch.  A basket  *)
(* gives a number of units of each variant: the lines of an order, of a    *)
(* reservation or of a return.  The handlers call change once per line and *)
(* roll the whole transaction back when one line fails, so a basket moves  *)
(* entirely or not at all.  A missing stock row counts as zero units.      *)
(***************************************************************************)
EXTENDS Integers

CONSTANTS Variants,  \* garment variants, the key of a stock row in a branch
          MaxStock   \* the ceiling of a stock row (1 000 000 in the code)

ASSUME MaxStockAssumption == MaxStock \in Nat

Baskets == [Variants -> 0 .. MaxStock]

Levels == [Variants -> 0 .. MaxStock]

\* change(-quantity) succeeds on every line.
CanTake(level, basket) == \A v \in Variants : level[v] >= basket[v]

Take(level, basket) == [v \in Variants |-> level[v] - basket[v]]

\* change(+quantity) succeeds on every line: no row goes over the ceiling.
CanPut(level, basket) == \A v \in Variants : level[v] + basket[v] <= MaxStock

Put(level, basket) == [v \in Variants |-> level[v] + basket[v]]

=============================================================================
