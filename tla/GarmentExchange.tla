-------------------------- MODULE GarmentExchange --------------------------
(***************************************************************************)
(* The exchanges of the garments of one order: ExchangeService             *)
(* (exchange_service.py), beside the sales and receptions of StockService. *)
(*                                                                         *)
(* An exchange locks nothing.  It reads each stock row in a statement of   *)
(* its own and, as the sessions do not flush by themselves, writes both    *)
(* rows when it commits, with the quantities it worked out before.  Every  *)
(* exchange here has one line.                                             *)
(***************************************************************************)
EXTENDS StockLedger, FiniteSets, Functions

CONSTANTS
    Calls,    \* calls of ejecutar_cambio
    Key,      \* the client_request_id of each call
    NoKey,    \* a call without one
    Line,     \* [returned, delivered, units] of each call
    Bought,   \* quantity of each variant in the order
    Supply,   \* stock of the branch at the start
    MaxMoved  \* bound of what the other operations move

GarmentExchangeAssumption ==
    /\ IsFiniteSet(Calls)
    /\ Supply \in Levels
    /\ MaxMoved \in Nat
    /\ Bought \in Baskets
    /\ Line \in [Calls -> [returned : Variants, delivered : Variants, units : Nat \ {0}]]
    /\ \A c \in Calls : Line[c].returned # Line[c].delivered

VARIABLES
    stock,      \* StockModel.quantity
    exchanges,  \* the calls whose GarmentExchangeModel was committed
    call,       \* where each call is
    in,         \* quantity of the returned garment a call has read
    out,        \* quantity of the delivered garment a call has read
    inTime,     \* the purchase is within exchange_days
    moved,      \* net units that StockService added or took
    stale       \* the exchanges that wrote over a quantity they had not read

vars == <<stock, exchanges, call, in, out, inTime, moved, stale>>

\* A call between the INSERT of its exchange and its commit.
Open == {"inserted", "read in", "read out"}

SameKey(c, d) == c # d /\ Key[c] = Key[d] /\ Key[c] # NoKey

Init ==
    /\ stock = Supply
    /\ exchanges = {}
    /\ call = [c \in Calls |-> "new"]
    /\ in = [c \in Calls |-> 0]
    /\ out = [c \in Calls |-> 0]
    /\ inTime = TRUE
    /\ moved = [v \in Variants |-> 0]
    /\ stale = {}

\* The exchanges of the order that buscar_orden_para_cambio discounts.
YaCambiados(v) ==
    LET of == {c \in exchanges : Line[c].returned = v}
    IN  SumFunctionOnSet([c \in Calls |-> Line[c].units], of)

-----------------------------------------------------------------------------
Ends(c, how) == call' = [call EXCEPT ![c] = how]

\* ejecutar_cambio answers a known key with the exchange it has.
Replay(c) ==
    /\ call[c] = "new"
    /\ \E d \in exchanges : SameKey(c, d)
    /\ Ends(c, "replayed")
    /\ UNCHANGED <<stock, exchanges, in, out, inTime, moved, stale>>

\* Inside the deadline, calcular_cambio finds the garment to deliver.
Calcular(c) ==
    /\ call[c] = "new"
    /\ ~ \E d \in exchanges : SameKey(c, d)
    /\ Ends(c, IF inTime /\ stock[Line[c].delivered] >= Line[c].units
               THEN "computed" ELSE "refused")
    /\ UNCHANGED <<stock, exchanges, in, out, inTime, moved, stale>>

\* Mutant: no unique constraint on client_request_id.
InsertUnchecked(c) ==
    /\ call[c] = "computed"
    /\ Ends(c, "inserted")
    /\ UNCHANGED <<stock, exchanges, in, out, inTime, moved, stale>>

\* The INSERT of the exchange: it waits for an open transaction with the same
\* key and fails once that one has committed.
Insert(c) ==
    /\ call[c] = "computed"
    /\ ~ \E d \in Calls : SameKey(c, d) /\ call[d] \in Open
    /\ Ends(c, IF \E d \in exchanges : SameKey(c, d) THEN "refused" ELSE "inserted")
    /\ UNCHANGED <<stock, exchanges, in, out, inTime, moved, stale>>

ReadReturned(c) ==
    /\ call[c] = "inserted"
    /\ Ends(c, "read in")
    /\ in' = [in EXCEPT ![c] = stock[Line[c].returned]]
    /\ UNCHANGED <<stock, exchanges, out, inTime, moved, stale>>

\* The garment to deliver is looked for again.
ReadDelivered(c) ==
    /\ call[c] = "read in"
    /\ out' = [out EXCEPT ![c] = stock[Line[c].delivered]]
    /\ Ends(c, IF stock[Line[c].delivered] >= Line[c].units THEN "read out" ELSE "refused")
    /\ UNCHANGED <<stock, exchanges, in, inTime, moved, stale>>

Commit(c) ==
    /\ call[c] = "read out"
    /\ Ends(c, "done")
    /\ exchanges' = exchanges \cup {c}
    /\ stock' = [stock EXCEPT ![Line[c].returned] = in[c] + Line[c].units,
                              ![Line[c].delivered] = out[c] - Line[c].units]
    /\ stale' = IF in[c] = stock[Line[c].returned] /\ out[c] = stock[Line[c].delivered]
                THEN stale ELSE stale \cup {c}
    /\ UNCHANGED <<in, out, inTime, moved>>

\* StockService.change in any other operation of the branch.
Change(v, delta) ==
    /\ stock[v] + delta \in 0 .. MaxStock
    /\ moved[v] + delta \in -MaxMoved .. MaxMoved
    /\ stock' = [stock EXCEPT ![v] = @ + delta]
    /\ moved' = [moved EXCEPT ![v] = @ + delta]
    /\ UNCHANGED <<exchanges, call, in, out, inTime, stale>>

\* A day passes, or actualizar_politica moves the deadline.
Deadline ==
    /\ inTime' = ~inTime
    /\ UNCHANGED <<stock, exchanges, call, in, out, moved, stale>>

Next ==
    \/ \E c \in Calls :
         \/ Replay(c)
         \/ Calcular(c)
         \/ Insert(c)
         \/ ReadReturned(c)
         \/ ReadDelivered(c)
         \/ Commit(c)
    \/ \E v \in Variants, delta \in {-1, 1} : Change(v, delta)
    \/ Deadline

Spec == Init /\ [][Next]_vars

-----------------------------------------------------------------------------
\* The types of the variables; no row of stock goes below zero.
TypeOK ==
    /\ stock \in [Variants -> Nat]
    /\ exchanges \subseteq Calls
    /\ call \in [Calls -> Open \cup {"new", "computed", "replayed", "refused", "done"}]
    /\ in \in [Calls -> Nat]
    /\ out \in [Calls -> Nat]
    /\ inTime \in BOOLEAN
    /\ moved \in [Variants -> Int]
    /\ stale \subseteq exchanges

\* A key names one exchange, although two calls with it may both find no row.
OnePerKey == \A c, d \in exchanges : ~SameKey(c, d)

Delivered(v) ==
    SumFunctionOnSet([c \in Calls |-> Line[c].units], {c \in exchanges : Line[c].delivered = v})

\* The units of the branch only stop adding up when an exchange wrote over a
\* quantity that somebody changed after it was read: no other way of mixing
\* calls, refusals and repeated keys loses or creates a unit.
ExactUnlessStale ==
    stale = {} =>
        \A v \in Variants : stock[v] = Supply[v] + moved[v] + YaCambiados(v) - Delivered(v)

\* The exchanges of an order never cover more units than were bought
\* (ExchangeQuantityExceededError).
WithinBought == \A v \in Variants : YaCambiados(v) <= Bought[v]

=============================================================================
