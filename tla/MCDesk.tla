------------------------------- MODULE MCDesk -------------------------------
(***************************************************************************)
(* The desks of a shop over the same tops and skirts: reservations,        *)
(* garment exchanges, the sales of an offline till and the returns.        *)
(* Each keeps its own rows, and what the others do to the shelf is in its  *)
(* own model (`moved', `Change'); `desk' names the one that moves.         *)
(*                                                                         *)
(* Reservations: three deliveries of one key, the third with another       *)
(* detail, a request of another customer for the same units, an old row.   *)
(* Exchanges: c1 and c2 repeat a key, c3 takes back the garment they       *)
(* deliver.  Offline: two overlapping deliveries bring sale a, then one    *)
(* brings b and the other c, with the key of b.  Returns: an order of two  *)
(* tops whose total does not divide in two, that skirts may replace.       *)
(***************************************************************************)
EXTENDS Reservations

CONSTANTS r1, r2, r3, r4, old, ana, eva, k1, k2, top, skirt,
          c1, c2, c3, s1, s2, a, b, c,
          Calls, Repeating, ExchangeKey, ExchangeLine, ExchangeBought, ExchangeSupply,
          Senders, Ops, Keys, NoOp, KeyOf, Batch, Sale, SaleSupply, SaleCeiling,
          Returns, NoVariant, Bought, Price, Total, ReturnSupply

MCCustomer == [r \in Requests |-> IF r \in {r4, old} THEN eva ELSE ana]

MCKey == [r \in Requests |-> IF r = r4 THEN NoKey ELSE k1]

MCDetail == [r \in Requests |-> IF r \in {r1, r2} THEN "both" ELSE "skirt"]

MCBasket == [r \in Requests |-> [v \in Variants |->
    IF v = skirt \/ r \in {r1, r2} THEN 1 ELSE 0]]

MCSupply == [v \in Variants |-> IF v = top THEN 1 ELSE 2]

MCExchangeKey == [x \in Calls |-> IF x \in Repeating THEN k1 ELSE NoKey]
MCExchangeLine == [x \in Calls |->
    IF x = c3 THEN [returned |-> skirt, delivered |-> top, units |-> 1]
              ELSE [returned |-> top, delivered |-> skirt, units |-> 1]]
MCExchangeSupply == [v \in Variants |-> IF v = top THEN 0 ELSE 2]

MCOne == [v \in Variants |-> 1]

MCKeyOf == [o \in Ops |-> IF o = a THEN k1 ELSE k2]
MCBatch == [s \in Senders |-> IF s = s1 THEN <<a, b>> ELSE <<a, c>>]
MCSale == [o \in Ops |-> [v \in Variants |->
    IF v = top THEN IF o = c THEN 0 ELSE 1 ELSE IF o = b THEN 0 ELSE 1]]

MCBought == [v \in Variants |-> IF v = top THEN 2 ELSE 0]
MCReturnSupply == [v \in Variants |-> IF v = top THEN 0 ELSE 1]

VARIABLES desk,
          exchangeStock, exchanges, call, in, out, inTime, exchangeMoved, stale,
          offlineStock, record, content, conflict, sold, counter, at, step, outcome,
          batch, told, offlineMoved,
          card, returnTime, returnStock, returnStatus, items, swap, amount, atCounter, refund,
          reader, seen

Exchange == INSTANCE GarmentExchange
    WITH Key <- ExchangeKey, Line <- ExchangeLine, Bought <- ExchangeBought,
         Supply <- ExchangeSupply, stock <- exchangeStock, moved <- exchangeMoved

Offline == INSTANCE OfflineSync
    WITH Basket <- Sale, Supply <- SaleSupply, MaxStock <- SaleCeiling,
         stock <- offlineStock, moved <- offlineMoved

Return == INSTANCE AfterSales
    WITH Supply <- ReturnSupply, stock <- returnStock, inTime <- returnTime,
         status <- returnStatus, counter <- atCounter

ASSUME DeskAssumption ==
    /\ SaleCeiling \in Nat
    /\ Return!AfterSalesAssumption
    /\ Exchange!GarmentExchangeAssumption
    /\ Offline!OfflineSyncAssumption

exchangeVars == <<exchangeStock, exchanges, call, in, out, inTime, exchangeMoved, stale>>

offlineVars == <<offlineStock, record, content, conflict, sold, counter, at, step, outcome,
                 batch, told, offlineMoved>>

returnVars == <<card, returnTime, returnStock, returnStatus, items, swap, amount, atCounter, refund,
                reader, seen>>

DeskInit ==
    /\ desk \in {"reservations", "exchanges", "offline", "returns"}
    /\ Init
    /\ Exchange!Init
    /\ Offline!Init
    /\ Return!Init
    /\ desk # "returns" => card

Reserving ==
    /\ desk = "reservations"
    /\ Next
    /\ UNCHANGED <<desk, exchangeVars, offlineVars, returnVars>>

Exchanging ==
    /\ desk = "exchanges"
    /\ Exchange!Next
    /\ UNCHANGED <<desk, vars, offlineVars, returnVars>>

SellingOffline ==
    /\ desk = "offline"
    /\ Offline!Next
    /\ UNCHANGED <<desk, vars, exchangeVars, returnVars>>

Returning ==
    /\ desk = "returns"
    /\ Return!Next
    /\ UNCHANGED <<desk, vars, exchangeVars, offlineVars>>

DeskNext == Reserving \/ Exchanging \/ SellingOffline \/ Returning

deskVars == <<desk, vars, exchangeVars, offlineVars, returnVars>>

DeskSpec == DeskInit /\ [][DeskNext]_deskVars

-----------------------------------------------------------------------------
\* The types of the variables of each desk.
TypesOK ==
    CASE desk = "reservations" -> TypeOK
      [] desk = "exchanges" -> Exchange!TypeOK
      [] desk = "offline" -> Offline!TypeOK
      [] desk = "returns" -> Return!TypeOK

\* Each unit is on the shelf or accounted for by the rows: held by a
\* reservation, swapped by an exchange that wrote over nothing it had not
\* read, sold by an offline order, received or replaced by a return.
UnitsConserved ==
    CASE desk = "reservations" -> StockConserved
      [] desk = "exchanges" -> Exchange!ExactUnlessStale
      [] desk = "offline" -> Offline!StockConserved
      [] desk = "returns" -> Return!StockConserved

\* A garment exchange repeated with its key is made once.
ExchangedOnce == desk = "exchanges" => Exchange!OnePerKey

\* What the customer gives back they bought (the comment at
\* exchange_service.py, as GarmentExchange quotes it).
WithinBought == desk = "exchanges" => Exchange!WithinBought

\* A key of the offline till sells once, offline or at the counter, and waits
\* for a review exactly while its conflict is open.
SoldOrReviewed == desk = "offline" => Offline!SoldOnce /\ Offline!ReviewPending

\* Neither the units nor the money of an order are returned twice: the returns
\* in force have at most what was bought and commit at most what was paid,
\* rounding included, although resolutions commit while a request decides, and
\* a card return is closed only with its money back with the customer.
ReturnsWithinOrder ==
    desk = "returns" =>
        Return!UnitsReturnedOnce /\ Return!CommittedWithinTotal /\ Return!CompletedWasRefunded

\* The last result of an operation in a response can be relied on.
AnswersTrue == desk = "offline" => Offline!AnswersTrue

\* A settled operation is never settled again, by a delivery or by a review.
SettledForGood == [][Offline!SettledStays]_offlineVars

=============================================================================
