------------------------------ MODULE Promotions ------------------------------
(***************************************************************************)
(* The offers and the coupons of a shop, what they take off the price and  *)
(* how often they are used: PromotionService, PricingService, the rules in *)
(* domain/promociones, and the two services that sell under them, the web  *)
(* order and the till.                                                     *)
(*                                                                         *)
(* A basket holds one of each garment.  Amounts are cents.  Left out: the  *)
(* start of an offer, which mirrors its end, and the very instant of it,   *)
(* free shipping, which takes nothing off, minimum orders and offers for   *)
(* frequent customers, which only shut an offer out.  The limits of an     *)
(* offer do not move.  Who buys at the till leaves no e-mail: the use is   *)
(* the cashier's, who buys nothing on the web.                             *)
(***************************************************************************)
EXTENDS Naturals, FiniteSets, FiniteSetsExt, Functions

CONSTANTS Offers, Buyers, SaleCalls, Garments, None,
          Price,        \* the price of each garment
          Deals,        \* what an offer may be: kind, value, coupon, reach,
                        \* channels, max and perUser
          MaxSales      \* sales tried

VARIABLES offer,        \* per offer: the deal, on, past its end, uses
          rows,         \* commerce_promotion_uses: how many of each offer
          online,       \* and of those, the ones of each buyer on the web
          sale,         \* the sales under way
          guard,        \* the web order that holds the rows of the offers
          raced,        \* offers whose count a stale one has overwritten
          attempts

PromotionsAssumption ==
    /\ None \notin Offers /\ IsFiniteSet(Garments) /\ IsFiniteSet(Buyers)
    /\ Price \in [Garments -> Nat]
    /\ \A deal \in Deals :
          /\ deal.kind \in {"percent", "fixed", "clearance"} /\ deal.value \in Nat
          /\ deal.coupon \in BOOLEAN /\ deal.reach \subseteq Garments
          /\ deal.channels \subseteq {"ONLINE", "POS"}
          /\ deal.max \in Nat \union {None} /\ deal.perUser \in Nat \union {None}

promotionVars == <<offer, rows, online, sale, guard, raced, attempts>>

NoOffer == [made |-> FALSE, on |-> FALSE, past |-> FALSE, uses |-> 0]

NotSelling == [stage |-> "idle"]

-----------------------------------------------------------------------------
\* precio_final, with the half up of a cent
HalfUp(amount, percent) == (amount * percent + 50) \div 100

Final(regular, o) ==
    CASE o.kind = "percent" -> HalfUp(regular, 100 - o.value)
      [] o.kind = "fixed" -> IF regular < o.value THEN 0 ELSE regular - o.value
      [] o.kind = "clearance" -> o.value

\* validar: a clearance may be any price above nothing.
Valid(deal) ==
    /\ deal.value > 0
    /\ deal.kind = "percent" => deal.value <= 90
    /\ \A g \in deal.reach :
          /\ Final(Price[g], deal) > 0
          /\ deal.kind # "clearance" => Final(Price[g], deal) < Price[g]

InForce(o) == o.on /\ ~ o.past

\* alcanza: the offers that crear makes say what they reach.
Reaches(o, g) == g \in o.reach

\* mejor_automatica: the offers without a code that lower the price, and every
\* clearance; the lowest price of all.
Automatic(known, g, channel) ==
    {o \in DOMAIN known :
        /\ InForce(known[o]) /\ ~ known[o].coupon
        /\ channel \in known[o].channels
        /\ Reaches(known[o], g)
        /\ known[o].kind = "clearance" \/ Final(Price[g], known[o]) < Price[g]}

Unit(known, g, channel) ==
    LET finals == {Final(Price[g], known[o]) : o \in Automatic(known, g, channel)}
    IN  IF finals = {} THEN Price[g] ELSE Min(finals)

Subtotal(units) == SumFunction(units)

\* _amount and _eligible, over the whole basket: the offers that crear makes
\* have targets and no product_id nor category_id, which _scope_total asks for.
Amount(o, base) ==
    CASE o.kind = "percent" -> Min({base, HalfUp(base, o.value)})
      [] o.kind = "fixed" -> Min({base, o.value})
      [] o.kind = "clearance" -> 0

Eligible(o) == o.on /\ ~ o.past /\ (o.max # None => o.uses < o.max)

\* The best automatic one first, the coupon on what is left.
Chosen(known, base) ==
    LET candidates == {o \in DOMAIN known : ~ known[o].coupon /\ Eligible(known[o])}
        best == {o \in candidates :
                    \A p \in candidates : Amount(known[p], base) <= Amount(known[o], base)}
    IN  {o \in best : Amount(known[o], base) > 0}

QuoteOk(known, coupon) == coupon # None => coupon \in DOMAIN known /\ Eligible(known[coupon])

\* What one of the chosen and the coupon take off, if they do.
Discounts(known, base, first, coupon) ==
    LET off == IF first = None THEN 0 ELSE Amount(known[first], base)
        rest == IF coupon = None THEN 0 ELSE Amount(known[coupon], base - off)
    IN  [o \in {p \in {first} : off > 0} \union {p \in {coupon} : rest > 0} |->
            IF o = first THEN off ELSE rest]

Off(discounts) == SumFunction(discounts)

-----------------------------------------------------------------------------
Selling(c) == sale[c].stage # "idle"

\* What a session loads of the offers, and keeps: the active ones.
Loaded == [o \in {p \in Offers : offer[p].on} |-> offer[o]]

\* create_order locks the buyer and makes up the cart: prices, and a quote that
\* an invalid coupon ends.
FillCart(c, b, basket, coupon) ==
    /\ attempts < MaxSales
    /\ ~ Selling(c)
    /\ \A x \in SaleCalls : Selling(x) => sale[x].buyer # b
    /\ coupon # None => offer[coupon].made /\ offer[coupon].coupon
    /\ QuoteOk(Loaded, coupon)
    /\ sale' = [sale EXCEPT ![c] =
           [stage |-> "cart", buyer |-> b, known |-> Loaded, coupon |-> coupon,
            units |-> [g \in basket |-> Unit(Loaded, g, "ONLINE")]]]
    /\ attempts' = attempts + 1
    /\ UNCHANGED <<offer, rows, online, guard, raced>>

\* The second quote locks the active offers; the ones the session knows stay as
\* it knows them (no populate_existing).  An offer switched off since is out.
QuoteAgain(c) ==
    /\ sale[c].stage = "cart" /\ guard = None
    /\ LET call == sale[c]
           known == [o \in DOMAIN Loaded |-> IF o \in DOMAIN call.known
                                             THEN call.known[o] ELSE offer[o]]
           base == Subtotal(call.units)
           chosen == Chosen(known, base)
       IN  IF ~ QuoteOk(known, call.coupon)
           THEN sale' = [sale EXCEPT ![c] = NotSelling] /\ UNCHANGED guard
           ELSE \E first \in IF chosen = {} THEN {None} ELSE chosen :
                  LET discounts == Discounts(known, base, first, call.coupon)
                  IN  /\ sale' = [sale EXCEPT ![c] =
                             [stage |-> "quoted", buyer |-> call.buyer, known |-> known,
                              coupon |-> call.coupon, units |-> call.units,
                              discounts |-> discounts]]
                      /\ guard' = IF DOMAIN known = {} THEN None ELSE c
    /\ UNCHANGED <<offer, rows, online, raced, attempts>>

\* Each offer that `applied' names is used once more than the session knows.
Count(applied, known) ==
    /\ offer' = [o \in Offers |-> IF o \in applied
                                  THEN [offer[o] EXCEPT !.uses = known[o].uses + 1]
                                  ELSE offer[o]]
    /\ rows' = [o \in Offers |-> IF o \in applied THEN rows[o] + 1 ELSE rows[o]]
    /\ raced' = raced \union {o \in applied : known[o].uses # offer[o].uses}

\* record_uses: the uses of this buyer are counted, those of the offer are known.
PlaceOrder(c) ==
    /\ sale[c].stage = "quoted"
    /\ LET call == sale[c]
           applied == DOMAIN call.discounts
           spent(o) == call.known[o].perUser # None
                           /\ online[o][call.buyer] >= call.known[o].perUser
       IN  IF \E o \in applied : spent(o)
           THEN UNCHANGED <<offer, rows, online, raced>>
           ELSE /\ Count(applied, call.known)
                /\ online' = [o \in Offers |-> IF o \in applied
                       THEN [online[o] EXCEPT ![call.buyer] = @ + 1] ELSE online[o]]
    /\ guard' = IF guard = c THEN None ELSE guard
    /\ sale' = [sale EXCEPT ![c] = NotSelling]
    /\ UNCHANGED <<attempts>>

\* pos_sale prices the lines and remembers the offer of each that it lowers.
PriceAtTill(c, b, basket) ==
    /\ attempts < MaxSales
    /\ ~ Selling(c)
    /\ \E pick \in [basket -> Offers \union {None}] :
          /\ \A g \in basket :
                LET lowest == {o \in Automatic(Loaded, g, "POS") :
                                  Final(Price[g], offer[o]) = Unit(Loaded, g, "POS")}
                IN  IF Unit(Loaded, g, "POS") < Price[g]
                    THEN pick[g] \in lowest ELSE pick[g] = None
          /\ sale' = [sale EXCEPT ![c] =
                 [stage |-> "till", buyer |-> b, known |-> Loaded, pick |-> pick]]
    /\ attempts' = attempts + 1
    /\ UNCHANGED <<offer, rows, online, guard, raced>>

\* commerce_promotion_uses holds an offer once per order: a sale with two
\* garments under one offer fails whole.
SellAtTill(c) ==
    /\ sale[c].stage = "till"
    /\ LET pick == sale[c].pick
           lines(o) == {g \in DOMAIN pick : pick[g] = o}
           applied == {pick[g] : g \in DOMAIN pick} \ {None}
       IN  /\ applied # {} => guard = None
           /\ IF \E o \in applied : Cardinality(lines(o)) > 1
              THEN UNCHANGED <<offer, rows, raced>>
              ELSE Count(applied, sale[c].known)
    /\ sale' = [sale EXCEPT ![c] = NotSelling]
    /\ UNCHANGED <<online, guard, attempts>>

-----------------------------------------------------------------------------
NewOffer(deal) ==
    [kind |-> deal.kind, value |-> deal.value, coupon |-> deal.coupon,
     reach |-> deal.reach, channels |-> deal.channels, max |-> deal.max,
     perUser |-> deal.perUser, made |-> TRUE, on |-> TRUE, past |-> FALSE, uses |-> 0]

\* What the shop does with an offer.  Only `crear' looks at the rules.
Crear(o, deal) ==
    /\ ~ offer[o].made
    /\ Valid(deal)
    /\ offer' = [offer EXCEPT ![o] = NewOffer(deal)]
    /\ UNCHANGED <<rows, online, sale, guard, raced, attempts>>

Actualizar(o) ==
    /\ offer[o].made /\ guard = None
    /\ offer' = [offer EXCEPT ![o].past = ~ @]
    /\ UNCHANGED <<rows, online, sale, guard, raced, attempts>>

Activar(o) ==
    /\ offer[o].made /\ ~ offer[o].on /\ guard = None
    /\ offer' = [offer EXCEPT ![o].on = TRUE]
    /\ UNCHANGED <<rows, online, sale, guard, raced, attempts>>

Desactivar(o) ==
    /\ offer[o].on /\ guard = None
    /\ offer' = [offer EXCEPT ![o].on = FALSE]
    /\ UNCHANGED <<rows, online, sale, guard, raced, attempts>>

\* Its time is over, for the sales under way too: they look at the clock.
Lapse(o) ==
    /\ offer[o].made /\ ~ offer[o].past
    /\ offer' = [offer EXCEPT ![o].past = TRUE]
    /\ sale' = [c \in SaleCalls |->
           IF Selling(c) /\ o \in DOMAIN sale[c].known
           THEN [sale[c] EXCEPT !.known[o].past = TRUE] ELSE sale[c]]
    /\ UNCHANGED <<rows, online, guard, raced, attempts>>

PromotionInit ==
    /\ offer = [o \in Offers |-> NoOffer]
    /\ rows = [o \in Offers |-> 0]
    /\ online = [o \in Offers |-> [b \in Buyers |-> 0]]
    /\ sale = [c \in SaleCalls |-> NotSelling]
    /\ guard = None /\ raced = {} /\ attempts = 0

PromotionNext ==
    \/ \E o \in Offers :
          \/ \E deal \in Deals : Crear(o, deal)
          \/ Actualizar(o)
          \/ Lapse(o)
          \/ Activar(o)
          \/ Desactivar(o)
    \/ \E c \in SaleCalls :
          \/ QuoteAgain(c)
          \/ PlaceOrder(c)
          \/ SellAtTill(c)
          \/ \E b \in Buyers, basket \in SUBSET Garments \ {{}} :
                \/ PriceAtTill(c, b, basket)
                \/ \E coupon \in Offers \union {None} : FillCart(c, b, basket, coupon)

-----------------------------------------------------------------------------
\* An offer has been used as often as it says, on the web no more often than it
\* may be, and by nobody more often than each may.  record_uses
\* (promotions.py:342) adds one to the count its session had loaded before it
\* took the lock, so two sales at once may leave it short.
UsesCounted ==
    \A o \in Offers :
        /\ o \notin raced => offer[o].uses = rows[o]
        /\ offer[o].uses <= rows[o]
        /\ offer[o].made =>
              /\ offer[o].max # None /\ o \notin raced =>
                    SumFunction(online[o]) <= offer[o].max
              /\ offer[o].perUser # None =>
                    \A b \in Buyers : online[o][b] <= offer[o].perUser

\* Nobody pays more than the prices say because there is an offer, unless the
\* offer is a clearance above the price, which validar lets through; and what
\* is taken off never exceeds what is there to pay.
PaysNoMore ==
    \A c \in SaleCalls : sale[c].stage = "quoted" =>
        LET units == sale[c].units
            base == Subtotal(units)
        IN  /\ Off(sale[c].discounts) <= base
            /\ base > SumFunctionOnSet(Price, DOMAIN units) =>
                   \E o \in Offers, g \in DOMAIN units :
                       offer[o].made /\ offer[o].kind = "clearance"
                           /\ offer[o].value > Price[g]

\* Two reductions of the season do not pile up (`dos rebajas de temporada no se
\* apilan', promotions.py:305): whoever brings no coupon pays the prices that
\* PricingService gives.
NothingPiledUp ==
    \A c \in SaleCalls :
        sale[c].stage = "quoted" /\ sale[c].coupon = None =>
            Off(sale[c].discounts) = 0 \/ \A g \in DOMAIN sale[c].units :
                                              sale[c].units[g] = Price[g]

=============================================================================
