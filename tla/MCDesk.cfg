CONSTANTS
    r1 = r1
    r2 = r2
    r3 = r3
    r4 = r4
    old = old
    ana = ana
    eva = eva
    k1 = k1
    k2 = k2
    top = top
    skirt = skirt
    Requests = {r1, r2, r3, r4, old}
    Legacy = {old}
    NoKey = NoKey
    Variants = {top, skirt}
    MaxStock = 3
    MaxMoved = 1
    Customer <- MCCustomer
    Key <- MCKey
    Detail <- MCDetail
    Basket <- MCBasket
    Supply <- MCSupply
    c1 = c1
    c2 = c2
    c3 = c3
    Calls = {c1, c2, c3}
    Repeating = {c1, c2}
    s1 = s1
    s2 = s2
    a = a
    b = b
    c = c
    Senders = {s1, s2}
    Ops = {a, b, c}
    Keys = {k1, k2}
    NoOp = NoOp
    Returns = {a, b, c}
    NoVariant = NoVariant
    ExchangeKey <- MCExchangeKey
    ExchangeLine <- MCExchangeLine
    ExchangeBought <- MCOne
    ExchangeSupply <- MCExchangeSupply
    KeyOf <- MCKeyOf
    Batch <- MCBatch
    Sale <- MCSale
    SaleSupply <- MCOne
    SaleCeiling = 2
    Bought <- MCBought
    Price <- MCOne
    Total = 1
    ReturnSupply <- MCReturnSupply

SPECIFICATION DeskSpec

CHECK_DEADLOCK FALSE

INVARIANTS
    TypesOK
    OneRowPerKey
    UnitsConserved
    ExchangedOnce
    SoldOrReviewed
    ReturnsWithinOrder
    AnswersTrue

PROPERTIES
    NeverRefusedOnceRegistered
    KeepsPromise
    SettledForGood
