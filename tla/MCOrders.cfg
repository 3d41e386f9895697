CONSTANTS
    old = old
    o1 = o1
    o2 = o2
    top = top
    skirt = skirt
    Orders = {old, o1, o2}
    Legacy = {old}
    Variants = {top, skirt}
    MaxStock = 3
    AdjustTo = {3}
    Basket <- MCBasket
    Supply <- MCSupply

SPECIFICATION LiveSpec

INVARIANTS
    TypeOK
    StockConserved
    ReleasedNeverCharged
    AnnouncedOnce

PROPERTIES
    KeepsPromise
    PaymentRecorded
    PlatformHoldReleased
